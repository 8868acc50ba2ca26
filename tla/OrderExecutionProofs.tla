------------------------ MODULE OrderExecutionProofs ------------------------
(***************************************************************************)
(* Proofs about OrderExecution, for any set of workers, keys and requests, *)
(* any settings and any faults.                                            *)
(***************************************************************************)
EXTENDS OrderExecution, TLAPS

\* What a worker holding a key knows, step by step.  Before place_order nothing
\* was sent; after it the record still waits for its reconciliation; once the
\* verdict is reached a RECONCILED one is the broker's.
HeldRecordIsTrue ==
  \A w \in Workers : pc[w] \in Holding =>
    /\ rec[w] \in OrderRecord
    /\ rec[w].by = w
    /\ pc[w] = "place" => rec[w] = NewRecord(w) /\ posts[Key(w)] = 0
    /\ pc[w] = "mark_unknown" => rec[w].reconciliation_state = "BLOCKING_DUPLICATES"
    /\ pc[w] = "reconcile" =>
         /\ rec[w].reconciliation_state = "REQUIRED"
         /\ rec[w].broker_order_id # None => posts[Key(w)] = 1
    /\ pc[w] = "save" =>
         /\ rec[w].reconciliation_state \in {"BLOCKING_DUPLICATES", "RECONCILED"}
         /\ rec[w].reconciliation_state = "RECONCILED" =>
              posts[Key(w)] = 1 /\ TrueOf(rec[w].status, book[Key(w)])

\* The broker has an order for a key only under a reservation, and its own state
\* of the order tells whether there is one.
OrdersAreReserved ==
  \A k \in Keys : /\ store[k] = None => posts[k] = 0
                  /\ posts[k] = 0 <=> book[k] = "none"

\* The inductive invariant.
IInv ==
  /\ TypeOK
  /\ OneExecutionPerKey
  /\ OrdersAreReserved
  /\ AtMostOneOrderPerKey
  /\ HeldRecordIsTrue
  /\ StoredStatusIsTrue

-----------------------------------------------------------------------------
\* Initially nothing is stored, sent or running.
LEMMA InitIInv == Init => IInv
  BY ExecutionAssumption
  DEF Init, IInv, TypeOK, OneExecutionPerKey, OrdersAreReserved, AtMostOneOrderPerKey,
      HeldRecordIsTrue, StoredStatusIsTrue, Holding, BookState, SystemStateSnapshot

\* What one worker's step may do to the type invariant.
LEMMA NewRecordType == \A w \in Workers : NewRecord(w) \in OrderRecord
  BY DEF NewRecord, OrderRecord, OrderStatus, ReconciliationState

\* What a call may take for the system state, from either source, is a snapshot.
LEMMA SnapshotType ==
  ASSUME TypeOK, NEW request \in Requests, NEW snapshot \in SnapshotsFor(request)
  PROVE  snapshot \in SystemStateSnapshot
  <1>1. /\ Settings.live_mode \in BOOLEAN
        /\ Settings.live_trading \in BOOLEAN
        /\ Settings.kill_switch \in BOOLEAN
    BY ExecutionAssumption
  <1>2. \/ snapshot = sysState
        \/ snapshot = [live_mode |-> Settings.live_mode,
                       live_trading |-> Settings.live_trading,
                       kill_switch |-> Settings.kill_switch]
        \/ snapshot = [live_mode |-> Settings.live_mode, live_trading |-> FALSE,
                       kill_switch |-> TRUE]
    BY Zenon DEF SnapshotsFor
  <1>3. [live_mode |-> Settings.live_mode, live_trading |-> Settings.live_trading,
         kill_switch |-> Settings.kill_switch] \in SystemStateSnapshot
    BY <1>1 DEF SystemStateSnapshot
  <1>4. [live_mode |-> Settings.live_mode, live_trading |-> FALSE,
         kill_switch |-> TRUE] \in SystemStateSnapshot
    BY <1>1, FALSE \in BOOLEAN, TRUE \in BOOLEAN, Zenon DEF SystemStateSnapshot
  <1> QED
    BY <1>2, <1>3, <1>4, Zenon DEF TypeOK

\* A caller that reads the state claims nothing and stores nothing.
LEMMA ReadStateIInv == ASSUME IInv, NEW w \in Workers, ReadState(w) PROVE IInv'
  <1>0. PICK request \in Requests : \E snapshot \in SnapshotsFor(request) :
          call' = [call EXCEPT ![w] = [request |-> request, snapshot |-> snapshot,
                                       kill_at_call |-> FALSE]]
    BY DEF ReadState
  <1>1. PICK snapshot \in SnapshotsFor(request) :
          call' = [call EXCEPT ![w] = [request |-> request, snapshot |-> snapshot,
                                       kill_at_call |-> FALSE]]
    BY <1>0
  <1>2. [request |-> request, snapshot |-> snapshot,
         kill_at_call |-> FALSE] \in Call
    BY SnapshotType, ExecutionAssumption DEF IInv, TypeOK, Call, SystemStateSnapshot
  <1>3. pc' = [pc EXCEPT ![w] = "ready"] /\ UNCHANGED <<sysState, rec, store, posts, book>>
    BY DEF ReadState
  <1>4. \A v \in Workers : pc'[v] \in Holding \cup {"reserve"} =>
          v # w /\ pc[v] = pc'[v] /\ call'[v] = call[v]
    BY <1>1, <1>3 DEF IInv, TypeOK, Holding
  <1>5. TypeOK'
    BY <1>1, <1>2, <1>3, <1>4 DEF IInv, TypeOK, Holding, Key
  <1> QED
    BY <1>3, <1>4, <1>5
    DEF IInv, OneExecutionPerKey, OrdersAreReserved, AtMostOneOrderPerKey, HeldRecordIsTrue,
        StoredStatusIsTrue, Holding, Key, NewRecord

\* A call that starts takes over its arguments, whatever became of the row since.
LEMMA ExecuteIInv == ASSUME IInv, NEW w \in Workers, Execute(w) PROVE IInv'
  <1>1. /\ pc[w] = "ready" /\ pc' = [pc EXCEPT ![w] = "validate"]
        /\ call' = [call EXCEPT ![w].kill_at_call = sysState.kill_switch]
        /\ UNCHANGED <<sysState, rec, store, posts, book>>
    BY DEF Execute, GoTo
  <1>2. [call[w] EXCEPT !.kill_at_call = sysState.kill_switch] \in Call
    BY <1>1 DEF IInv, TypeOK, Call, SystemStateSnapshot
  <1>3. \A v \in Workers : pc'[v] \in Holding \cup {"reserve"} =>
          v # w /\ pc[v] = pc'[v] /\ call'[v] = call[v]
    BY <1>1 DEF IInv, TypeOK, Holding
  <1>4. TypeOK'
    BY <1>1, <1>2, <1>3 DEF IInv, TypeOK, Holding, Key
  <1> QED
    BY <1>1, <1>3, <1>4
    DEF IInv, OneExecutionPerKey, OrdersAreReserved, AtMostOneOrderPerKey, HeldRecordIsTrue,
        StoredStatusIsTrue, Holding, Key, NewRecord

\* A step that only leaves execute frees the key and changes nothing else.
LEMMA LeaveIInv ==
  ASSUME IInv, NEW w \in Workers, Leave(w), UNCHANGED <<store, posts, book>>,
         sysState' = sysState
  PROVE  IInv'
  <1>1. /\ pc' = [pc EXCEPT ![w] = "idle"]
        /\ call' = [call EXCEPT ![w] = None]
        /\ rec' = [rec EXCEPT ![w] = None]
    BY DEF Leave
  <1>2. \A v \in Workers : pc'[v] # "idle" =>
          v # w /\ pc[v] = pc'[v] /\ call'[v] = call[v] /\ rec'[v] = rec[v]
    BY <1>1 DEF IInv, TypeOK
  <1>3. TypeOK'
    BY <1>1, <1>2 DEF IInv, TypeOK, Holding, Key
  <1> QED
    BY <1>2, <1>3
    DEF IInv, OneExecutionPerKey, OrdersAreReserved, AtMostOneOrderPerKey, HeldRecordIsTrue,
        StoredStatusIsTrue, Holding, Key, NewRecord

\* A key that is not found leads to the reservation, and holds no key yet.
LEMMA LookupMissesIInv == ASSUME IInv, NEW w \in Workers, LookupMisses(w) PROVE IInv'
  <1>1. /\ pc[w] = "validate"
        /\ pc' = [pc EXCEPT ![w] = "reserve"]
        /\ UNCHANGED <<sysState, call, rec, store, posts, book>>
        /\ Key(w) # None
    BY DEF LookupMisses, GoTo, PassesPreTrade, Key
  <1>2. Key(w) \in Keys
    BY <1>1 DEF IInv, TypeOK, Call, Request, Key
  <1>3. \A v \in Workers : pc'[v] \in Holding => v # w /\ pc[v] = pc'[v]
    BY <1>1 DEF IInv, TypeOK, Holding
  <1>4. TypeOK'
    BY <1>1, <1>2, <1>3 DEF IInv, TypeOK, Holding, Key
  <1> QED
    BY <1>1, <1>3, <1>4
    DEF IInv, OneExecutionPerKey, OrdersAreReserved, AtMostOneOrderPerKey, HeldRecordIsTrue,
        StoredStatusIsTrue, Holding, Key, NewRecord

\* Nobody holds a key that is not in the store.
LEMMA FreeKeyUnheld ==
  ASSUME IInv, NEW k \in Keys, store[k] = None, NEW v \in Workers, pc[v] \in Holding
  PROVE  Key(v) # k
  BY NewRecordType, ExecutionAssumption DEF IInv, OneExecutionPerKey

\* The insert of the key either makes the caller its only holder or is refused.
LEMMA ReserveIInv == ASSUME IInv, NEW w \in Workers, Reserve(w) PROVE IInv'
  <1>1. /\ pc[w] = "reserve"
        /\ pc' = [pc EXCEPT ![w] = "place"]
        /\ store[Key(w)] = None
        /\ rec' = [rec EXCEPT ![w] = NewRecord(w)]
        /\ store' = [store EXCEPT ![Key(w)] = NewRecord(w)]
        /\ UNCHANGED <<sysState, call, posts, book>>
    BY DEF Reserve, GoTo
  <1>2. Key(w) \in Keys /\ NewRecord(w) \in OrderRecord
    BY <1>1, NewRecordType DEF IInv, TypeOK
  <1>3. \A v \in Workers : v # w => pc'[v] = pc[v] /\ rec'[v] = rec[v]
    BY <1>1 DEF IInv, TypeOK
  <1>4. \A v \in Workers : v # w /\ pc[v] \in Holding => Key(v) # Key(w)
    BY <1>1, <1>2, FreeKeyUnheld
  <1>5. pc'[w] = "place" /\ rec'[w] = NewRecord(w) /\ store'[Key(w)] = NewRecord(w)
    BY <1>1, <1>2 DEF IInv, TypeOK
  <1>6. \A k \in Keys : k # Key(w) => store'[k] = store[k]
    BY <1>1 DEF IInv, TypeOK
  <1>7. \A v \in Workers : Key(v)' = Key(v)
    BY <1>1 DEF Key
  <1>8. TypeOK'
    BY <1>1, <1>2, <1>3, <1>5, <1>7 DEF IInv, TypeOK, Holding
  <1>9. OneExecutionPerKey'
    <2>1. \A v \in Workers : pc'[v] \in Holding /\ v # w =>
            Key(v) \in Keys /\ store'[Key(v)] = NewRecord(v)
      BY <1>3, <1>4, <1>6 DEF IInv, TypeOK, OneExecutionPerKey
    <2> QED
      BY <2>1, <1>3, <1>4, <1>5, <1>7 DEF IInv, OneExecutionPerKey, NewRecord
  <1>10. posts[Key(w)] = 0
    BY <1>1, <1>2 DEF IInv, OrdersAreReserved
  <1>11. HeldRecordIsTrue'
    BY <1>1, <1>2, <1>3, <1>5, <1>7, <1>10 DEF IInv, HeldRecordIsTrue, Holding, NewRecord
  <1>12. OrdersAreReserved' /\ AtMostOneOrderPerKey' /\ StoredStatusIsTrue'
    BY <1>1, <1>2, <1>5, <1>6, ExecutionAssumption
    DEF IInv, OrdersAreReserved, AtMostOneOrderPerKey, StoredStatusIsTrue, NewRecord
  <1> QED
    BY <1>8, <1>9, <1>11, <1>12 DEF IInv

\* A failure of the database ends the call; what it had reserved stays claimed.
LEMMA DatabaseFailsIInv == ASSUME IInv, NEW w \in Workers, DatabaseFails(w) PROVE IInv'
  <1>1. CASE UNCHANGED store
    BY <1>1, LeaveIInv DEF DatabaseFails
  <1>2. CASE /\ pc[w] = "reserve"
             /\ store[Key(w)] = None
             /\ store' = [store EXCEPT ![Key(w)] = NewRecord(w)]
    <2>1. /\ Key(w) \in Keys /\ NewRecord(w) \in OrderRecord
          /\ UNCHANGED <<sysState, posts, book>>
          /\ pc' = [pc EXCEPT ![w] = "idle"]
          /\ call' = [call EXCEPT ![w] = None]
          /\ rec' = [rec EXCEPT ![w] = None]
      BY <1>2, NewRecordType DEF IInv, TypeOK, DatabaseFails, Leave
    <2>2. \A v \in Workers : pc'[v] # "idle" =>
            v # w /\ pc[v] = pc'[v] /\ call'[v] = call[v] /\ rec'[v] = rec[v] /\ Key(v)' = Key(v)
      BY <2>1 DEF IInv, TypeOK, Key
    <2>3. \A v \in Workers : pc'[v] \in Holding =>
            pc[v] \in Holding /\ Key(v) \in Keys /\ Key(v) # Key(w)
      BY <1>2, <2>1, <2>2, FreeKeyUnheld DEF IInv, TypeOK, Holding
    <2>4. /\ store'[Key(w)] = NewRecord(w)
          /\ \A k \in Keys : k # Key(w) => store'[k] = store[k]
      BY <1>2, <2>1 DEF IInv, TypeOK
    <2>5. TypeOK'
      BY <1>2, <2>1, <2>2 DEF IInv, TypeOK, Holding
    <2>6. OneExecutionPerKey' /\ HeldRecordIsTrue'
      BY <2>1, <2>2, <2>3, <2>4
      DEF IInv, OneExecutionPerKey, HeldRecordIsTrue, Holding, NewRecord
    <2>7. OrdersAreReserved' /\ AtMostOneOrderPerKey' /\ StoredStatusIsTrue'
      BY <1>2, <2>1, <2>4, ExecutionAssumption
      DEF IInv, OrdersAreReserved, AtMostOneOrderPerKey, StoredStatusIsTrue, NewRecord
    <2> QED
      BY <2>5, <2>6, <2>7 DEF IInv
  <1> QED
    BY <1>1, <1>2 DEF DatabaseFails

-----------------------------------------------------------------------------
\* place_order, whatever its outcome: the worker keeps its key, and at most the
\* first order for it is created.
LEMMA PlaceIInv ==
  ASSUME IInv, NEW w \in Workers, pc[w] = "place",
         NEW next \in {"reconcile", "mark_unknown"}, pc' = [pc EXCEPT ![w] = next],
         NEW r \in OrderRecord, r.by = w, rec' = [rec EXCEPT ![w] = r],
         UNCHANGED <<posts, book>> \/ BrokerCreates(Key(w)),
         next = "mark_unknown" => r.reconciliation_state = "BLOCKING_DUPLICATES",
         next = "reconcile" => /\ r.reconciliation_state = "REQUIRED"
                               /\ r.broker_order_id # None => BrokerCreates(Key(w)),
         UNCHANGED <<sysState, call, store>>
  PROVE  IInv'
  <1>1. /\ Key(w) \in Keys /\ posts[Key(w)] = 0 /\ store[Key(w)] = NewRecord(w)
        /\ pc[w] \in Holding
    BY DEF IInv, TypeOK, HeldRecordIsTrue, OneExecutionPerKey, Holding
  <1>2. /\ posts' \in [Keys -> Nat] /\ book' \in [Keys -> BookState]
        /\ \A k \in Keys : k # Key(w) => posts'[k] = posts[k] /\ book'[k] = book[k]
        /\ \/ posts'[Key(w)] = 0 /\ book'[Key(w)] = book[Key(w)]
           \/ posts'[Key(w)] = 1 /\ book'[Key(w)] = "pending"
        /\ BrokerCreates(Key(w)) => posts'[Key(w)] = 1
    BY <1>1 DEF IInv, TypeOK, BrokerCreates, BookState
  <1>3. \A v \in Workers : /\ Key(v)' = Key(v)
                           /\ v # w => pc'[v] = pc[v] /\ rec'[v] = rec[v]
    BY DEF IInv, TypeOK, Key
  <1>4. pc'[w] = next /\ rec'[w] = r
    BY DEF IInv, TypeOK
  <1>5. \A v \in Workers : v # w /\ pc[v] \in Holding => Key(v) \in Keys /\ Key(v) # Key(w)
    BY <1>1 DEF IInv, TypeOK, OneExecutionPerKey
  <1>6. TypeOK'
    BY <1>1, <1>2, <1>3, <1>4 DEF IInv, TypeOK, Holding
  <1>7. OneExecutionPerKey'
    BY <1>1, <1>3, <1>4 DEF IInv, OneExecutionPerKey, Holding, NewRecord
  <1>8. HeldRecordIsTrue'
    BY <1>1, <1>2, <1>3, <1>4, <1>5 DEF IInv, HeldRecordIsTrue, Holding, NewRecord
  <1>9. OrdersAreReserved' /\ AtMostOneOrderPerKey'
    BY <1>1, <1>2, NewRecordType, ExecutionAssumption
    DEF IInv, TypeOK, OrdersAreReserved, AtMostOneOrderPerKey
  <1>10. StoredStatusIsTrue'
    BY <1>1, <1>2 DEF IInv, StoredStatusIsTrue, NewRecord
  <1> QED
    BY <1>6, <1>7, <1>8, <1>9, <1>10 DEF IInv

\* The broker's answer becomes the record of the holder, and is true of the book.
LEMMA PlaceRepliesIInv == ASSUME IInv, NEW w \in Workers, PlaceReplies(w) PROVE IInv'
  <1>1. PICK id \in {Key(w), None} :
          rec' = [rec EXCEPT ![w].broker_order_id = id,
                             ![w].status = IF id = None THEN Unknown ELSE "SUBMITTED"]
    BY DEF PlaceReplies
  <1> DEFINE status == IF id = None THEN Unknown ELSE "SUBMITTED"
             r == [rec[w] EXCEPT !.broker_order_id = id, !.status = status]
  <1>2. /\ pc[w] = "place" /\ id \in Keys \cup {None} /\ status \in OrderStatus
        /\ rec[w] \in OrderRecord /\ rec[w].by = w
        /\ rec[w].reconciliation_state = "REQUIRED"
    BY DEF IInv, TypeOK, HeldRecordIsTrue, Holding, PlaceReplies, GoTo, NewRecord,
           OrderStatus, Unknown
  <1>3. r \in OrderRecord /\ r.by = w /\ r.reconciliation_state = "REQUIRED"
    <2> HIDE DEF status
    <2> QED
      BY <1>2 DEF OrderRecord
  <1>4. rec' = [rec EXCEPT ![w] = r]
    BY <1>1
  <1>5. /\ pc' = [pc EXCEPT ![w] = "reconcile"] /\ BrokerCreates(Key(w))
        /\ UNCHANGED <<sysState, call, store>>
    BY DEF PlaceReplies, GoTo
  <1> HIDE DEF r
  <1> QED
    BY <1>2, <1>3, <1>4, <1>5, PlaceIInv

\* A refusal is recorded as one and reconciled, whether or not the broker has an order.
LEMMA PlaceRefusedIInv == ASSUME IInv, NEW w \in Workers, PlaceRefused(w) PROVE IInv'
  <1> DEFINE r == [rec[w] EXCEPT !.status = "REJECTED"]
  <1>1. pc[w] = "place" /\ Key(w) \in Keys /\ rec[w] = NewRecord(w)
    BY DEF IInv, TypeOK, HeldRecordIsTrue, Holding, PlaceRefused, GoTo
  <1>2. /\ r \in OrderRecord /\ r.by = w /\ r.reconciliation_state = "REQUIRED"
        /\ r.broker_order_id = None
    BY <1>1 DEF NewRecord, OrderRecord, OrderStatus, ReconciliationState
  <1>3. rec' = [rec EXCEPT ![w] = r]
    BY DEF PlaceRefused
  <1>4. /\ pc' = [pc EXCEPT ![w] = "reconcile"]
        /\ UNCHANGED <<posts, book>> \/ BrokerCreates(Key(w))
        /\ UNCHANGED <<sysState, call, store>>
    BY DEF PlaceRefused, GoTo
  <1> HIDE DEF r
  <1> QED
    BY <1>1, <1>2, <1>3, <1>4, PlaceIInv

\* An answer that is lost leaves a record that claims nothing, sent or not.
LEMMA PlaceRaisesIInv == ASSUME IInv, NEW w \in Workers, PlaceRaises(w) PROVE IInv'
  <1> DEFINE r == [rec[w] EXCEPT !.status = Unknown,
                                 !.reconciliation_state = "BLOCKING_DUPLICATES"]
  <1>1. /\ pc[w] = "place" /\ rec[w] \in OrderRecord /\ rec[w].by = w
    BY DEF IInv, HeldRecordIsTrue, Holding, PlaceRaises, GoTo
  <1>2. r \in OrderRecord /\ r.by = w /\ r.reconciliation_state = "BLOCKING_DUPLICATES"
    BY <1>1 DEF OrderRecord, OrderStatus, ReconciliationState, Unknown
  <1>3. rec' = [rec EXCEPT ![w] = r]
    BY DEF PlaceRaises
  <1>4. /\ pc' = [pc EXCEPT ![w] = "mark_unknown"]
        /\ UNCHANGED <<posts, book>> \/ BrokerCreates(Key(w))
        /\ UNCHANGED <<sysState, call, store>>
    BY DEF PlaceRaises, GoTo
  <1> HIDE DEF r
  <1> QED
    BY <1>1, <1>2, <1>3, <1>4, PlaceIInv

-----------------------------------------------------------------------------
\* What a reconciliation reports of an order that exists is true of it.
LEMMA ReconciledType ==
  ASSUME NEW record \in OrderRecord, NEW market, NEW state
  PROVE  Reconciled(record, market, state) \in OrderStatus
  BY DEF Reconciled, ZerodhaStatus, AlpacaStatus, OrderStatus, Unknown

\* A status that the reconciler understood is that of the order it asked for.
LEMMA ReconciledIsTrue ==
  ASSUME NEW record, NEW market, NEW state \in BookState \ {"none"},
         Reconciled(record, market, state) # Unknown
  PROVE  /\ record.broker_order_id # None
         /\ TrueOf(Reconciled(record, market, state), state)
  BY DEF Reconciled, ZerodhaStatus, AlpacaStatus, TrueOf, Unknown, BookState

\* Reconciling replaces the holder's record by one that is true of the book.
LEMMA ReconcileIInv == ASSUME IInv, NEW w \in Workers, Reconcile(w) PROVE IInv'
  <1> DEFINE status == Reconciled(rec[w], call[w].request.market, book[Key(w)])
             r == WithReconciliation(rec[w], status)
  <1>1. /\ pc[w] = "reconcile" /\ pc' = [pc EXCEPT ![w] = "save"]
        /\ rec' = [rec EXCEPT ![w] = r]
        /\ UNCHANGED <<sysState, call, store, posts, book>>
    BY DEF Reconcile, GoTo
  <1>2. /\ Key(w) \in Keys /\ rec[w] \in OrderRecord /\ rec[w].by = w
        /\ rec[w].broker_order_id # None => posts[Key(w)] = 1
    BY <1>1 DEF IInv, TypeOK, HeldRecordIsTrue, Holding
  <1>3. status \in OrderStatus
    BY <1>2, ReconciledType
  <1>4. status # Unknown => posts[Key(w)] = 1 /\ TrueOf(status, book[Key(w)])
    <2>1. status # Unknown => rec[w].broker_order_id # None
      BY DEF Reconciled
    <2>2. posts[Key(w)] = 1 => book[Key(w)] \in BookState \ {"none"}
      BY <1>2 DEF IInv, TypeOK, OrdersAreReserved
    <2> QED
      BY <1>2, <2>1, <2>2, ReconciledIsTrue
  <1> HIDE DEF status
  <1>5. /\ r \in OrderRecord /\ r.by = w /\ r.status = status
        /\ r.reconciliation_state \in {"BLOCKING_DUPLICATES", "RECONCILED"}
        /\ r.reconciliation_state = "RECONCILED" => status # Unknown
    BY <1>2, <1>3 DEF WithReconciliation, OrderRecord, ReconciliationState
  <1> HIDE DEF r
  <1>6. \A v \in Workers : v # w => pc'[v] = pc[v] /\ rec'[v] = rec[v]
    BY <1>1 DEF IInv, TypeOK
  <1>7. pc'[w] = "save" /\ rec'[w] = r /\ \A v \in Workers : Key(v)' = Key(v)
    BY <1>1 DEF IInv, TypeOK, Key
  <1>8. TypeOK'
    BY <1>1, <1>5, <1>6, <1>7 DEF IInv, TypeOK, Holding
  <1>9. OneExecutionPerKey'
    BY <1>1, <1>6, <1>7 DEF IInv, OneExecutionPerKey, Holding, NewRecord
  <1>10. HeldRecordIsTrue'
    BY <1>1, <1>4, <1>5, <1>6, <1>7 DEF IInv, HeldRecordIsTrue, Holding, NewRecord
  <1> QED
    BY <1>1, <1>8, <1>9, <1>10
    DEF IInv, OrdersAreReserved, AtMostOneOrderPerKey, StoredStatusIsTrue

\* The final upsert of execute, on either path: the held record replaces the
\* reserved one.
LEMMA SettleIInv ==
  ASSUME IInv, NEW w \in Workers, pc[w] \in {"mark_unknown", "save"}, Leave(w),
         store' = [store EXCEPT ![Key(w)] = rec[w]], UNCHANGED <<sysState, posts, book>>
  PROVE  IInv'
  <1>1. /\ pc' = [pc EXCEPT ![w] = "idle"]
        /\ call' = [call EXCEPT ![w] = None]
        /\ rec' = [rec EXCEPT ![w] = None]
    BY DEF Leave
  <1>2. /\ pc[w] \in Holding /\ Key(w) \in Keys /\ rec[w] \in OrderRecord
        /\ rec[w].reconciliation_state = "RECONCILED" =>
             posts[Key(w)] = 1 /\ TrueOf(rec[w].status, book[Key(w)])
    BY DEF IInv, TypeOK, HeldRecordIsTrue, Holding
  <1>3. \A v \in Workers : pc'[v] # "idle" =>
          v # w /\ pc[v] = pc'[v] /\ call'[v] = call[v] /\ rec'[v] = rec[v] /\ Key(v)' = Key(v)
    BY <1>1 DEF IInv, TypeOK, Key
  <1>4. \A v \in Workers : pc'[v] \in Holding =>
          pc[v] \in Holding /\ Key(v) \in Keys /\ Key(v) # Key(w)
    BY <1>2, <1>3 DEF IInv, TypeOK, OneExecutionPerKey, Holding
  <1>5. /\ store'[Key(w)] = rec[w]
        /\ \A k \in Keys : k # Key(w) => store'[k] = store[k]
    BY <1>2 DEF IInv, TypeOK
  <1>6. TypeOK'
    BY <1>1, <1>2, <1>3 DEF IInv, TypeOK, Holding
  <1>7. OneExecutionPerKey' /\ HeldRecordIsTrue'
    BY <1>3, <1>4, <1>5 DEF IInv, OneExecutionPerKey, HeldRecordIsTrue, Holding, NewRecord
  <1>8. OrdersAreReserved' /\ AtMostOneOrderPerKey' /\ StoredStatusIsTrue'
    BY <1>2, <1>5, ExecutionAssumption
    DEF IInv, OrdersAreReserved, AtMostOneOrderPerKey, StoredStatusIsTrue
  <1> QED
    BY <1>6, <1>7, <1>8 DEF IInv

\* A stored status stays true while the order moves: a final state is never left.
LEMMA BrokerMovesIInv == ASSUME IInv, NEW k \in Keys, BrokerMoves(k) PROVE IInv'
  <1>1. /\ UNCHANGED <<sysState, pc, call, rec, store, posts>>
        /\ book[k] \in {"pending", "open", "partially_filled"}
        /\ \E next \in BookState \ {"none"} : book' = [book EXCEPT ![k] = next]
    BY DEF BrokerMoves, FinalBookState, BookState
  <1>2. /\ book' \in [Keys -> BookState]
        /\ \A j \in Keys : /\ book'[j] = "none" <=> book[j] = "none"
                           /\ book'[j] # book[j] => book[j] \notin FinalBookState
    BY <1>1 DEF IInv, TypeOK, FinalBookState
  <1>3. ASSUME NEW j \in Keys, NEW status, TrueOf(status, book[j])
        PROVE  TrueOf(status, book'[j])
    BY <1>2, <1>3 DEF TrueOf, FinalBookState
  <1>4. TypeOK' /\ OneExecutionPerKey'
    BY <1>1, <1>2 DEF IInv, TypeOK, OneExecutionPerKey, Key, NewRecord
  <1>5. HeldRecordIsTrue'
    <2>1. \A w \in Workers : pc[w] \in Holding => Key(w) \in Keys
      BY DEF IInv, TypeOK
    <2> QED
      BY <1>1, <1>3, <2>1 DEF IInv, HeldRecordIsTrue, Key, NewRecord
  <1>6. OrdersAreReserved' /\ AtMostOneOrderPerKey' /\ StoredStatusIsTrue'
    BY <1>1, <1>2, <1>3 DEF IInv, OrdersAreReserved, AtMostOneOrderPerKey, StoredStatusIsTrue
  <1> QED
    BY <1>4, <1>5, <1>6 DEF IInv

\* The operator's changes of mode and switch touch no call and no row.
LEMMA OperatorIInv == ASSUME IInv, OperatorChangesState PROVE IInv'
  <1>1. sysState' \in SystemStateSnapshot
    BY DEF OperatorChangesState, IInv, TypeOK, SystemStateSnapshot
  <1>2. UNCHANGED <<pc, call, rec, store, posts, book>>
    BY DEF OperatorChangesState
  <1> QED
    BY <1>1, <1>2
    DEF IInv, TypeOK, OneExecutionPerKey, OrdersAreReserved, AtMostOneOrderPerKey,
        HeldRecordIsTrue, StoredStatusIsTrue, Key, NewRecord

-----------------------------------------------------------------------------
\* Any step of one call keeps the invariant.
LEMMA StepIInv == ASSUME IInv, NEW w \in Workers, Progress(w) \/ Failure(w) PROVE IInv'
  <1>1. CASE \/ PreTradeRejects(w) \/ ReturnExisting(w) \/ ReserveLosesRace(w)
             \/ ReconcileRaises(w)
    BY <1>1, LeaveIInv
    DEF PreTradeRejects, ReturnExisting, ReserveLosesRace, ReconcileRaises
  <1>2. CASE MarkUnknown(w) \/ Save(w)
    BY <1>2, SettleIInv DEF MarkUnknown, Save
  <1> QED
    BY <1>1, <1>2, LookupMissesIInv, ReserveIInv, DatabaseFailsIInv, PlaceRepliesIInv,
       PlaceRefusedIInv, PlaceRaisesIInv, ReconcileIInv
    DEF Progress, Failure

\* The end of a process drops its call and keeps what is stored.
LEMMA CrashIInv == ASSUME IInv, NEW w \in Workers, Crash(w) PROVE IInv'
  BY LeaveIInv DEF Crash

\* The invariant is inductive.
LEMMA NextIInv == IInv /\ [Next]_vars => IInv'
  <1> SUFFICES ASSUME IInv, [Next]_vars PROVE IInv'
    OBVIOUS
  <1>1. CASE UNCHANGED vars
    BY <1>1
    DEF vars, IInv, TypeOK, OneExecutionPerKey, OrdersAreReserved, AtMostOneOrderPerKey,
        HeldRecordIsTrue, StoredStatusIsTrue, Key, NewRecord
  <1>2. CASE Next
    BY <1>2, ReadStateIInv, ExecuteIInv, StepIInv, CrashIInv, BrokerMovesIInv, OperatorIInv DEF Next
  <1> QED
    BY <1>1, <1>2

\* Every reachable state satisfies the inductive invariant.
THEOREM InductiveInvariant == Spec => []IInv
  BY InitIInv, NextIInv, PTL DEF Spec

\* Every variable keeps its type.
THEOREM TypeCorrect == Spec => []TypeOK
  <1>1. IInv => TypeOK
    BY DEF IInv
  <1> QED
    BY <1>1, InductiveInvariant, PTL

\* However many workers call execute, crash and retry, and whatever answers are
\* lost, the broker creates at most one order for each idempotency key.
THEOREM OneOrderPerKey == Spec => []AtMostOneOrderPerKey
  <1>1. IInv => AtMostOneOrderPerKey
    BY DEF IInv
  <1> QED
    BY <1>1, InductiveInvariant, PTL

\* Two executions never hold the same key, and neither record is overwritten.
THEOREM NoConcurrentExecution == Spec => []OneExecutionPerKey
  <1>1. IInv => OneExecutionPerKey
    BY DEF IInv
  <1> QED
    BY <1>1, InductiveInvariant, PTL

\* A reconciled status in the store is the broker's own.
THEOREM StoreTellsTheTruth == Spec => []StoredStatusIsTrue
  <1>1. IInv => StoredStatusIsTrue
    BY DEF IInv
  <1> QED
    BY <1>1, InductiveInvariant, PTL

-----------------------------------------------------------------------------
(***************************************************************************)
(* Order execution implements IdempotentOrders.                            *)
(***************************************************************************)
Claims == [k \in Keys |-> ClaimOf(k)]

\* The initial states are those of the abstract specification.
LEMMA InitRefines == Init => Orders!Init
  BY DEF Init, Orders!Init, ClaimOf

\* A step that changes neither the store nor the orders is a stutter.
LEMMA NoClaimStutters == UNCHANGED <<store, posts>> => UNCHANGED Orders!vars
  BY DEF Orders!vars, ClaimOf

\* Storing a new record where there was none claims the key.
LEMMA ReservationClaims ==
  ASSUME TypeOK, NEW w \in Workers, NEW k \in Keys, store[k] = None,
         store' = [store EXCEPT ![k] = NewRecord(w)], UNCHANGED posts
  PROVE  Orders!Next
  <1>1. ClaimOf(k) = "free"
    BY DEF ClaimOf
  <1>2. Claims' = [Claims EXCEPT ![k] = "claimed"]
    BY NewRecordType, ExecutionAssumption DEF Claims, ClaimOf, TypeOK, NewRecord
  <1> QED
    BY <1>1, <1>2 DEF Orders!Next, Orders!Claim, Claims

\* place_order sends under the claim, or stutters if nothing was created.
LEMMA PlacingSends ==
  ASSUME IInv, NEW w \in Workers, pc[w] = "place", UNCHANGED store,
         UNCHANGED <<posts, book>> \/ BrokerCreates(Key(w))
  PROVE  Orders!Next \/ UNCHANGED Orders!vars
  <1>1. CASE UNCHANGED <<posts, book>>
    BY <1>1, NoClaimStutters
  <1>2. CASE BrokerCreates(Key(w))
    <2>0. /\ Key(w) \in Keys /\ posts[Key(w)] = 0 /\ store[Key(w)] = NewRecord(w)
      BY DEF IInv, TypeOK, HeldRecordIsTrue, OneExecutionPerKey, Holding
    <2>1. posts' = [posts EXCEPT ![Key(w)] = 1]
      BY <1>2, <2>0 DEF BrokerCreates
    <2>2. ClaimOf(Key(w)) = "claimed"
      BY <2>0, NewRecordType, ExecutionAssumption DEF ClaimOf, NewRecord
    <2>3. UNCHANGED Claims
      BY DEF Claims, ClaimOf
    <2> QED
      BY <2>0, <2>1, <2>2, <2>3 DEF Orders!Next, Orders!Send, Claims
  <1> QED
    BY <1>1, <1>2

\* The final upsert settles the claim.
LEMMA UpsertSettles ==
  ASSUME IInv, NEW w \in Workers, pc[w] \in {"mark_unknown", "save"},
         store' = [store EXCEPT ![Key(w)] = rec[w]], UNCHANGED posts
  PROVE  Orders!Next
  <1>1. /\ Key(w) \in Keys /\ store[Key(w)] = NewRecord(w) /\ rec[w] \in OrderRecord
        /\ rec[w].reconciliation_state \in {"BLOCKING_DUPLICATES", "RECONCILED"}
        /\ rec[w].reconciliation_state = "RECONCILED" => posts[Key(w)] = 1
    BY DEF IInv, TypeOK, HeldRecordIsTrue, OneExecutionPerKey, Holding
  <1>2. ClaimOf(Key(w)) = "claimed"
    BY <1>1, NewRecordType, ExecutionAssumption DEF ClaimOf, NewRecord
  <1> DEFINE verdict == IF rec[w].reconciliation_state = "RECONCILED"
                        THEN "reconciled" ELSE "blocking"
  <1>3. Claims' = [Claims EXCEPT ![Key(w)] = verdict]
    <2>1. \A k \in Keys : store'[k] = IF k = Key(w) THEN rec[w] ELSE store[k]
      BY <1>1 DEF IInv, TypeOK
    <2> QED
      BY <1>1, <2>1, ExecutionAssumption DEF Claims, ClaimOf
  <1> QED
    BY <1>1, <1>2, <1>3 DEF Orders!Next, Orders!Settle, Claims

\* Every step is one of the abstract specification, or leaves its state as it is.
LEMMA NextRefines == IInv /\ [Next]_vars => [Orders!Next]_(Orders!vars)
  <1> SUFFICES ASSUME IInv, [Next]_vars PROVE Orders!Next \/ UNCHANGED Orders!vars
    BY DEF Orders!vars
  <1>1. CASE UNCHANGED vars
    BY <1>1, NoClaimStutters DEF vars
  <1>2. ASSUME NEW w \in Workers, ReadState(w) \/ Execute(w) \/ Crash(w)
        PROVE  UNCHANGED Orders!vars
    BY <1>2, NoClaimStutters DEF ReadState, Execute, Crash
  <1>3. ASSUME NEW w \in Workers, Progress(w) \/ Failure(w)
        PROVE  Orders!Next \/ UNCHANGED Orders!vars
    <2>1. CASE \/ PreTradeRejects(w) \/ ReturnExisting(w) \/ ReserveLosesRace(w)
               \/ ReconcileRaises(w) \/ LookupMisses(w) \/ Reconcile(w)
      BY <2>1, NoClaimStutters
      DEF PreTradeRejects, ReturnExisting, ReserveLosesRace, ReconcileRaises,
          LookupMisses, Reconcile
    <2>2. CASE Reserve(w)
      BY <2>2, ReservationClaims DEF Reserve, GoTo, IInv, TypeOK
    <2>3. CASE DatabaseFails(w)
      <3>1. CASE UNCHANGED store
        BY <2>3, <3>1, NoClaimStutters DEF DatabaseFails
      <3>2. CASE /\ pc[w] = "reserve" /\ store[Key(w)] = None
                 /\ store' = [store EXCEPT ![Key(w)] = NewRecord(w)]
        BY <2>3, <3>2, ReservationClaims DEF DatabaseFails, IInv, TypeOK
      <3> QED
        BY <2>3, <3>1, <3>2 DEF DatabaseFails
    <2>4. CASE PlaceReplies(w) \/ PlaceRefused(w) \/ PlaceRaises(w)
      BY <2>4, PlacingSends DEF PlaceReplies, PlaceRefused, PlaceRaises, GoTo
    <2>5. CASE MarkUnknown(w) \/ Save(w)
      BY <2>5, UpsertSettles DEF MarkUnknown, Save
    <2> QED
      BY <1>3, <2>1, <2>2, <2>3, <2>4, <2>5 DEF Progress, Failure
  <1>4. CASE (\E k \in Keys : BrokerMoves(k)) \/ OperatorChangesState
    BY <1>4, NoClaimStutters DEF BrokerMoves, OperatorChangesState
  <1> QED
    BY <1>1, <1>2, <1>3, <1>4 DEF Next

\* A key is claimed once, an order sent at most once and under its claim, and the
\* claim settled once for good: the detailed execution keeps the abstract promise.
THEOREM Refinement == Spec => KeepsItsPromise
  BY InitRefines, NextRefines, InductiveInvariant, PTL DEF Spec, KeepsItsPromise, Orders!Spec

-----------------------------------------------------------------------------
\* No call passes validation with a snapshot that shows a thrown switch.
StopInv ==
  \A w \in Workers : pc[w] \in Holding \cup {"reserve"} => ~call[w].snapshot.kill_switch

\* That calls stop at such a snapshot is inductive.
LEMMA StopStep == TypeOK /\ StopInv /\ [Next]_vars => StopInv'
  <1> SUFFICES ASSUME TypeOK, StopInv, [Next]_vars PROVE StopInv'
    OBVIOUS
  <1>1. ASSUME NEW w \in Workers, ReadState(w) \/ Execute(w) PROVE StopInv'
    <2>1. /\ pc'[w] \in {"ready", "validate"}
          /\ \A v \in Workers : v # w => pc'[v] = pc[v] /\ call'[v] = call[v]
      BY <1>1 DEF ReadState, Execute, GoTo, TypeOK
    <2> QED
      BY <2>1 DEF StopInv, Holding
  <1>2. ASSUME NEW w \in Workers, LookupMisses(w) PROVE StopInv'
    BY <1>2 DEF LookupMisses, GoTo, PassesPreTrade, StopInv, Holding, TypeOK
  <1>3. ASSUME NEW w \in Workers, Leave(w) PROVE StopInv'
    BY <1>3 DEF Leave, StopInv, Holding, TypeOK
  <1>4. ASSUME NEW w \in Workers, UNCHANGED call, pc[w] \in Holding \cup {"reserve"},
               NEW next, pc' = [pc EXCEPT ![w] = next]
        PROVE  StopInv'
    BY <1>4 DEF StopInv, Holding, TypeOK
  <1>5. ASSUME NEW w \in Workers, Progress(w) \/ Failure(w) PROVE StopInv'
    <2>1. CASE \/ PreTradeRejects(w) \/ ReturnExisting(w) \/ ReserveLosesRace(w)
               \/ DatabaseFails(w) \/ MarkUnknown(w) \/ ReconcileRaises(w) \/ Save(w)
      BY <2>1, <1>3
      DEF PreTradeRejects, ReturnExisting, ReserveLosesRace, DatabaseFails, MarkUnknown,
          ReconcileRaises, Save
    <2>2. CASE \/ Reserve(w) \/ PlaceReplies(w) \/ PlaceRefused(w) \/ PlaceRaises(w)
               \/ Reconcile(w)
      BY <2>2, <1>4
      DEF Reserve, PlaceReplies, PlaceRefused, PlaceRaises, Reconcile, GoTo, Holding
    <2> QED
      BY <1>2, <1>5, <2>1, <2>2 DEF Progress, Failure
  <1>6. CASE UNCHANGED <<pc, call>>
    BY <1>6 DEF StopInv
  <1> QED
    BY <1>1, <1>3, <1>5, <1>6 DEF Next, Crash, BrokerMoves, OperatorChangesState, vars

\* A worker that neither reads the row nor moves past its order stays where it was
\* with what it had read, or is no longer among those that can still send one.
LEMMA NobodyJoins ==
  ASSUME TypeOK, NEW w \in Workers, sysState.kill_switch,
         ReadState(w) \/ Execute(w) \/ Progress(w) \/ Failure(w) \/ Crash(w)
  PROVE  Unstopped' \subseteq Unstopped
  <1>1. CASE ReadState(w)
    <2>1. PICK request \in Requests : \E snapshot \in SnapshotsFor(request) :
            call' = [call EXCEPT ![w] = [request |-> request, snapshot |-> snapshot,
                                         kill_at_call |-> FALSE]]
      BY <1>1 DEF ReadState
    <2>2. PICK snapshot \in SnapshotsFor(request) :
            call' = [call EXCEPT ![w] = [request |-> request, snapshot |-> snapshot,
                                         kill_at_call |-> FALSE]]
      BY <2>1
    <2>3. request.source = "database" => snapshot.kill_switch
      BY DEF SnapshotsFor
    <2>4. /\ call'[w].request = request /\ call'[w].snapshot = snapshot
          /\ \A v \in Workers : v # w => pc'[v] = pc[v] /\ call'[v] = call[v]
      BY <1>1, <2>2 DEF ReadState, TypeOK
    <2> QED
      BY <2>3, <2>4 DEF Unstopped
  <1>2. CASE Execute(w)
    <2>1. /\ pc[w] = "ready" /\ call[w] \in Call
          /\ call' = [call EXCEPT ![w].kill_at_call = sysState.kill_switch]
          /\ pc' = [pc EXCEPT ![w] = "validate"]
      BY <1>2 DEF Execute, GoTo, TypeOK
    <2>2. /\ call'[w].request = call[w].request /\ call'[w].snapshot = call[w].snapshot
          /\ \A v \in Workers : v # w => pc'[v] = pc[v] /\ call'[v] = call[v]
      BY <2>1 DEF Call, TypeOK
    <2> QED
      BY <2>1, <2>2 DEF Unstopped
  <1>3. ASSUME Leave(w) PROVE Unstopped' \subseteq Unstopped
    BY <1>3 DEF Leave, Unstopped, TypeOK
  <1>4. ASSUME UNCHANGED call, pc[w] \in {"validate", "reserve"} \cup Holding,
               NEW next \in {"reserve"} \cup Holding, pc' = [pc EXCEPT ![w] = next],
               next \in {"reserve", "place"} => pc[w] \in {"validate", "reserve"}
        PROVE  Unstopped' \subseteq Unstopped
    BY <1>4 DEF Unstopped, Holding, TypeOK
  <1>5. CASE \/ PreTradeRejects(w) \/ ReturnExisting(w) \/ ReserveLosesRace(w)
             \/ DatabaseFails(w) \/ MarkUnknown(w) \/ ReconcileRaises(w) \/ Save(w)
             \/ Crash(w)
    BY <1>5, <1>3
    DEF PreTradeRejects, ReturnExisting, ReserveLosesRace, DatabaseFails, MarkUnknown,
        ReconcileRaises, Save, Crash
  <1>6. CASE \/ LookupMisses(w) \/ Reserve(w) \/ PlaceReplies(w) \/ PlaceRefused(w)
             \/ PlaceRaises(w) \/ Reconcile(w)
    BY <1>6, <1>4
    DEF LookupMisses, Reserve, PlaceReplies, PlaceRefused, PlaceRaises, Reconcile, GoTo,
        Holding
  <1> QED
    BY <1>1, <1>2, <1>5, <1>6 DEF Progress, Failure

\* Only a caller that is about to send an order sends one, and it sends one.
LEMMA SenderWasUnstopped ==
  ASSUME TypeOK, StopInv, Next, posts' # posts
  PROVE  \E w \in Workers : /\ pc[w] = "place" /\ pc'[w] # "place"
                            /\ call[w].request.source = "database" =>
                                 w \in Unstopped \ Unstopped'
  <1>1. PICK w \in Workers : PlaceReplies(w) \/ PlaceRefused(w) \/ PlaceRaises(w)
    BY DEF Next, Progress, Failure, ReadState, Execute, PreTradeRejects, ReturnExisting,
           LookupMisses, Reserve, ReserveLosesRace, MarkUnknown, Reconcile, Save,
           DatabaseFails, ReconcileRaises, Crash, BrokerMoves, OperatorChangesState
  <1>2. pc[w] = "place" /\ pc'[w] \in {"reconcile", "mark_unknown"}
    BY <1>1 DEF PlaceReplies, PlaceRefused, PlaceRaises, GoTo, TypeOK
  <1>3. ~call[w].snapshot.kill_switch
    BY <1>2 DEF StopInv, Holding
  <1> QED
    BY <1>2, <1>3 DEF Unstopped

\* A stop holds for every caller that reads the row after it, and lets each of those
\* that had read it before send at most one order, however many callers there are.
THEOREM StopsDrain == Spec => StopDrains
  <1> DEFINE Step ==
        sysState.kill_switch /\ sysState'.kill_switch =>
          /\ Unstopped' \subseteq Unstopped
          /\ posts' # posts =>
               \E w \in Workers : /\ pc[w] = "place" /\ pc'[w] # "place"
                                  /\ call[w].request.source = "database" =>
                                       w \in Unstopped \ Unstopped'
  <1>1. TypeOK /\ StopInv /\ [Next]_vars => [Step]_vars
    <2> SUFFICES ASSUME TypeOK, StopInv, Next, sysState.kill_switch
                 PROVE  /\ Unstopped' \subseteq Unstopped
                        /\ posts' # posts =>
                             \E w \in Workers : /\ pc[w] = "place" /\ pc'[w] # "place"
                                                /\ call[w].request.source = "database" =>
                                                     w \in Unstopped \ Unstopped'
      OBVIOUS
    <2>1. CASE (\E k \in Keys : BrokerMoves(k)) \/ OperatorChangesState
      BY <2>1 DEF BrokerMoves, OperatorChangesState, Unstopped
    <2>2. CASE \E w \in Workers : ReadState(w) \/ Execute(w) \/ Progress(w) \/ Failure(w)
                                  \/ Crash(w)
      BY <2>2, NobodyJoins, SenderWasUnstopped
    <2> QED
      BY <2>1, <2>2 DEF Next
  <1>2. Init => StopInv
    BY DEF Init, StopInv, Holding
  <1>3. Spec => [][Step]_vars
    BY <1>1, <1>2, StopStep, TypeCorrect, PTL DEF Spec
  <1> QED
    BY <1>3 DEF StopDrains
=============================================================================
