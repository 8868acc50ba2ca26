--------------------------- MODULE OrderExecution ---------------------------
(***************************************************************************)
(* The live order path: ExecutionAgent.execute, the durable idempotency    *)
(* store, the broker adapters and OrderReconciler.  Workers are the        *)
(* threads and processes that call execute concurrently; one action is one *)
(* database transaction or one broker request, with the local computation  *)
(* that follows it.  A worker may crash between any two of them.           *)
(***************************************************************************)
EXTENDS Naturals

CONSTANTS
  Workers,    \* callers of ExecutionAgent.execute
  Keys,       \* idempotency keys
  Requests,   \* the arguments execute is called with
  Settings,   \* the process's environment settings
  Faults,     \* what may go wrong: a subset of {"crash", "database", "broker"}
  None        \* Python's None: no row, no broker order id, no key

VARIABLES
  sysState,   \* the persisted system_state row
  pc,         \* pc[w]: the next step of worker w
  call,       \* call[w]: the arguments and snapshot w works with
  rec,        \* rec[w]: the OrderRecord in w's memory
  store,      \* store[k]: the row of order_idempotency_keys and its order row
  posts,      \* posts[k]: orders the broker created for key k
  book        \* book[k]: the broker's own state of that order

vars == <<sysState, pc, call, rec, store, posts, book>>

-----------------------------------------------------------------------------
Markets == {"INDIA", "US"}

OrderStatus ==
  {"CREATED", "SUBMITTED", "ACCEPTED", "PARTIALLY_FILLED", "FILLED",
   "CANCELLED", "REJECTED", "UNKNOWN_REQUIRES_RECONCILIATION"}

Unknown == "UNKNOWN_REQUIRES_RECONCILIATION"

ReconciliationState == {"REQUIRED", "RECONCILED", "BLOCKING_DUPLICATES"}

\* The fields of OrderRecord that control depends on; "by" identifies the
\* execution that made the record (its id).
OrderRecord ==
  [by: Workers, status: OrderStatus, reconciliation_state: ReconciliationState,
   broker_order_id: Keys \cup {None}]

SystemStateSnapshot == [live_mode: BOOLEAN, live_trading: BOOLEAN, kill_switch: BOOLEAN]

\* What one call of execute is given.  "source" says where system_state comes
\* from; "linked" that intent.risk_decision_id names the decision passed along;
\* "routable" that the adapter handles the intent's broker, market and type.
Request ==
  [key: Keys \cup {None}, market: Markets, source: {"database", "settings"},
   linked: BOOLEAN,
   decision: {"APPROVED", "REDUCE_SIZE", "REJECTED", "NO_TRADE"},
   health_market: Markets, healthy: BOOLEAN,
   compliance: {"none", "not_approved", "approved"}, compliance_market: Markets,
   routable: BOOLEAN]

Call ==
  [request: Request, snapshot: SystemStateSnapshot, kill_at_call: BOOLEAN]

\* The broker's view of an order; "none" until it creates one.  Everything the
\* adapters' maps do not name ("pending", "expired") counts as unknown.
BookState ==
  {"none", "pending", "open", "partially_filled", "filled", "cancelled",
   "rejected", "expired"}

FinalBookState == {"filled", "cancelled", "rejected", "expired"}

ASSUME ExecutionAssumption ==
  /\ Requests \subseteq Request
  /\ Settings \in [live_mode: BOOLEAN, live_trading: BOOLEAN,
                   kill_switch: BOOLEAN, live_orders: BOOLEAN]
  /\ None \notin Keys
  /\ None \notin OrderRecord
  /\ None \notin Call

-----------------------------------------------------------------------------
\* Mutant: the kill switch guard is dropped.
PassesPreTradeIgnoringStop(request, snapshot) ==
  /\ request.linked
  /\ request.decision \in {"APPROVED", "REDUCE_SIZE"}
  /\ snapshot.live_mode
  /\ snapshot.live_trading
  /\ Settings.live_orders
  /\ request.health_market = request.market
  /\ request.healthy
  /\ request.market = "INDIA" => /\ request.compliance = "approved"
                                 /\ request.compliance_market = "INDIA"
  /\ request.key # None

\* _validate_pre_trade: every guard that must hold before the store is read.
PassesPreTrade(request, snapshot) ==
  /\ request.linked
  /\ request.decision \in {"APPROVED", "REDUCE_SIZE"}
  /\ snapshot.live_mode
  /\ snapshot.live_trading
  /\ Settings.live_orders
  /\ ~snapshot.kill_switch
  /\ request.health_market = request.market
  /\ request.healthy
  /\ request.market = "INDIA" => /\ request.compliance = "approved"
                                 /\ request.compliance_market = "INDIA"
  /\ request.key # None

\* ZerodhaBroker.reconcile_order: the status it reads from the order book.
ZerodhaStatus(state) ==
  CASE state \in {"open", "partially_filled"} -> "ACCEPTED"
    [] state = "filled" -> "FILLED"
    [] state = "cancelled" -> "CANCELLED"
    [] state = "rejected" -> "REJECTED"
    [] OTHER -> Unknown

\* AlpacaBroker.reconcile_order.
AlpacaStatus(state) ==
  CASE state = "open" -> "ACCEPTED"
    [] state = "partially_filled" -> "PARTIALLY_FILLED"
    [] state = "filled" -> "FILLED"
    [] state = "cancelled" -> "CANCELLED"
    [] state = "rejected" -> "REJECTED"
    [] OTHER -> Unknown

\* OrderReconciler.reconcile: without a broker order id nothing can be asked.
Reconciled(record, market, state) ==
  IF record.broker_order_id = None THEN Unknown
  ELSE IF market = "INDIA" THEN ZerodhaStatus(state) ELSE AlpacaStatus(state)

\* Mutant: a refusal by place_order is taken for final.
WithReconciliationOrRefusal(record, status) ==
  [record EXCEPT
     !.status = IF @ = "REJECTED" THEN @ ELSE status,
     !.reconciliation_state =
        IF status = Unknown /\ record.status # "REJECTED"
        THEN "BLOCKING_DUPLICATES" ELSE "RECONCILED"]

\* The record as execute completes it from a reconciliation.
WithReconciliation(record, status) ==
  [record EXCEPT
     !.status = status,
     !.reconciliation_state =
        IF status = Unknown THEN "BLOCKING_DUPLICATES" ELSE "RECONCILED"]

\* Mutant: a new record needs no reconciliation.
NewRecordNotRequired(w) ==
  [by |-> w, status |-> "CREATED", reconciliation_state |-> "NOT_REQUIRED",
   broker_order_id |-> None]

\* OrderRecord(intent=intent), as reserved.
NewRecord(w) ==
  [by |-> w, status |-> "CREATED", reconciliation_state |-> "REQUIRED",
   broker_order_id |-> None]

Key(w) == call[w].request.key

\* execute leaves its frame, by return or by an exception, or its process dies.
Leave(w) ==
  /\ pc' = [pc EXCEPT ![w] = "idle"]
  /\ call' = [call EXCEPT ![w] = None]
  /\ rec' = [rec EXCEPT ![w] = None]

GoTo(w, from, to) ==
  /\ pc[w] = from
  /\ pc' = [pc EXCEPT ![w] = to]

-----------------------------------------------------------------------------
Init ==
  /\ sysState \in SystemStateSnapshot
  /\ pc = [w \in Workers |-> "idle"]
  /\ call = [w \in Workers |-> None]
  /\ rec = [w \in Workers |-> None]
  /\ store = [k \in Keys |-> None]
  /\ posts = [k \in Keys |-> 0]
  /\ book = [k \in Keys |-> "none"]

\* What a caller can read: the row, or the closed snapshot that stands in for an
\* unreachable database; or nothing, and execute takes the environment's, which do
\* not change while the process runs.
SnapshotsFor(request) ==
  IF request.source = "settings"
  THEN {[live_mode |-> Settings.live_mode, live_trading |-> Settings.live_trading,
         kill_switch |-> Settings.kill_switch]}
  ELSE {sysState}
       \cup (IF "database" \in Faults
             THEN {[live_mode |-> Settings.live_mode, live_trading |-> FALSE,
                    kill_switch |-> TRUE]}
             ELSE {})

\* A caller of execute prepares the call: it reads the system state that it passes
\* as an argument.  It may read it again before it calls.
ReadState(w) ==
  /\ pc[w] \in {"idle", "ready"}
  /\ pc' = [pc EXCEPT ![w] = "ready"]
  /\ \E request \in Requests : \E snapshot \in SnapshotsFor(request) :
       call' = [call EXCEPT ![w] = [request |-> request, snapshot |-> snapshot,
                                    kill_at_call |-> FALSE]]
  /\ UNCHANGED <<sysState, rec, store, posts, book>>

\* execute takes over what it was given, at any time after it was read: the snapshot
\* may be of any age.
Execute(w) ==
  /\ GoTo(w, "ready", "validate")
  /\ call' = [call EXCEPT ![w].kill_at_call = sysState.kill_switch]
  /\ UNCHANGED <<sysState, rec, store, posts, book>>

\* A guard fails: RiskRejectedError.
PreTradeRejects(w) ==
  /\ pc[w] = "validate"
  /\ ~PassesPreTrade(call[w].request, call[w].snapshot)
  /\ Leave(w)
  /\ UNCHANGED <<sysState, store, posts, book>>

\* store.get finds the key, in whatever state, and execute returns it.
ReturnExisting(w) ==
  /\ pc[w] = "validate"
  /\ PassesPreTrade(call[w].request, call[w].snapshot)
  /\ store[Key(w)] # None
  /\ Leave(w)
  /\ UNCHANGED <<sysState, store, posts, book>>

LookupMisses(w) ==
  /\ GoTo(w, "validate", "reserve")
  /\ PassesPreTrade(call[w].request, call[w].snapshot)
  /\ store[Key(w)] = None
  /\ UNCHANGED <<sysState, call, rec, store, posts, book>>

\* Mutant: reserve overwrites the row instead of inserting it.
ReserveOverwrites(w) ==
  /\ GoTo(w, "reserve", "place")
  /\ rec' = [rec EXCEPT ![w] = NewRecord(w)]
  /\ store' = [store EXCEPT ![Key(w)] = NewRecord(w)]
  /\ UNCHANGED <<sysState, call, posts, book>>

\* reserve commits both rows and the 30-second permit is issued.
Reserve(w) ==
  /\ GoTo(w, "reserve", "place")
  /\ store[Key(w)] = None
  /\ rec' = [rec EXCEPT ![w] = NewRecord(w)]
  /\ store' = [store EXCEPT ![Key(w)] = NewRecord(w)]
  /\ UNCHANGED <<sysState, call, posts, book>>

\* The unique constraint refuses the key: OrderIdempotencyError.
ReserveLosesRace(w) ==
  /\ pc[w] = "reserve"
  /\ store[Key(w)] # None
  /\ Leave(w)
  /\ UNCHANGED <<sysState, store, posts, book>>

\* The database fails during get, reserve or upsert: the exception leaves
\* execute.  A transaction whose commit was acknowledged too late stays done.
DatabaseFails(w) ==
  /\ "database" \in Faults
  /\ \/ /\ pc[w] \in {"validate", "reserve", "mark_unknown", "save"}
        /\ pc[w] = "validate" => PassesPreTrade(call[w].request, call[w].snapshot)
        /\ UNCHANGED store
     \/ /\ pc[w] = "reserve"
        /\ store[Key(w)] = None
        /\ store' = [store EXCEPT ![Key(w)] = NewRecord(w)]
  /\ Leave(w)
  /\ UNCHANGED <<sysState, posts, book>>

-----------------------------------------------------------------------------
BrokerCreates(k) ==
  /\ posts' = [posts EXCEPT ![k] = @ + 1]
  /\ book' = [book EXCEPT ![k] = "pending"]

\* place_order below status 400: the order exists, its id may be missing.
PlaceReplies(w) ==
  /\ GoTo(w, "place", "reconcile")
  /\ call[w].request.routable
  /\ BrokerCreates(Key(w))
  /\ \E id \in {Key(w), None} :
       rec' = [rec EXCEPT ![w].broker_order_id = id,
                          ![w].status = IF id = None THEN Unknown ELSE "SUBMITTED"]
  /\ UNCHANGED <<sysState, call, store>>

\* place_order at status 400 and above, reported as REJECTED without an id.  A
\* gateway error of the broker may hide an order that it did create.
PlaceRefused(w) ==
  /\ GoTo(w, "place", "reconcile")
  /\ call[w].request.routable
  /\ rec' = [rec EXCEPT ![w].status = "REJECTED"]
  /\ \/ UNCHANGED <<posts, book>>
     \/ "broker" \in Faults /\ BrokerCreates(Key(w))
  /\ UNCHANGED <<sysState, call, store>>

\* place_order raises: a permit that expired or an intent the adapter does not
\* handle (nothing sent), a lost request (nothing created), a lost or unreadable
\* answer (created).
PlaceRaises(w) ==
  /\ GoTo(w, "place", "mark_unknown")
  /\ rec' = [rec EXCEPT ![w].status = Unknown,
                        ![w].reconciliation_state = "BLOCKING_DUPLICATES"]
  /\ \/ UNCHANGED <<posts, book>>
     \/ /\ "broker" \in Faults
        /\ call[w].request.routable
        /\ BrokerCreates(Key(w))
  /\ UNCHANGED <<sysState, call, store>>

\* Mutant: the handler releases the key so that the caller can retry.
MarkUnknownReleases(w) ==
  /\ pc[w] = "mark_unknown"
  /\ store' = [store EXCEPT ![Key(w)] = None]
  /\ Leave(w)
  /\ UNCHANGED <<sysState, posts, book>>

\* The handler of that exception stores the record and raises again.
MarkUnknown(w) ==
  /\ pc[w] = "mark_unknown"
  /\ store' = [store EXCEPT ![Key(w)] = rec[w]]
  /\ Leave(w)
  /\ UNCHANGED <<sysState, posts, book>>

Reconcile(w) ==
  /\ GoTo(w, "reconcile", "save")
  /\ rec' = [rec EXCEPT ![w] =
               WithReconciliation(@, Reconciled(@, call[w].request.market, book[Key(w)]))]
  /\ UNCHANGED <<sysState, call, store, posts, book>>

\* The adapter raises (order not listed yet, request failed): no handler here,
\* so the exception leaves execute and the store keeps the reserved record.
ReconcileRaises(w) ==
  /\ "broker" \in Faults
  /\ pc[w] = "reconcile"
  /\ rec[w].broker_order_id # None
  /\ Leave(w)
  /\ UNCHANGED <<sysState, store, posts, book>>

Save(w) ==
  /\ pc[w] = "save"
  /\ store' = [store EXCEPT ![Key(w)] = rec[w]]
  /\ Leave(w)
  /\ UNCHANGED <<sysState, posts, book>>

-----------------------------------------------------------------------------
Crash(w) ==
  /\ "crash" \in Faults
  /\ pc[w] # "idle"
  /\ Leave(w)
  /\ UNCHANGED <<sysState, store, posts, book>>

\* An order's life at the broker, which no code here can see but by asking.
BrokerMoves(k) ==
  /\ \/ book[k] = "pending" /\ book' = [book EXCEPT ![k] = "open"]
     \/ /\ book[k] \in {"pending", "open", "partially_filled"}
        /\ \E final \in FinalBookState : book' = [book EXCEPT ![k] = final]
     \/ book[k] = "open" /\ book' = [book EXCEPT ![k] = "partially_filled"]
  /\ UNCHANGED <<sysState, pc, call, rec, store, posts>>

\* An operator changes the mode or the kill switch of the system_state row;
\* live_trading_enabled is set when the row is created and never again.
OperatorChangesState ==
  /\ \E mode, kill \in BOOLEAN :
       sysState' = [sysState EXCEPT !.live_mode = mode, !.kill_switch = kill]
  /\ UNCHANGED <<pc, call, rec, store, posts, book>>

\* What execute does by itself once it is called and nothing fails around it.
Progress(w) ==
  \/ PreTradeRejects(w)
  \/ ReturnExisting(w)
  \/ LookupMisses(w)
  \/ Reserve(w)
  \/ ReserveLosesRace(w)
  \/ PlaceReplies(w)
  \/ PlaceRefused(w)
  \/ PlaceRaises(w)
  \/ MarkUnknown(w)
  \/ Reconcile(w)
  \/ Save(w)

Failure(w) ==
  \/ DatabaseFails(w)
  \/ ReconcileRaises(w)

Next ==
  \/ \E w \in Workers : ReadState(w) \/ Execute(w) \/ Progress(w) \/ Failure(w) \/ Crash(w)
  \/ \E k \in Keys : BrokerMoves(k)
  \/ OperatorChangesState

Spec == Init /\ [][Next]_vars

-----------------------------------------------------------------------------
(***************************************************************************)
(* What makes it correct.                                                  *)
(***************************************************************************)
\* The steps of a worker that has reserved its key and has not left execute.
Holding == {"place", "mark_unknown", "reconcile", "save"}

Settled(k) == store[k] # None /\ store[k].reconciliation_state # "REQUIRED"

\* Every variable stays in its type: a stored or held record is a well-formed
\* OrderRecord, and a worker past reserve holds both its call and its record.
TypeOK ==
  /\ sysState \in SystemStateSnapshot
  /\ pc \in [Workers -> {"idle", "ready", "validate", "reserve"} \cup Holding]
  /\ call \in [Workers -> Call \cup {None}]
  /\ rec \in [Workers -> OrderRecord \cup {None}]
  /\ store \in [Keys -> OrderRecord \cup {None}]
  /\ posts \in [Keys -> Nat]
  /\ book \in [Keys -> BookState]
  /\ \A w \in Workers : /\ pc[w] # "idle" => call[w] \in Call
                        /\ pc[w] \in Holding => rec[w] \in OrderRecord
                        /\ pc[w] \in Holding \cup {"reserve"} => Key(w) \in Keys

\* The broker creates at most one order per idempotency key, whatever the
\* interleaving of callers, their crashes and retries, and lost answers
\* (execute's get, reserve and place_order, order_manager.py:38-47).
AtMostOneOrderPerKey == \A k \in Keys : posts[k] <= 1

\* Two executions never work on one key at a time, and the one that does made
\* the stored record, which stays as reserved until it is done: neither can
\* overwrite what the other learned (upsert replaces the row unconditionally).
OneExecutionPerKey ==
  \A w \in Workers : pc[w] \in Holding =>
    /\ store[Key(w)] = NewRecord(w)
    /\ \A v \in Workers : pc[v] \in Holding /\ Key(v) = Key(w) => v = w

\* The store never claims an outcome the broker does not know: a RECONCILED
\* FILLED, CANCELLED or REJECTED is the order's final state at the broker, and
\* ACCEPTED or PARTIALLY_FILLED is said only of an order that exists.
TrueOf(status, state) ==
  CASE status = "FILLED" -> state = "filled"
    [] status = "CANCELLED" -> state = "cancelled"
    [] status = "REJECTED" -> state = "rejected"
    [] OTHER -> status \in {"ACCEPTED", "PARTIALLY_FILLED"} /\ state # "none"

StoredStatusIsTrue ==
  \A k \in Keys :
    store[k] # None => (store[k].reconciliation_state = "RECONCILED" =>
                          posts[k] = 1 /\ TrueOf(store[k].status, book[k]))

\* The callers that read an open switch from the row and have not sent their order.
Unstopped ==
  {w \in Workers : /\ pc[w] \in {"ready", "validate", "reserve", "place"}
                   /\ call[w].request.source = "database"
                   /\ ~call[w].snapshot.kill_switch}

\* A thrown switch drains the orders of the callers that read the row: while it stays
\* thrown no caller joins those that had read it open before, however long ago, and
\* each of them sends at most the one order it was about to (order_manager.py:33-36
\* looks at the snapshot it is given, never at the row).
StopDrains ==
  [][sysState.kill_switch /\ sysState'.kill_switch =>
       /\ Unstopped' \subseteq Unstopped
       /\ posts' # posts =>
            \E w \in Workers : /\ pc[w] = "place" /\ pc'[w] # "place"
                               /\ call[w].request.source = "database" =>
                                    w \in Unstopped \ Unstopped']_vars

\* Order execution implements the promise of IdempotentOrders: the stored
\* reconciliation state is the claim, and what the broker created is the sending.
ClaimOf(k) ==
  IF store[k] = None THEN "free"
  ELSE CASE store[k].reconciliation_state = "REQUIRED" -> "claimed"
         [] store[k].reconciliation_state = "BLOCKING_DUPLICATES" -> "blocking"
         [] OTHER -> "reconciled"

Orders == INSTANCE IdempotentOrders WITH
  claim <- [k \in Keys |-> ClaimOf(k)],
  sent <- posts

KeepsItsPromise == Orders!Spec

-----------------------------------------------------------------------------
(***************************************************************************)
(* What the documents say and the code does not do.                        *)
(***************************************************************************)
\* README.md:122, "The kill switch blocks live entry orders": no execution
\* reaches place_order if the persisted switch was on when execute was called.
KillSwitchBlocksOrders == \A w \in Workers : pc[w] = "place" => ~call[w].kill_at_call

\* docs/broker_setup.md:11, "Unknown order status requires reconciliation and
\* blocks duplicate placement": an order that exists at the broker, and that no
\* running execution is still handling, is either reconciled or marked unknown.
UnknownOrdersAreMarked ==
  \A k \in Keys :
    posts[k] > 0 /\ (\A w \in Workers : pc[w] \in Holding => Key(w) # k) => Settled(k)
=============================================================================
