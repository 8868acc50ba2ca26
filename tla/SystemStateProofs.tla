-------------------------- MODULE SystemStateProofs --------------------------
(***************************************************************************)
(* Proofs about SystemState, for any number of sessions, any modes and any *)
(* environments of their processes.                                        *)
(***************************************************************************)
EXTENDS SystemState, TLAPS

\* set_mode asked for a live-capable mode only past its gate.
GateHeld ==
  \A s \in Sessions : pc[s] # "idle" =>
    (op[s].kind = "set_mode" =>
       (op[s].mode \in LiveModes => SafetyFlagsSatisfied(Environment[s])))

\* A row that is about to be inserted is the environment's.
FreshRow == \A s \in Sessions : pc[s] = "commit_new" => seen[s] = InitialRow(s)

IInv == TypeOK /\ OneRow /\ GateHeld /\ FreshRow

-----------------------------------------------------------------------------
\* The row made of the environment is a row.
LEMMA InitialRowType == ASSUME NEW s \in Sessions PROVE InitialRow(s) \in Row
  BY SystemStateAssumption DEF InitialRow, Row, Settings

\* What a call answers about a row is a snapshot.
LEMMA SnapshotType == ASSUME NEW r \in Row PROVE Snapshot(r) \in SystemStateSnapshot
  BY DEF Snapshot, Row, SystemStateSnapshot

\* The operations are the four of the service; only one has a mode.
LEMMA OperationKinds ==
  ASSUME NEW o \in Operation
  PROVE  /\ o.kind \in {"get_state", "enable_kill_switch", "disable_kill_switch", "set_mode"}
         /\ o.kind = "set_mode" => o.mode \in Modes
  BY DEF Operation

\* What an operation does to the object in memory, field by field.
LEMMA MutatedFields ==
  ASSUME NEW r \in Row, NEW o \in Operation
  PROVE  /\ Mutated(r, o) \in Row
         /\ Mutated(r, o).live_trading = r.live_trading
         /\ o.kind # "set_mode" => Mutated(r, o).mode = r.mode
         /\ o.kind = "set_mode" => Mutated(r, o).mode = o.mode
         /\ o.kind \in {"get_state", "set_mode"} => Mutated(r, o).kill_switch = r.kill_switch
         /\ o.kind = "enable_kill_switch" => Mutated(r, o).kill_switch = TRUE
         /\ o.kind = "disable_kill_switch" => Mutated(r, o).kill_switch = FALSE
  <1>1. o.kind = "set_mode" => o.mode \in Modes
    BY OperationKinds
  <1>2. Mutated(r, o).kill_switch \in BOOLEAN
    BY DEF Mutated
  <1> QED
    BY <1>1, <1>2, OperationKinds DEF Mutated, Row

\* The UPDATE yields a row, whose columns are those of the object where the
\* session changed them and those of the stored row elsewhere.
LEMMA WriteFields ==
  ASSUME NEW current \in Row, NEW before \in Row, NEW after \in Row
  PROVE  /\ Write(current, before, after) \in Row
         /\ Write(current, before, after).mode =
              IF after.mode # before.mode THEN after.mode ELSE current.mode
         /\ Write(current, before, after).live_trading =
              IF after.live_trading # before.live_trading
              THEN after.live_trading ELSE current.live_trading
         /\ Write(current, before, after).kill_switch =
              IF after.kill_switch # before.kill_switch
              THEN after.kill_switch ELSE current.kill_switch
  BY DEF Write, Row

-----------------------------------------------------------------------------
\* A call that ends leaves every other session's claims in place.
LEMMA AnswerIInv ==
  ASSUME IInv, NEW s \in Sessions, pc[s] # "idle",
         NEW a \in SystemStateSnapshot \cup {None, RiskRejectedError}, Answer(s, a),
         row' \in Row \/ row' = row, row' # None => (row = None => pc[s] = "commit_new")
  PROVE  IInv'
  <1>1. TypeOK'
    BY DEF Answer, IInv, TypeOK
  <1>2. /\ \A t \in Sessions : pc'[t] # "idle" =>
             t # s /\ pc[t] = pc'[t] /\ op[t] = op'[t] /\ seen[t] = seen'[t]
    BY DEF Answer, IInv, TypeOK
  <1>3. OneRow'
    BY <1>2 DEF IInv, OneRow
  <1>4. GateHeld' /\ FreshRow'
    BY <1>2 DEF IInv, GateHeld, FreshRow
  <1> QED
    BY <1>1, <1>3, <1>4 DEF IInv

\* What a call answers when the database fails is a snapshot, nothing or an error.
LEMMA FailureType ==
  ASSUME NEW s \in Sessions
  PROVE  Failure(s) \in SystemStateSnapshot \cup {None, RiskRejectedError}
  BY SystemStateAssumption DEF Failure, ClosedSnapshot, SystemStateSnapshot, Settings

\* What a commit stores is a row.
LEMMA CommittedType ==
  ASSUME IInv, NEW s \in Sessions, Committed(s)
  PROVE  /\ row' \in Row
         /\ Mutated(seen[s], op[s]) \in Row
         /\ pc[s] # "idle"
         /\ row = None => pc[s] = "commit_new"
  <1>1. /\ seen[s] \in Row /\ op[s] \in Operation /\ pc[s] # "idle"
        /\ pc[s] = "commit" => row \in Row
    BY DEF Committed, IInv, TypeOK
  <1>2. Mutated(seen[s], op[s]) \in Row
    BY <1>1, MutatedFields
  <1>3. CASE pc[s] = "commit_new"
    BY <1>1, <1>2, <1>3 DEF Committed
  <1>4. CASE pc[s] = "commit"
    BY <1>1, <1>2, <1>4, WriteFields, SystemStateAssumption DEF Committed
  <1> QED
    BY <1>1, <1>2, <1>3, <1>4 DEF Committed

\* The invariant is inductive: one case per action of a session.
LEMMA NextIInv == IInv /\ [Next]_vars => IInv'
  <1> SUFFICES ASSUME IInv, [Next]_vars PROVE IInv'
    OBVIOUS
  <1>1. ASSUME NEW s \in Sessions, Call(s) PROVE IInv'
    <2>1. PICK o \in Operation :
            /\ o.kind = "set_mode" =>
                 (o.mode \in LiveModes => SafetyFlagsSatisfied(Environment[s]))
            /\ pc' = [pc EXCEPT ![s] = "select"]
            /\ op' = [op EXCEPT ![s] = o]
            /\ answer' = [answer EXCEPT ![s] = None]
            /\ UNCHANGED <<row, seen>>
      BY <1>1 DEF Call
    <2> QED
      BY <2>1 DEF IInv, TypeOK, OneRow, GateHeld, FreshRow
  <1>2. ASSUME NEW s \in Sessions, SetModeRefused(s) PROVE IInv'
    BY <1>2 DEF SetModeRefused, IInv, TypeOK, OneRow, GateHeld, FreshRow
  <1>3. ASSUME NEW s \in Sessions, Select(s) PROVE IInv'
    BY <1>3, SystemStateAssumption DEF Select, IInv, TypeOK, OneRow, GateHeld, FreshRow
  <1>4. ASSUME NEW s \in Sessions, SelectFindsNothing(s) PROVE IInv'
    BY <1>4 DEF SelectFindsNothing, IInv, TypeOK, OneRow, GateHeld, FreshRow
  <1>5. ASSUME NEW s \in Sessions, Insert(s) PROVE IInv'
    BY <1>5, InitialRowType DEF Insert, IInv, TypeOK, OneRow, GateHeld, FreshRow
  <1>6. ASSUME NEW s \in Sessions, InsertLosesRace(s) PROVE IInv'
    BY <1>6, AnswerIInv, FailureType DEF InsertLosesRace
  <1>7. ASSUME NEW s \in Sessions, Commit(s) PROVE IInv'
    BY <1>7, AnswerIInv, CommittedType, SnapshotType DEF Commit
  <1>8. ASSUME NEW s \in Sessions, DatabaseFails(s) PROVE IInv'
    BY <1>8, AnswerIInv, CommittedType, FailureType DEF DatabaseFails
  <1>9. CASE UNCHANGED vars
    BY <1>9 DEF vars, IInv, TypeOK, OneRow, GateHeld, FreshRow
  <1> QED
    BY <1>1, <1>2, <1>3, <1>4, <1>5, <1>6, <1>7, <1>8, <1>9 DEF Next, Progress

\* Initially there is no row and no call.
LEMMA InitIInv == Init => IInv
  BY DEF Init, IInv, TypeOK, OneRow, GateHeld, FreshRow

\* Every reachable state satisfies the inductive invariant.
THEOREM InductiveInvariant == Spec => []IInv
  BY InitIInv, NextIInv, PTL DEF Spec

\* Every variable keeps its type.
THEOREM TypeCorrect == Spec => []TypeOK
  <1>1. IInv => TypeOK
    BY DEF IInv
  <1> QED
    BY <1>1, InductiveInvariant, PTL

\* However many sessions find no row at the same time, one row is created.
THEOREM RowIsCreatedOnce == Spec => []OneRow
  <1>1. IInv => OneRow
    BY DEF IInv
  <1> QED
    BY <1>1, InductiveInvariant, PTL

-----------------------------------------------------------------------------
\* The row changes only in a commit.
LEMMA RowChanges ==
  ASSUME IInv, [Next]_vars, row' # row
  PROVE  \E s \in Sessions : /\ Committed(s)
                             /\ pc'[s] = "idle"
  <1>1. PICK s \in Sessions : Commit(s) \/ DatabaseFails(s)
    BY DEF Next, Progress, Call, SetModeRefused, Select, SelectFindsNothing, Insert,
           InsertLosesRace, vars
  <1> QED
    BY <1>1 DEF Commit, DatabaseFails, Answer, IInv, TypeOK

\* Commit by commit: what an operation writes on a row that may have changed
\* since it was read.
LEMMA CommitWrites ==
  ASSUME IInv, NEW s \in Sessions, Committed(s), row # None
  PROVE  /\ row' # None
         /\ row'.live_trading = row.live_trading
         /\ row'.kill_switch /\ ~row.kill_switch => op[s].kind = "enable_kill_switch"
         /\ row.kill_switch /\ ~row'.kill_switch => op[s].kind = "disable_kill_switch"
         /\ row'.mode # row.mode => op[s].kind = "set_mode" /\ row'.mode = op[s].mode
  <1>1. /\ pc[s] = "commit" /\ row \in Row /\ seen[s] \in Row /\ op[s] \in Operation
    BY DEF Committed, IInv, TypeOK, OneRow
  <1> DEFINE after == Mutated(seen[s], op[s])
  <1>2. after \in Row
    BY <1>1, MutatedFields
  <1>3. row' = Write(row, seen[s], after)
    BY <1>1 DEF Committed
  <1>4. /\ after.live_trading = seen[s].live_trading
        /\ op[s].kind # "set_mode" => after.mode = seen[s].mode
        /\ op[s].kind = "set_mode" => after.mode = op[s].mode
        /\ op[s].kind \in {"get_state", "set_mode"} => after.kill_switch = seen[s].kill_switch
        /\ op[s].kind = "enable_kill_switch" => after.kill_switch = TRUE
        /\ op[s].kind = "disable_kill_switch" => after.kill_switch = FALSE
    BY <1>1, MutatedFields
  <1>5. op[s].kind \in {"get_state", "enable_kill_switch", "disable_kill_switch", "set_mode"}
    BY <1>1, OperationKinds
  <1> HIDE DEF after
  <1>6. /\ row' \in Row
        /\ row'.mode = IF after.mode # seen[s].mode THEN after.mode ELSE row.mode
        /\ row'.live_trading = IF after.live_trading # seen[s].live_trading
                               THEN after.live_trading ELSE row.live_trading
        /\ row'.kill_switch = IF after.kill_switch # seen[s].kill_switch
                              THEN after.kill_switch ELSE row.kill_switch
    BY <1>1, <1>2, <1>3, WriteFields
  <1>7. row' # None /\ row'.live_trading = row.live_trading
    BY <1>4, <1>6, SystemStateAssumption
  <1>8. row'.mode # row.mode => op[s].kind = "set_mode" /\ row'.mode = op[s].mode
    BY <1>4, <1>6
  <1>9. row'.kill_switch /\ ~row.kill_switch => op[s].kind = "enable_kill_switch"
    BY <1>4, <1>5, <1>6
  <1>10. row.kill_switch /\ ~row'.kill_switch => op[s].kind = "disable_kill_switch"
    BY <1>4, <1>5, <1>6
  <1> QED
    BY <1>7, <1>8, <1>9, <1>10

\* Whatever the interleaving: a mode change cannot clear the kill switch, a
\* switch operation cannot restore an old mode, nothing turns on the live flag.
THEOREM NoLostOperation == Spec => NoOperationUndoesAnother
  <1>1. ASSUME IInv, [Next]_vars, row # None
        PROVE  /\ row' # None
               /\ row'.live_trading = row.live_trading
               /\ row'.kill_switch /\ ~row.kill_switch => Commits({"enable_kill_switch"})
               /\ row.kill_switch /\ ~row'.kill_switch => Commits({"disable_kill_switch"})
               /\ row'.mode # row.mode => Commits({"set_mode"})
    <2>1. CASE row' = row
      BY <1>1, <2>1
    <2>2. CASE row' # row
      <3>1. PICK s \in Sessions : Committed(s) /\ pc'[s] = "idle"
        BY <1>1, <2>2, RowChanges
      <3> QED
        BY <1>1, <3>1, CommitWrites DEF Commits, Committed
    <2> QED
      BY <2>1, <2>2
  <1> QED
    BY <1>1, InductiveInvariant, PTL DEF Spec, NoOperationUndoesAnother

\* The gate of set_mode, checked before the session opens, holds for the commit.
THEOREM LiveModeIsGated == Spec => LiveModeNeedsSafetyFlags
  <1>1. ASSUME IInv, [Next]_vars, row # None, row.mode \notin LiveModes, row'.mode \in LiveModes
        PROVE  \E s \in Sessions : /\ SafetyFlagsSatisfied(Environment[s])
                                   /\ pc[s] # "idle" /\ pc'[s] = "idle"
    <2>1. PICK s \in Sessions : Committed(s) /\ pc'[s] = "idle"
      BY <1>1, RowChanges
    <2>2. op[s].kind = "set_mode" /\ op[s].mode \in LiveModes
      BY <1>1, <2>1, CommitWrites
    <2> QED
      BY <1>1, <2>1, <2>2 DEF Committed, IInv, GateHeld
  <1> QED
    BY <1>1, InductiveInvariant, PTL DEF Spec, LiveModeNeedsSafetyFlags

\* get_state never answers with an open switch that no transaction stored.
THEOREM GetStateIsClosedOnFailure == Spec => GetStateFailsClosed
  <1>1. ASSUME IInv, [Next]_vars, NEW s \in Sessions,
               pc[s] # "idle", pc'[s] = "idle", op[s].kind = "get_state"
        PROVE  \/ answer'[s].kill_switch
               \/ row' # None /\ answer'[s] = Snapshot(seen[s])
    <2>1. PICK t \in Sessions : InsertLosesRace(t) \/ Commit(t) \/ DatabaseFails(t)
      BY <1>1 DEF Next, Progress, Call, SetModeRefused, Select, SelectFindsNothing, Insert,
                  vars, IInv, TypeOK
    <2>2. t = s
      BY <1>1, <2>1 DEF InsertLosesRace, Commit, DatabaseFails, Answer, IInv, TypeOK
    <2>3. ASSUME Answer(s, Failure(s)) PROVE answer'[s].kill_switch
      BY <1>1, <2>3 DEF Answer, Failure, ClosedSnapshot, IInv, TypeOK
    <2>4. CASE Commit(s)
      <3>1. Mutated(seen[s], op[s]).kill_switch = seen[s].kill_switch
        BY <1>1, <2>4, MutatedFields DEF Commit, Committed, IInv, TypeOK
      <3>2. Snapshot(Mutated(seen[s], op[s])) = Snapshot(seen[s])
        BY <1>1, <2>4, <3>1, MutatedFields DEF Snapshot, Commit, Committed, IInv, TypeOK
      <3>3. row' # None
        BY <1>1, <2>4, CommittedType, SystemStateAssumption DEF Commit
      <3> QED
        BY <1>1, <2>4, <3>2, <3>3 DEF Commit, Answer, IInv, TypeOK
    <2> QED
      BY <2>1, <2>2, <2>3, <2>4 DEF InsertLosesRace, DatabaseFails
  <1>2. IInv /\ [Next]_vars =>
          \A s \in Sessions :
            pc[s] # "idle" /\ pc'[s] = "idle" /\ op[s].kind = "get_state" =>
              \/ answer'[s].kill_switch
              \/ row' # None /\ answer'[s] = Snapshot(seen[s])
    BY <1>1
  <1> QED
    BY <1>2, InductiveInvariant, PTL DEF Spec, GetStateFailsClosed
=============================================================================
