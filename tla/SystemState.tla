----------------------------- MODULE SystemState -----------------------------
(***************************************************************************)
(* SystemStateService: the persisted mode, live flag and kill switch.      *)
(* Sessions are the API threads and the scripts that call the service at   *)
(* the same time, each with the environment of its own process.  A call    *)
(* reads the row, changes the object in memory and commits.  The commit    *)
(* writes the columns whose value differs from what the session read, and  *)
(* no others; another session may have committed in between.               *)
(***************************************************************************)
CONSTANTS
  Sessions,     \* concurrent callers of the service
  Modes,        \* TradingMode
  LiveModes,    \* the live-capable ones
  Environment,  \* Environment[s]: the settings of the process of s
  None,         \* Python's None: no row, no answer
  RiskRejectedError

VARIABLES
  row,     \* the row of system_state, or None before it is created
  pc,      \* pc[s]: the next step of session s
  op,      \* op[s]: the operation s is called for
  seen,    \* seen[s]: the row as s read it, or is about to insert it
  answer   \* answer[s]: what the last call of s returned or raised

vars == <<row, pc, op, seen, answer>>

-----------------------------------------------------------------------------
SystemStateSnapshot == [mode: Modes, live_trading: BOOLEAN, kill_switch: BOOLEAN]

\* What a session is called for; a mutation is also the reason it stores.
Operation ==
  [kind: {"get_state", "enable_kill_switch", "disable_kill_switch"}]
  \cup [kind: {"set_mode"}, mode: Modes]

Row == [mode: Modes, live_trading: BOOLEAN, kill_switch: BOOLEAN,
        reason: Operation \cup [kind: {"initialized_from_environment"}]]

\* "flags" stands for the fourteen safety flags that are not stored in the row.
Settings == [mode: Modes, live_trading: BOOLEAN, kill_switch: BOOLEAN, flags: BOOLEAN]

ASSUME SystemStateAssumption ==
  /\ LiveModes \subseteq Modes
  /\ Environment \in [Sessions -> Settings]
  /\ None \notin Row \cup Operation
  /\ None # RiskRejectedError /\ {None, RiskRejectedError} \cap SystemStateSnapshot = {}

\* live_mode_safety_errors() is empty.
SafetyFlagsSatisfied(settings) ==
  /\ settings.mode \in LiveModes
  /\ settings.live_trading
  /\ ~settings.kill_switch
  /\ settings.flags

\* _snapshot_from_row
Snapshot(r) == [mode |-> r.mode, live_trading |-> r.live_trading, kill_switch |-> r.kill_switch]

\* _database_unavailable_snapshot
ClosedSnapshot(s) ==
  [mode |-> Environment[s].mode, live_trading |-> FALSE, kill_switch |-> TRUE]

\* The row _get_or_create_row inserts.
InitialRow(s) ==
  [mode |-> Environment[s].mode, live_trading |-> Environment[s].live_trading,
   kill_switch |-> Environment[s].kill_switch,
   reason |-> [kind |-> "initialized_from_environment"]]

\* The object in memory once _mutate_state has assigned its attributes.
Mutated(r, o) ==
  [mode |-> IF o.kind = "set_mode" THEN o.mode ELSE r.mode,
   live_trading |-> r.live_trading,
   kill_switch |-> \/ o.kind = "enable_kill_switch"
                   \/ o.kind # "disable_kill_switch" /\ r.kill_switch,
   reason |-> IF o.kind = "get_state" THEN r.reason ELSE o]

\* Mutant: the UPDATE writes every column of the object.
WriteEveryColumn(current, before, after) == after

\* The UPDATE: a column is written when the session changed what it had read.
Write(current, before, after) ==
  [column \in DOMAIN current |->
     IF after[column] # before[column] THEN after[column] ELSE current[column]]

-----------------------------------------------------------------------------
Init ==
  /\ row = None
  /\ pc = [s \in Sessions |-> "idle"]
  /\ op = [s \in Sessions |-> None]
  /\ seen = [s \in Sessions |-> None]
  /\ answer = [s \in Sessions |-> None]

Answer(s, a) ==
  /\ pc' = [pc EXCEPT ![s] = "idle"]
  /\ op' = [op EXCEPT ![s] = None]
  /\ seen' = [seen EXCEPT ![s] = None]
  /\ answer' = [answer EXCEPT ![s] = a]

\* Mutant: set_mode does not ask for the safety flags.
CallUngated(s) ==
  /\ pc[s] = "idle"
  /\ \E o \in Operation :
       /\ pc' = [pc EXCEPT ![s] = "select"]
       /\ op' = [op EXCEPT ![s] = o]
       /\ answer' = [answer EXCEPT ![s] = None]
       /\ UNCHANGED <<row, seen>>

\* get_state, enable_kill_switch, disable_kill_switch, and set_mode past its gate.
Call(s) ==
  /\ pc[s] = "idle"
  /\ \E o \in Operation :
       /\ o.kind = "set_mode" =>
            (o.mode \in LiveModes => SafetyFlagsSatisfied(Environment[s]))
       /\ pc' = [pc EXCEPT ![s] = "select"]
       /\ op' = [op EXCEPT ![s] = o]
       /\ answer' = [answer EXCEPT ![s] = None]
       /\ UNCHANGED <<row, seen>>

\* set_mode refuses a live-capable mode before it opens a session.
SetModeRefused(s) ==
  /\ pc[s] = "idle"
  /\ LiveModes # {}
  /\ ~SafetyFlagsSatisfied(Environment[s])
  /\ answer' = [answer EXCEPT ![s] = RiskRejectedError]
  /\ UNCHANGED <<row, pc, op, seen>>

\* The SELECT of _get_or_create_row finds the row.
Select(s) ==
  /\ pc[s] = "select"
  /\ row # None
  /\ pc' = [pc EXCEPT ![s] = "commit"]
  /\ seen' = [seen EXCEPT ![s] = row]
  /\ UNCHANGED <<row, op, answer>>

\* Mutant: the row is never created.
SelectAssumesTheRow(s) ==
  /\ pc[s] = "select"
  /\ row = None
  /\ pc' = [pc EXCEPT ![s] = "commit"]
  /\ UNCHANGED <<row, op, seen, answer>>

SelectFindsNothing(s) ==
  /\ pc[s] = "select"
  /\ row = None
  /\ pc' = [pc EXCEPT ![s] = "insert"]
  /\ UNCHANGED <<row, op, seen, answer>>

\* The flush inserts the row, which nobody else sees before the commit.  Another
\* session's uncommitted row with the same key makes this INSERT wait for it.
Insert(s) ==
  /\ pc[s] = "insert"
  /\ row = None
  /\ \A t \in Sessions : pc[t] # "commit_new"
  /\ pc' = [pc EXCEPT ![s] = "commit_new"]
  /\ seen' = [seen EXCEPT ![s] = InitialRow(s)]
  /\ UNCHANGED <<row, op, answer>>

\* What the caller gets when the database raised SQLAlchemyError.
Failure(s) ==
  IF op[s].kind = "get_state" THEN ClosedSnapshot(s) ELSE RiskRejectedError

\* Mutant: the INSERT is tried again until it succeeds.
InsertTriesAgain(s) ==
  /\ pc[s] = "insert"
  /\ row # None
  /\ UNCHANGED vars

\* The unique key refuses a second row: IntegrityError.
InsertLosesRace(s) ==
  /\ pc[s] = "insert"
  /\ row # None
  /\ Answer(s, Failure(s))
  /\ UNCHANGED row

\* The transaction as it commits (with its row of audit_logs, which nothing here
\* reads).
Committed(s) ==
  /\ pc[s] \in {"commit", "commit_new"}
  /\ row' = IF pc[s] = "commit_new" THEN Mutated(seen[s], op[s])
            ELSE Write(row, seen[s], Mutated(seen[s], op[s]))

\* The call returns the snapshot taken from the object in memory.
Commit(s) ==
  /\ Committed(s)
  /\ Answer(s, Snapshot(Mutated(seen[s], op[s])))

\* Mutant: get_state answers with the row it could not commit.
DatabaseFailsOpen(s) ==
  /\ pc[s] # "idle"
  /\ UNCHANGED row \/ Committed(s)
  /\ Answer(s, IF seen[s] # None THEN Snapshot(seen[s]) ELSE Failure(s))

\* Any statement may fail, and roll back; a commit that was done may be lost
\* on the way back.
DatabaseFails(s) ==
  /\ pc[s] # "idle"
  /\ UNCHANGED row \/ Committed(s)
  /\ Answer(s, Failure(s))

\* What a call does by itself when the database does not fail.
Progress(s) ==
  \/ Select(s)
  \/ SelectFindsNothing(s)
  \/ Insert(s)
  \/ InsertLosesRace(s)
  \/ Commit(s)

Next == \E s \in Sessions : Call(s) \/ SetModeRefused(s) \/ Progress(s) \/ DatabaseFails(s)

\* A statement of the database ends.  An INSERT that waits for another session's
\* uncommitted row is served when that session rolls back, even if others insert
\* later (the database queues the waiters), hence strong fairness for it.
Fairness == \A s \in Sessions : WF_vars(Progress(s)) /\ SF_vars(Insert(s))

Spec == Init /\ [][Next]_vars /\ Fairness

-----------------------------------------------------------------------------
(***************************************************************************)
(* What makes it correct.                                                  *)
(***************************************************************************)
\* Every variable stays in its type, and a session that is about to commit holds
\* its operation and the row it read.
TypeOK ==
  /\ row \in Row \cup {None}
  /\ pc \in [Sessions -> {"idle", "select", "insert", "commit", "commit_new"}]
  /\ op \in [Sessions -> Operation \cup {None}]
  /\ seen \in [Sessions -> Row \cup {None}]
  /\ answer \in [Sessions -> SystemStateSnapshot \cup {None, RiskRejectedError}]
  /\ \A s \in Sessions : /\ pc[s] # "idle" => op[s] \in Operation
                         /\ pc[s] \in {"commit", "commit_new"} => seen[s] \in Row
                         /\ pc[s] = "commit" => row \in Row

\* Two creators never both insert: the row a session is about to commit as new is
\* the only one, and none is committed yet (the get-or-create of
\* system_state_service.py:83-97 reads, and inserts later).
OneRow ==
  \A s \in Sessions : pc[s] = "commit_new" =>
    row = None /\ \A t \in Sessions : pc[t] = "commit_new" => t = s

Creates == row = None /\ row' # None

\* A session whose operation is of one of these kinds commits in this step.
Commits(kinds) ==
  \E s \in Sessions : /\ pc[s] \in {"commit", "commit_new"} /\ pc'[s] = "idle"
                      /\ op[s].kind \in kinds

\* No operation undoes a concurrent one of another kind, though each works on a
\* row that may have changed since it was read: the switch is turned off only by
\* disable_kill_switch, the mode is changed only by set_mode, and the live flag,
\* once the row exists, by nothing.
NoOperationUndoesAnother ==
  [][row # None =>
       /\ row' # None
       /\ row'.live_trading = row.live_trading
       /\ row'.kill_switch /\ ~row.kill_switch => Commits({"enable_kill_switch"})
       /\ row.kill_switch /\ ~row'.kill_switch => Commits({"disable_kill_switch"})
       /\ row'.mode # row.mode => Commits({"set_mode"})]_vars

\* A row that was not created in a live-capable mode enters one only by a
\* session whose environment satisfies every safety flag.
LiveModeNeedsSafetyFlags ==
  [][row # None /\ row.mode \notin LiveModes /\ row'.mode \in LiveModes =>
       \E s \in Sessions : /\ SafetyFlagsSatisfied(Environment[s])
                           /\ pc[s] # "idle" /\ pc'[s] = "idle"]_vars

\* get_state fails closed: it returns the committed row as it is or was, or a
\* snapshot with the switch on; never one with the switch off that no commit
\* ever stored (PROJECT_HANDOVER.md:783, "fail-closed fallback").  Stated for the
\* step that answers: an open answer is what the session read, or has committed.
GetStateFailsClosed ==
  [][\A s \in Sessions :
       pc[s] # "idle" /\ pc'[s] = "idle" /\ op[s].kind = "get_state" =>
         \/ answer'[s].kill_switch
         \/ row' # None /\ answer'[s] = Snapshot(seen[s])]_vars

\* Every call returns, also the one whose INSERT waits for another session's.
CallsReturn == \A s \in Sessions : pc[s] # "idle" ~> pc[s] = "idle"

-----------------------------------------------------------------------------
(***************************************************************************)
(* What the documents say and the code does not do.                        *)
(***************************************************************************)
\* "The kill switch blocks live entry orders" (README.md:122): while the row says
\* that the last operation on it was enable_kill_switch, the switch is on.
EnabledSwitchIsOn ==
  row # None =>
    (row.reason = [kind |-> "enable_kill_switch"] => row.kill_switch)
=============================================================================
