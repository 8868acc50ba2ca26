------------------------ MODULE IntradayPipelineProofs ------------------------
(***************************************************************************)
(* Proofs about IntradayPipeline, for any number of processes, threads and *)
(* calls and whatever the snapshots say: the kill switch of a process of   *)
(* one thread latches; the journal explains every position, the agents     *)
(* only narrow what the rules allow, and the limit on open positions is    *)
(* exceeded by no more than one snapshot opens for each thread.            *)
(***************************************************************************)
EXTENDS IntradayPipeline, FiniteSetTheorems, SequenceTheorems, TLAPS

(***************************************************************************)
(* The kill switch.                                                        *)
(***************************************************************************)

\* A call has the fields the actions update; nothing else is said of their types.
ShapeOK ==
  /\ DOMAIN call = Threads
  /\ DOMAIN triggered = Processes
  /\ DOMAIN starts = Processes
  /\ \A p \in Processes : triggered[p] \in BOOLEAN /\ starts[p] \in Nat
  /\ \A t \in Threads : call[t] # None =>
       /\ {"pc", "todo", "triggered", "quantity"} \subseteq DOMAIN call[t]
       /\ call[t].triggered \in BOOLEAN

\* A call knows of a kill switch that is triggered until it has acted on it.
CallKnowsKillSwitch(t) ==
  OneThread(RunsIn[t]) /\ call[t] # None /\ triggered[RunsIn[t]] =>
    call[t].pc \in {"KILL_SWITCH", "SCREEN"} /\ call[t].triggered

KillInv == ShapeOK /\ \A t \in Threads : CallKnowsKillSwitch(t)

\* Initially no call is open.
LEMMA KillInvInit == Init => KillInv
  BY PipelineAssumption DEF Init, KillInv, ShapeOK, CallKnowsKillSwitch

\* Two threads of a process that has one are the same.
LEMMA SameThread ==
  ASSUME NEW t \in Threads, NEW u \in Threads, RunsIn[t] = RunsIn[u], OneThread(RunsIn[t])
  PROVE  t = u
  BY SMTT(60) DEF OneThread, ThreadsOf

\* What a step of the pipeline changes of the calls: only the one of its thread.
LEMMA OthersKeepTheirCall ==
  ASSUME KillInv, NEW t \in Threads, Step(t), NEW u \in Threads, u # t
  PROVE  call'[u] = call[u]
  BY DEF KillInv, ShapeOK, Step, EvaluateKillSwitch, DataOrUniverseBlock, AgenticRegimeBlock, Screened,
     SignalRejected, SignalBlocked, SignalAccepted, SimulateOrder, OpenPosition, Fails,
     Returns, Goto, Continue

\* A call begins with the reasons the switch has at that moment.
LEMMA BeginKeepsKillInv ==
  ASSUME KillInv, NEW t \in Threads, NEW s \in Snapshots, Begin(t, s)
  PROVE  KillInv'
<1> DEFINE c == [id |-> calls + 1, pc |-> "KILL_SWITCH", snapshot |-> s, todo |-> Signals(s),
                 open_positions |-> Cardinality(positions[RunsIn[t]]),
                 triggered |-> triggered[RunsIn[t]], score |-> 0, quantity |-> 0]
<1>1. RunsIn[t] \in Processes /\ triggered[RunsIn[t]] \in BOOLEAN
  BY PipelineAssumption DEF KillInv, ShapeOK
<1>2. call' = [call EXCEPT ![t] = c] /\ triggered' = triggered /\ starts' = starts
  BY DEF Begin
<1>3. /\ {"pc", "todo", "triggered", "quantity"} \subseteq DOMAIN c
      /\ c.pc = "KILL_SWITCH" /\ c.triggered = triggered[RunsIn[t]]
  OBVIOUS
<1> HIDE DEF c
<1>4. call'[t] = c /\ \A u \in Threads : u # t => call'[u] = call[u]
  BY <1>2 DEF KillInv, ShapeOK
<1>5. ShapeOK'
  BY <1>1, <1>2, <1>3, <1>4 DEF KillInv, ShapeOK
<1>6. ASSUME NEW u \in Threads PROVE CallKnowsKillSwitch(u)'
  BY <1>2, <1>3, <1>4 DEF KillInv, CallKnowsKillSwitch, OneThread, ThreadsOf
<1> QED
  BY <1>5, <1>6 DEF KillInv

\* A step of a thread changes the switch of its process only where it evaluates it,
\* and never from triggered to not triggered when the process has one thread.
LEMMA StepKeepsKillInv ==
  ASSUME KillInv, NEW t \in Threads, Step(t)
  PROVE  KillInv'
<1>1. RunsIn[t] \in Processes
  BY PipelineAssumption
<1>2. \A u \in Threads : u # t => call'[u] = call[u]
  BY OthersKeepTheirCall, SMTT(60)
<1>3. call[t] # None /\ starts' = starts /\ DOMAIN call' = Threads
  BY DEF KillInv, ShapeOK, Step, EvaluateKillSwitch, DataOrUniverseBlock, AgenticRegimeBlock, Screened,
     SignalRejected, SignalBlocked, SignalAccepted, SimulateOrder, OpenPosition, Fails,
     Returns, Goto, Continue, At
<1>4. ASSUME /\ call'[t] # None =>
                   /\ {"pc", "todo", "triggered", "quantity"} \subseteq DOMAIN call'[t]
                   /\ call'[t].triggered \in BOOLEAN
             /\ CallKnowsKillSwitch(t)'
             /\ \/ triggered' = triggered
                \/ \E b \in BOOLEAN : triggered' = [triggered EXCEPT ![RunsIn[t]] = b]
      PROVE  KillInv'
  <2>1. ShapeOK'
    BY <1>1, <1>2, <1>3, <1>4 DEF KillInv, ShapeOK
  <2>2. ASSUME NEW u \in Threads PROVE CallKnowsKillSwitch(u)'
    <3>1. CASE u = t
      <4>1. OneThread(RunsIn[t]) /\ call'[t] # None /\ triggered'[RunsIn[t]] =>
              call'[t].pc \in {"KILL_SWITCH", "SCREEN"} /\ call'[t].triggered
        BY <1>4 DEF CallKnowsKillSwitch, OneThread, ThreadsOf
      <4>2. OneThread(RunsIn[u]) /\ call'[u] # None /\ triggered'[RunsIn[u]] =>
              call'[u].pc \in {"KILL_SWITCH", "SCREEN"} /\ call'[u].triggered
        BY <3>1, <4>1
      <4> QED
        BY <4>2 DEF CallKnowsKillSwitch, OneThread, ThreadsOf
    <3>2. CASE u # t /\ RunsIn[u] # RunsIn[t]
      <4>0. RunsIn[u] \in Processes
        BY PipelineAssumption
      <4>1. call'[u] = call[u] /\ triggered'[RunsIn[u]] = triggered[RunsIn[u]]
        BY <1>2, <1>4, <3>2, <4>0 DEF KillInv, ShapeOK
      <4>2. OneThread(RunsIn[u]) /\ call[u] # None /\ triggered[RunsIn[u]] =>
              call[u].pc \in {"KILL_SWITCH", "SCREEN"} /\ call[u].triggered
        BY DEF KillInv, CallKnowsKillSwitch
      <4>3. OneThread(RunsIn[u]) /\ call'[u] # None /\ triggered'[RunsIn[u]] =>
              call'[u].pc \in {"KILL_SWITCH", "SCREEN"} /\ call'[u].triggered
        BY <4>1, <4>2
      <4> QED
        BY <4>3 DEF CallKnowsKillSwitch, OneThread, ThreadsOf
    <3>3. CASE u # t /\ RunsIn[u] = RunsIn[t]
      <4>1. ~OneThread(RunsIn[u])
        BY <3>3, SameThread
      <4> QED
        BY <4>1 DEF CallKnowsKillSwitch, OneThread, ThreadsOf
    <3> QED
      BY <3>1, <3>2, <3>3
  <2> QED
    BY <2>1, <2>2 DEF KillInv
<1>5. CASE EvaluateKillSwitch(t)
  <2> DEFINE now == call[t].triggered \/ ~DataOk(call[t].snapshot)
  <2>1. /\ triggered' = [triggered EXCEPT ![RunsIn[t]] = now]
        /\ call' = [call EXCEPT ![t].pc = "SCREEN", ![t].triggered = now]
        /\ now \in BOOLEAN
    BY <1>5 DEF EvaluateKillSwitch, KillInv, ShapeOK
  <2>2. triggered'[RunsIn[t]] = now
    BY <1>1, <2>1 DEF KillInv, ShapeOK
  <2> HIDE DEF now
  <2>3. call'[t] = [[call[t] EXCEPT !.pc = "SCREEN"] EXCEPT !.triggered = now]
    BY <2>1 DEF KillInv, ShapeOK
  <2>4. /\ DOMAIN call'[t] = DOMAIN call[t]
        /\ call'[t].pc = "SCREEN" /\ call'[t].triggered = now
    BY <2>3, <1>3 DEF KillInv, ShapeOK
  <2>5. CallKnowsKillSwitch(t)'
    BY <2>2, <2>4 DEF CallKnowsKillSwitch
  <2> QED
    BY <1>3, <1>4, <2>1, <2>4, <2>5 DEF KillInv, ShapeOK
<1>6. ASSUME triggered' = triggered, Returns(t) PROVE KillInv'
  <2>1. call'[t] = None
    BY <1>6 DEF Returns, KillInv, ShapeOK
  <2> QED
    BY <1>4, <1>6, <2>1 DEF CallKnowsKillSwitch
<1>7. ASSUME triggered' = triggered, ~triggered[RunsIn[t]] \/ ~OneThread(RunsIn[t]),
             call'[t] # None =>
               /\ {"pc", "todo", "triggered", "quantity"} \subseteq DOMAIN call'[t]
               /\ call'[t].triggered \in BOOLEAN
      PROVE  KillInv'
  <2>1. CallKnowsKillSwitch(t)'
    BY <1>7 DEF CallKnowsKillSwitch, OneThread, ThreadsOf
  <2> QED
    BY <1>4, <1>7, <2>1
<1>8. CASE DataOrUniverseBlock(t) \/ AgenticRegimeBlock(t) \/ Fails(t)
  BY <1>6, <1>8 DEF DataOrUniverseBlock, AgenticRegimeBlock, Fails
<1>9. CASE Screened(t)
  <2>1. CASE Returns(t)
    BY <1>6, <1>9, <2>1 DEF Screened
  <2>2. CASE Goto(t, "SIGNAL")
    <3>1. ~triggered[RunsIn[t]] \/ ~OneThread(RunsIn[t])
      BY <1>3, <1>9 DEF Screened, KillInv, CallKnowsKillSwitch
    <3>2. DOMAIN call'[t] = DOMAIN call[t] /\ call'[t].triggered = call[t].triggered
      BY <1>3, <2>2 DEF Goto, KillInv, ShapeOK
    <3> QED
      BY <1>3, <1>7, <1>9, <3>1, <3>2 DEF Screened, KillInv, ShapeOK
  <2> QED
    BY <1>9, <2>1, <2>2 DEF Screened
<1>10. CASE SignalRejected(t) \/ SignalBlocked(t) \/ OpenPosition(t)
  <2>1. Continue(t) /\ triggered' = triggered /\ call[t].pc \in {"SIGNAL", "OPEN"}
    BY <1>10 DEF SignalRejected, SignalBlocked, OpenPosition, At
  <2>2. ~triggered[RunsIn[t]] \/ ~OneThread(RunsIn[t])
    BY <1>3, <2>1 DEF KillInv, CallKnowsKillSwitch
  <2>3. CASE call'[t] = None
    BY <1>7, <2>1, <2>2, <2>3
  <2>4. CASE call'[t] # None
    <3> DEFINE onward == [call[t] EXCEPT !.pc = "SIGNAL", !.todo = Tail(call[t].todo)]
    <3>0. call'[t] = IF Len(call[t].todo) = 1 THEN None ELSE onward
      BY <2>1 DEF Continue, KillInv, ShapeOK
    <3>1. DOMAIN onward = DOMAIN call[t] /\ onward.triggered = call[t].triggered
      <4>1. DOMAIN onward = DOMAIN call[t]
        OBVIOUS
      <4>2. "triggered" \in DOMAIN call[t]
        BY <1>3 DEF KillInv, ShapeOK
      <4>3. onward.triggered = call[t].triggered
        BY <4>2
      <4> QED
        BY <4>1, <4>3
    <3> HIDE DEF onward
    <3>2. DOMAIN call'[t] = DOMAIN call[t] /\ call'[t].triggered = call[t].triggered
      BY <2>4, <3>0, <3>1
    <3> QED
      BY <1>3, <1>7, <2>1, <2>2, <3>2 DEF KillInv, ShapeOK
  <2> QED
    BY <2>3, <2>4
<1>11. CASE SignalAccepted(t) \/ SimulateOrder(t)
  <2>1. triggered' = triggered /\ call[t].pc \in {"SIGNAL", "ORDER"}
    BY <1>11 DEF SignalAccepted, SimulateOrder, At
  <2>2. ~triggered[RunsIn[t]] \/ ~OneThread(RunsIn[t])
    BY <1>3, <2>1 DEF KillInv, CallKnowsKillSwitch
  <2>3. \/ call'[t] = [call[t] EXCEPT !.pc = "OPEN"]
        \/ \E n, q : call'[t] = [call[t] EXCEPT !.pc = "ORDER", !.score = n, !.quantity = q]
    BY <1>11, ZenonT(60) DEF SignalAccepted, SimulateOrder, Goto, KillInv, ShapeOK
  <2>4. "triggered" \in DOMAIN call[t]
    BY <1>3 DEF KillInv, ShapeOK
  <2>5. DOMAIN call'[t] = DOMAIN call[t] /\ call'[t].triggered = call[t].triggered
    BY <2>3, <2>4
  <2> QED
    BY <1>3, <1>7, <2>1, <2>2, <2>5, SMTT(60) DEF KillInv, ShapeOK
<1> QED
  BY <1>5, <1>8, <1>9, <1>10, <1>11 DEF Step

\* A restarted process has no call and no triggered switch.
LEMMA RestartKeepsKillInv ==
  ASSUME KillInv, NEW p \in Processes, Restart(p)
  PROVE  KillInv'
<1>1. /\ \A q \in Processes : starts'[q] \in Nat
      /\ \A q \in Processes : triggered'[q] \in BOOLEAN
      /\ DOMAIN triggered' = Processes /\ DOMAIN starts' = Processes
  <2>1. DOMAIN triggered' = Processes /\ DOMAIN starts' = Processes
    BY DEF KillInv, ShapeOK, Restart
  <2>2. ASSUME NEW q \in Processes PROVE starts'[q] \in Nat
    BY DEF KillInv, ShapeOK, Restart
  <2>3. ASSUME NEW q \in Processes PROVE triggered'[q] \in BOOLEAN
    <3>1. triggered'[q] = IF q = p THEN FALSE ELSE triggered[q]
      BY DEF KillInv, ShapeOK, Restart
    <3>2. triggered[q] \in BOOLEAN
      BY DEF KillInv, ShapeOK
    <3> QED
      BY <3>1, <3>2
  <2> QED
    BY <2>1, <2>2, <2>3
<1>3. DOMAIN call' = Threads /\ \A t \in Threads : call'[t] = None \/ call'[t] = call[t]
  BY DEF Restart
<1>4. ShapeOK'
  BY <1>1, <1>3 DEF KillInv, ShapeOK
<1>2. ASSUME NEW t \in Threads PROVE CallKnowsKillSwitch(t)'
  BY PipelineAssumption DEF KillInv, ShapeOK, CallKnowsKillSwitch, Restart, OneThread, ThreadsOf
<1> QED
  BY <1>2, <1>4 DEF KillInv

\* What every call knows of the kill switch of its process is an invariant.
THEOREM KillSwitchIsKnown == Spec => []KillInv
<1>1. ASSUME KillInv, Next PROVE KillInv'
  BY <1>1, BeginKeepsKillInv, StepKeepsKillInv, RestartKeepsKillInv DEF Next
<1>2. ASSUME KillInv, UNCHANGED vars PROVE KillInv'
  BY <1>2 DEF vars, KillInv, ShapeOK, CallKnowsKillSwitch, OneThread, ThreadsOf
<1> QED
  BY KillInvInit, <1>1, <1>2, PTL DEF Spec

\* The step-wise content of KillSwitchLatches.
Latches ==
  \A p \in Processes :
    OneThread(p) /\ triggered[p] /\ starts'[p] = starts[p] =>
      /\ triggered'[p]
      /\ \A r \in journal' \ journal : r.process = p => r.event = "DATA_OR_UNIVERSE_BLOCK"

\* No step lets a triggered switch go or a signal be accepted past it.
LEMMA StepLatches ==
  ASSUME KillInv, [Next]_vars
  PROVE  Latches
<1> SUFFICES ASSUME NEW p \in Processes, OneThread(p), triggered[p], starts'[p] = starts[p]
             PROVE  /\ triggered'[p]
                    /\ \A r \in journal' \ journal :
                         r.process = p => r.event = "DATA_OR_UNIVERSE_BLOCK"
  BY DEF Latches
<1>1. CASE UNCHANGED vars
  BY <1>1 DEF vars
<1>2. ASSUME NEW t \in Threads, NEW s \in Snapshots, Begin(t, s)
      PROVE  triggered' = triggered /\ journal' = journal
  BY <1>2 DEF Begin
<1>3. ASSUME NEW q \in Processes, Restart(q)
      PROVE  q # p /\ triggered'[p] = triggered[p] /\ journal' = journal
  BY <1>3 DEF Restart, KillInv, ShapeOK
<1>4. ASSUME NEW t \in Threads, Step(t), RunsIn[t] # p
      PROVE  triggered'[p] /\ \A r \in journal' \ journal : r.process # p
  <2>1. triggered'[p]
    BY <1>4, ZenonT(60) DEF KillInv, ShapeOK, Step, EvaluateKillSwitch, DataOrUniverseBlock, AgenticRegimeBlock,
       Screened, SignalRejected, SignalBlocked, SignalAccepted, SimulateOrder, OpenPosition, Fails
  <2>2. \/ journal' = journal
        \/ \E event, signal, score, quantity :
             journal' = journal \cup {Row(t, event, signal, score, quantity)}
    BY <1>4 DEF Step, EvaluateKillSwitch, DataOrUniverseBlock, AgenticRegimeBlock,
       Screened, SignalRejected, SignalBlocked, SignalAccepted, SimulateOrder, OpenPosition, Fails,
       Record
  <2>3. \A event, signal, score, quantity :
          Row(t, event, signal, score, quantity).process = RunsIn[t]
    BY DEF Row
  <2> QED
    BY <1>4, <2>1, <2>2, <2>3
<1>5. ASSUME NEW t \in Threads, Step(t), RunsIn[t] = p
      PROVE  /\ triggered'[p]
             /\ \A r \in journal' \ journal : r.event = "DATA_OR_UNIVERSE_BLOCK"
  <2>1. call[t] # None => call[t].pc \in {"KILL_SWITCH", "SCREEN"} /\ call[t].triggered
    BY <1>5 DEF KillInv, CallKnowsKillSwitch
  <2>2. CASE EvaluateKillSwitch(t)
    BY <1>5, <2>1, <2>2 DEF EvaluateKillSwitch, At, KillInv, ShapeOK
  <2>3. CASE DataOrUniverseBlock(t)
    <3>1. Row(t, "DATA_OR_UNIVERSE_BLOCK", None, 0, 0).event = "DATA_OR_UNIVERSE_BLOCK"
      BY DEF Row
    <3> QED
      BY <2>3, <3>1 DEF DataOrUniverseBlock, Record
  <2>4. CASE Fails(t)
    BY <2>4, SMTT(60) DEF Fails
  <2>5. ~(AgenticRegimeBlock(t) \/ Screened(t) \/ SignalRejected(t) \/ SignalBlocked(t)
          \/ SignalAccepted(t) \/ SimulateOrder(t) \/ OpenPosition(t))
    BY <2>1 DEF AgenticRegimeBlock, Screened, SignalRejected, SignalBlocked, SignalAccepted,
       SimulateOrder, OpenPosition, At
  <2> QED
    BY <1>5, <2>2, <2>3, <2>4, <2>5 DEF Step
<1> QED
  BY <1>1, <1>2, <1>3, <1>4, <1>5 DEF Next

\* The kill switch of a process of one thread latches until the process is started
\* again, whatever the processes around it do.
THEOREM KillSwitchStays == Spec => KillSwitchLatches
<1>1. KillInv /\ [Next]_vars => Latches
  BY StepLatches
<1> QED
  BY <1>1, KillSwitchIsKnown, PTL DEF Spec, KillSwitchLatches, Latches

(***************************************************************************)
(* The inductive invariant of the records and of the positions.           *)
(***************************************************************************)
\* The calls that are open have ids of their own, and nothing that is recorded has one
\* that is not given out yet.
IdsOK ==
  /\ DOMAIN call = Threads /\ DOMAIN positions = Processes
  /\ \A t, u \in Threads : t # u /\ call[t] # None /\ call[u] # None => call[t].id # call[u].id
  /\ \A t \in Threads : call[t] # None => call[t].id <= calls
  /\ \A r \in journal : r.call <= calls
  /\ \A d \in decisions : d.call <= calls

\* The signals a call still has to look at: they differ from each other, and each
\* carries a risk.  A call that trades has a quantity, and saw room for a position.
TodoOK(t) ==
  call[t] # None =>
    /\ Len(call[t].todo) <= MostSignals
    /\ \A i, j \in 1..Len(call[t].todo) : i # j => call[t].todo[i] # call[t].todo[j]
    /\ \A i \in 1..Len(call[t].todo) : StopDistance(call[t].todo[i]) \in Nat \ {0}
    /\ call[t].pc \in {"SIGNAL", "ORDER", "OPEN"} => call[t].todo # << >>
    /\ call[t].pc \in {"ORDER", "OPEN"} =>
         call[t].quantity > 0 /\ call[t].open_positions < MaxOpenPositions

\* What the journal may say of the signal a call is at.
Written(pc) ==
  CASE pc = "ORDER" -> {"SIGNAL_ACCEPTED"}
    [] pc = "OPEN" -> {"SIGNAL_ACCEPTED", "SHADOW_ORDER_FILLED"}
    [] OTHER -> {}

\* The journal knows nothing of the signals a call has not come to, and of the one it
\* is at, only what it has done.
RowsOK(t) ==
  call[t] # None =>
    /\ \A r \in journal : r.call = call[t].id =>
         /\ call[t].pc \notin {"KILL_SWITCH", "SCREEN"}
         /\ \A i \in 1..Len(call[t].todo) :
              r.signal = call[t].todo[i] => i = 1 /\ r.event \in Written(call[t].pc)
    /\ call[t].pc \in {"ORDER", "OPEN"} =>
         \E r \in Recorded(call[t].id, Head(call[t].todo), "SIGNAL_ACCEPTED") :
           r.quantity = call[t].quantity
    /\ call[t].pc = "OPEN" =>
         \E r \in Recorded(call[t].id, Head(call[t].todo), "SHADOW_ORDER_FILLED") :
           r.process = RunsIn[t] /\ r.quantity = call[t].quantity

\* The same of the reviews: a call is open only while none of its regime reviews blocks.
ReviewsOK(t) ==
  call[t] # None =>
    \A d \in decisions : d.call = call[t].id =>
      /\ d.signal = None => ~Blocks(d.review)
      /\ \A i \in 1..Len(call[t].todo) : d.signal = call[t].todo[i] =>
           /\ i = 1 /\ call[t].pc \in {"ORDER", "OPEN"}
           /\ d.agent # "ExecutionSimulationAgent" => ~Blocks(d.review)

Slots(p) == ThreadsOf(p) \X (1..MostSignals)

\* The open positions of a process are fewer than the limit, and some more that were
\* opened each by a thread at one of its signals.  A thread that still has room before
\* it has used no slot of the signals it has not come past.
SlotsOK(p) ==
  \E base \in SUBSET positions[p] : \E slot \in Injection(positions[p] \ base, Slots(p)) :
    /\ IsFiniteSet(base) /\ Cardinality(base) < MaxOpenPositions
    /\ \A q \in positions[p] \ base : \A t \in ThreadsOf(p) :
         slot[q][1] = t /\ call[t] # None /\ call[t].open_positions < MaxOpenPositions =>
           slot[q][2] > Len(call[t].todo)

PipelineInv ==
  /\ TypeOK /\ IdsOK
  /\ \A t \in Threads : TodoOK(t) /\ RowsOK(t) /\ ReviewsOK(t)
  /\ JournalExplainsPositions
  /\ AgentsOnlyNarrow
  /\ \A p \in Processes : SlotsOK(p)

(***************************************************************************)
(* Facts about the operators.                                              *)
(***************************************************************************)
\* The larger of two numbers.
LEMMA MaxOfTwo ==
  ASSUME NEW a \in Int, NEW b \in Int
  PROVE  Max({a, b}) = IF a >= b THEN a ELSE b
<1>1. CASE a >= b
  <2>1. \A x \in {a, b} : (\A y \in {a, b} : x >= y) => x = a
    BY <1>1
  <2>2. a \in {a, b} /\ \A y \in {a, b} : a >= y
    BY <1>1
  <2> QED
    BY <1>1, <2>1, <2>2 DEF Max
<1>2. CASE ~(a >= b)
  <2>1. \A x \in {a, b} : (\A y \in {a, b} : x >= y) => x = b
    BY <1>2
  <2>2. b \in {a, b} /\ \A y \in {a, b} : b >= y
    BY <1>2
  <2> QED
    BY <1>2, <2>1, <2>2 DEF Max
<1> QED
  BY <1>1, <1>2

\* The smaller of two numbers.
LEMMA MinOfTwo ==
  ASSUME NEW a \in Int, NEW b \in Int
  PROVE  Min({a, b}) = IF a <= b THEN a ELSE b
<1>1. CASE a <= b
  <2>1. \A x \in {a, b} : (\A y \in {a, b} : x <= y) => x = a
    BY <1>1
  <2>2. a \in {a, b} /\ \A y \in {a, b} : a <= y
    BY <1>1
  <2> QED
    BY <1>1, <2>1, <2>2 DEF Min
<1>2. CASE ~(a <= b)
  <2>1. \A x \in {a, b} : (\A y \in {a, b} : x <= y) => x = b
    BY <1>2
  <2>2. b \in {a, b} /\ \A y \in {a, b} : b <= y
    BY <1>2
  <2> QED
    BY <1>2, <2>1, <2>2 DEF Min
<1> QED
  BY <1>1, <1>2

\* A snapshot is in a regime.
LEMMA RegimeType ==
  ASSUME NEW s \in Snapshots
  PROVE  Regime(s) \in Regimes
  BY PipelineAssumption DEF Regime, Regimes, Bullish, Bearish, MarketDataSnapshot

\* What a snapshot can hold for a strategy: nothing, or one signal of that strategy.
OneSignal(g, strategy) ==
  /\ g \in Seq(Signal)
  /\ g = << >> \/ \E e \in Signal : g = <<e>> /\ e.strategy = strategy
                                    /\ StopDistance(e) \in Nat \ {0}

\* A strategy has at most one signal, and it carries a risk.
LEMMA SignalOfType ==
  ASSUME NEW strategy \in Strategies, NEW direction \in {"LONG", "SHORT"}, NEW s \in Snapshots,
         NEW stop \in Nat
  PROVE  OneSignal(SignalOf(strategy, direction, s, stop), strategy)
<1> DEFINE sign == IF direction = "LONG" THEN 1 ELSE -1
           risk == sign * (s.last_price - stop)
           e == [strategy |-> strategy, direction |-> direction, regime |-> Regime(s),
                 entry_price |-> s.last_price, stop_loss |-> stop,
                 target_price |-> s.last_price + sign * 2 * risk]
<1>1. s.last_price \in Nat
  BY PipelineAssumption DEF MarketDataSnapshot
<1>2. sign \in {1, -1}
  OBVIOUS
<1>3. risk \in Int /\ risk = IF direction = "LONG" THEN s.last_price - stop ELSE stop - s.last_price
  BY <1>1
<1>4. s.last_price + sign * 2 * risk \in Int
  BY <1>1, <1>2, <1>3
<1>5. e \in Signal
  BY <1>1, <1>4, RegimeType DEF Signal
<1>6. SignalOf(strategy, direction, s, stop) = IF risk <= 0 THEN << >> ELSE <<e>>
  BY DEF SignalOf
<1>7. StopDistance(e) = IF s.last_price - stop >= stop - s.last_price
                        THEN s.last_price - stop ELSE stop - s.last_price
  BY <1>1, MaxOfTwo DEF StopDistance
<1>8. e.strategy = strategy
  OBVIOUS
<1> HIDE DEF e
<1>9. CASE risk <= 0
  BY <1>6, <1>9 DEF OneSignal
<1>10. CASE ~(risk <= 0)
  <2>1. StopDistance(e) \in Nat \ {0}
    BY <1>1, <1>3, <1>7, <1>10
  <2> QED
    BY <1>5, <1>6, <1>8, <1>10, <2>1 DEF OneSignal
<1> QED
  BY <1>9, <1>10

\* Each strategy finds in a snapshot nothing, or one signal of its own.
LEMMA StrategyTypes ==
  ASSUME NEW s \in Snapshots
  PROVE  /\ OneSignal(VwapTrendLong(s), "VWAP_TREND_LONG")
         /\ OneSignal(VwapTrendShort(s), "VWAP_TREND_SHORT")
         /\ OneSignal(OpeningRange(s), "OPENING_RANGE_BREAKOUT_BREAKDOWN")
<1>1. /\ s.vwap \in Nat /\ s.previous_low \in Nat /\ s.previous_high \in Nat
      /\ s.range_low \in Nat /\ s.range_high \in Nat
  BY PipelineAssumption DEF MarketDataSnapshot
<1>2. Min({s.vwap, s.previous_low}) \in Nat /\ Max({s.vwap, s.previous_high}) \in Nat
  BY <1>1, MaxOfTwo, MinOfTwo
<1>3. \A n \in Strategies : OneSignal(<< >>, n)
  BY DEF OneSignal
<1>4. \A n \in Strategies, direction \in {"LONG", "SHORT"}, stop \in Nat :
         OneSignal(SignalOf(n, direction, s, stop), n)
  BY SignalOfType
<1>5. OneSignal(VwapTrendLong(s), "VWAP_TREND_LONG")
  BY <1>2, <1>3, <1>4 DEF VwapTrendLong, Strategies
<1>6. OneSignal(VwapTrendShort(s), "VWAP_TREND_SHORT")
  BY <1>2, <1>3, <1>4 DEF VwapTrendShort, Strategies
<1>7. OneSignal(OpeningRange(s), "OPENING_RANGE_BREAKOUT_BREAKDOWN")
  BY <1>1, <1>3, <1>4 DEF OpeningRange, Strategies
<1> QED
  BY <1>5, <1>6, <1>7

\* The signals of a snapshot are at most three, they differ, and each carries a risk.
LEMMA SignalsType ==
  ASSUME NEW s \in Snapshots
  PROVE  /\ Signals(s) \in Seq(Signal)
         /\ Len(Signals(s)) \in 0..3
         /\ \A i, j \in 1..Len(Signals(s)) : i # j => Signals(s)[i] # Signals(s)[j]
         /\ \A i \in 1..Len(Signals(s)) : StopDistance(Signals(s)[i]) \in Nat \ {0}
<1> DEFINE a == VwapTrendLong(s)  b == VwapTrendShort(s)  c == OpeningRange(s)
<1>1. /\ OneSignal(a, "VWAP_TREND_LONG") /\ OneSignal(b, "VWAP_TREND_SHORT")
      /\ OneSignal(c, "OPENING_RANGE_BREAKOUT_BREAKDOWN")
  BY StrategyTypes
<1>2. Signals(s) = a \o b \o c
  BY DEF Signals
<1> HIDE DEF a, b, c
<1>3. a \in Seq(Signal) /\ b \in Seq(Signal) /\ c \in Seq(Signal)
  BY <1>1 DEF OneSignal
<1>4. Signals(s) \in Seq(Signal)
  BY <1>2, <1>3
<1>5. /\ Len(a) \in {0, 1} /\ Len(b) \in {0, 1} /\ Len(c) \in {0, 1}
      /\ Len(a) = 1 => a[1].strategy = "VWAP_TREND_LONG" /\ StopDistance(a[1]) \in Nat \ {0}
      /\ Len(b) = 1 => b[1].strategy = "VWAP_TREND_SHORT" /\ StopDistance(b[1]) \in Nat \ {0}
      /\ Len(c) = 1 => /\ c[1].strategy = "OPENING_RANGE_BREAKOUT_BREAKDOWN"
                       /\ StopDistance(c[1]) \in Nat \ {0}
  BY <1>1 DEF OneSignal
<1>6. Len(a \o b) = Len(a) + Len(b) /\ a \o b \in Seq(Signal)
      /\ \A i \in 1..(Len(a) + Len(b)) : (a \o b)[i] = IF i <= Len(a) THEN a[i] ELSE b[i - Len(a)]
  BY <1>3, ConcatProperties
<1>7. Len(Signals(s)) = Len(a) + Len(b) + Len(c)
      /\ \A i \in 1..(Len(a) + Len(b) + Len(c)) :
           Signals(s)[i] = IF i <= Len(a) + Len(b) THEN (a \o b)[i] ELSE c[i - (Len(a) + Len(b))]
  BY <1>2, <1>3, <1>6, ConcatProperties
<1>8. \A i \in 1..Len(Signals(s)) :
         \/ i = Len(a) /\ Len(a) = 1 /\ Signals(s)[i] = a[1]
         \/ i = Len(a) + Len(b) /\ Len(b) = 1 /\ Signals(s)[i] = b[1]
         \/ i = Len(a) + Len(b) + Len(c) /\ Len(c) = 1 /\ Signals(s)[i] = c[1]
  BY <1>5, <1>6, <1>7
<1> QED
  BY <1>4, <1>5, <1>7, <1>8, SMTT(60)

\* No snapshot holds more signals than the largest number any holds.
LEMMA MostSignalsIsMost ==
  /\ MostSignals \in Nat
  /\ \A s \in Snapshots : Len(Signals(s)) <= MostSignals
<1> DEFINE L == {Len(Signals(s)) : s \in Snapshots}
<1>1. /\ \A y \in L : y \in Nat /\ y <= 3
      /\ \E y \in L : TRUE
  <2>1. \A s \in Snapshots : Len(Signals(s)) \in Nat /\ Len(Signals(s)) <= 3
    BY SignalsType
  <2>2. PICK s \in Snapshots : TRUE
    BY PipelineAssumption
  <2>3. Len(Signals(s)) \in L
    OBVIOUS
  <2> QED
    BY <2>1, <2>3
<1> HIDE DEF L
<1>2. \E x \in L : \A y \in L : x >= y
  <2>1. CASE 3 \in L
    BY <1>1, <2>1
  <2>2. CASE 3 \notin L /\ 2 \in L
    BY <1>1, <2>2
  <2>3. CASE 3 \notin L /\ 2 \notin L /\ 1 \in L
    BY <1>1, <2>3
  <2>4. CASE 3 \notin L /\ 2 \notin L /\ 1 \notin L
    <3>1. \A y \in L : y = 0
      BY <1>1, <2>4
    <3> QED
      BY <1>1, <3>1
  <2> QED
    BY <2>1, <2>2, <2>3, <2>4
<1>3. Max(L) \in L /\ \A y \in L : Max(L) >= y
  BY <1>2 DEF Max
<1>4. MostSignals = Max(L)
  BY DEF MostSignals, L
<1>5. \A s \in Snapshots : Len(Signals(s)) \in L
  BY DEF L
<1>6. MostSignals \in Nat
  BY <1>1, <1>3, <1>4
<1> QED
  <2> SUFFICES ASSUME NEW s \in Snapshots PROVE Len(Signals(s)) <= MostSignals
    BY <1>6
  <2>1. Len(Signals(s)) \in L
    BY <1>5
  <2>2. MostSignals >= Len(Signals(s)) /\ Len(Signals(s)) \in Nat
    BY <1>1, <1>3, <1>4, <2>1
  <2> QED
    BY <1>6, <2>2

\* The score is a number, and the review of the critic never raises it.
LEMMA ScoreType ==
  ASSUME NEW signal, NEW review
  PROVE  RawScore(signal) \in Nat /\ Score(signal, review) \in Nat
         /\ Score(signal, review) <= RawScore(signal)
<1>1. RawScore(signal) \in Nat
  BY DEF RawScore
<1> QED
  BY <1>1 DEF Score

\* The approved quantity of a signal that carries a risk is a number.
LEMMA QuantityType ==
  ASSUME NEW signal, StopDistance(signal) \in Nat \ {0}
  PROVE  ApprovedQuantity(signal) \in Nat
  BY PipelineAssumption DEF ApprovedQuantity

\* A review is a severity or a failure, or there is none.
LEMMA ReviewTypes ==
  ASSUME NEW s, NEW signal
  PROVE  /\ Reviews(CriticSeverity(s, signal)) \subseteq {"LOW", "MEDIUM", "HIGH", "FAILED", "NONE"}
         /\ Reviews(AuditSeverity(signal)) \subseteq {"LOW", "HIGH", "FAILED", "NONE"}
         /\ Reviews("LOW") \subseteq {"LOW", "FAILED", "NONE"}
  BY DEF Reviews, CriticSeverity, AuditSeverity

(***************************************************************************)
(* What a step of a thread does to the rest.                               *)
(***************************************************************************)
\* The snapshots are the same in every state, and so is the largest number of signals.
LEMMA MostSignalsFixed == MostSignals' = MostSignals
  BY DEF MostSignals

\* The fields of a journal row.
LEMMA RowFields ==
  ASSUME NEW t, NEW event, NEW signal, NEW score, NEW quantity
  PROVE  LET r == Row(t, event, signal, score, quantity)
         IN /\ r.call = call[t].id /\ r.process = RunsIn[t] /\ r.event = event
            /\ r.signal = signal /\ r.score = score /\ r.quantity = quantity
  BY DEF Row

\* A journal row has its type when its parts have.
LEMMA RowType ==
  ASSUME NEW t \in Threads, call[t] \in Call, NEW event \in Events,
         NEW signal \in Signal \cup {None}, NEW score \in Nat, NEW quantity \in Nat
  PROVE  Row(t, event, signal, score, quantity) \in JournalEntry
  BY PipelineAssumption DEF Row, JournalEntry, Call

\* The review that is kept, if there is one.
LEMMA DecisionFields ==
  ASSUME NEW t, NEW agent, NEW signal, NEW review, NEW d \in Decision(t, agent, signal, review)
  PROVE  /\ d.call = call[t].id /\ d.agent = agent /\ d.signal = signal /\ d.review = review
         /\ review # "NONE"
  BY DEF Decision

\* A review that is kept has its type when its parts have.
LEMMA DecisionType ==
  ASSUME NEW t \in Threads, call[t] \in Call, NEW signal \in Signal \cup {None},
         NEW agent \in {"RegimeReviewAgent", "SignalCriticAgent", "RiskAuditorAgent",
                        "ExecutionSimulationAgent"},
         NEW review \in {"LOW", "MEDIUM", "HIGH", "FAILED", "NONE"}
  PROVE  Decision(t, agent, signal, review) \subseteq AgentDecisionRecord
  BY DEF Decision, AgentDecisionRecord, Call

\* An open call, and the signal it is at.
LEMMA OpenCall ==
  ASSUME PipelineInv, NEW t \in Threads, call[t] # None
  PROVE  /\ call[t] \in Call /\ call[t].id \in 1..MaxCalls /\ call[t].todo \in Seq(Signal)
         /\ call[t].open_positions \in Nat
         /\ call[t].pc \in {"SIGNAL", "ORDER", "OPEN"} =>
              /\ Len(call[t].todo) \in Nat \ {0} /\ Head(call[t].todo) = call[t].todo[1]
              /\ Head(call[t].todo) \in Signal /\ Head(call[t].todo) # None
              /\ StopDistance(Head(call[t].todo)) \in Nat \ {0}
              /\ \A i \in 1..Len(call[t].todo) : call[t].todo[i] = Head(call[t].todo) => i = 1
<1>1. call[t] \in Call
  BY DEF PipelineInv, TypeOK
<1>2. /\ call[t].id \in 1..MaxCalls /\ call[t].todo \in Seq(Signal)
      /\ call[t].open_positions \in Nat
  BY <1>1 DEF Call
<1>3. ASSUME call[t].pc \in {"SIGNAL", "ORDER", "OPEN"}
      PROVE  /\ Len(call[t].todo) \in Nat \ {0} /\ Head(call[t].todo) = call[t].todo[1]
             /\ Head(call[t].todo) \in Signal /\ Head(call[t].todo) # None
             /\ StopDistance(Head(call[t].todo)) \in Nat \ {0}
             /\ \A i \in 1..Len(call[t].todo) : call[t].todo[i] = Head(call[t].todo) => i = 1
  <2>1. call[t].todo # << >>
    BY <1>3 DEF PipelineInv, TodoOK
  <2>2. Len(call[t].todo) \in Nat \ {0} /\ Head(call[t].todo) = call[t].todo[1]
    BY <1>2, <2>1, EmptySeq
  <2>3. Head(call[t].todo) \in Signal
    BY <1>2, <2>1, HeadTailProperties
  <2>4. StopDistance(call[t].todo[1]) \in Nat \ {0}
    BY <2>2 DEF PipelineInv, TodoOK
  <2>5. ASSUME NEW i \in 1..Len(call[t].todo), i # 1 PROVE call[t].todo[i] # call[t].todo[1]
    <3>1. 1 \in 1..Len(call[t].todo)
      BY <2>2
    <3> QED
      BY <2>5, <3>1 DEF PipelineInv, TodoOK
  <2> QED
    BY <2>2, <2>3, <2>4, <2>5, PipelineAssumption
<1> QED
  BY <1>1, <1>2, <1>3

\* A call that goes on to the next signal is over, or is left with the rest of them.
LEMMA NextSignal ==
  ASSUME PipelineInv, NEW t \in Threads, call[t] # None, Continue(t),
         call[t].pc \in {"SIGNAL", "ORDER", "OPEN"}
  PROVE  \/ call'[t] = None
         \/ /\ call'[t] \in Call /\ call'[t].id = call[t].id /\ call'[t].pc = "SIGNAL"
            /\ call'[t].open_positions = call[t].open_positions
            /\ Len(call'[t].todo) = Len(call[t].todo) - 1 /\ Len(call[t].todo) > 1
            /\ call'[t].todo # << >>
            /\ \A i \in 1..Len(call'[t].todo) : call'[t].todo[i] = call[t].todo[i + 1]
<1> DEFINE c == [call[t] EXCEPT !.pc = "SIGNAL", !.todo = Tail(call[t].todo)]
<1>1. call'[t] = IF Len(call[t].todo) = 1 THEN None ELSE c
  BY DEF Continue, PipelineInv, IdsOK
<1>2. /\ call[t] \in Call /\ call[t].todo \in Seq(Signal) /\ Len(call[t].todo) \in Nat \ {0}
  BY OpenCall
<1>3. /\ Tail(call[t].todo) \in Seq(Signal)
      /\ Len(Tail(call[t].todo)) = Len(call[t].todo) - 1
      /\ \A i \in 1..Len(Tail(call[t].todo)) : Tail(call[t].todo)[i] = call[t].todo[i + 1]
  BY <1>2, HeadTailProperties
<1>3a. Len(call[t].todo) > 1 => Tail(call[t].todo) # << >>
  BY <1>2, <1>3
<1>4. /\ c \in Call /\ c.id = call[t].id /\ c.pc = "SIGNAL"
      /\ c.open_positions = call[t].open_positions /\ c.todo = Tail(call[t].todo)
  BY <1>2, <1>3 DEF Call
<1> HIDE DEF c
<1>5. CASE Len(call[t].todo) = 1
  BY <1>1, <1>5
<1>6. CASE Len(call[t].todo) # 1
  <2>1. call'[t] = c
    BY <1>1, <1>6
  <2>2. Len(call[t].todo) > 1
    <3>1. PICK n \in Nat \ {0} : n = Len(call[t].todo)
      BY <1>2
    <3>2. n # 1
      BY <1>6, <3>1
    <3>3. n > 1
      BY <3>2
    <3> QED
      BY <3>1, <3>3
  <2> QED
    BY <1>3, <1>3a, <1>4, <2>1, <2>2
<1> QED
  BY <1>5, <1>6

\* A step of a thread changes no call but its own, and what it records carries its id.
LEMMA StepFrame ==
  ASSUME PipelineInv, NEW t \in Threads, Step(t)
  PROVE  /\ call[t] # None /\ DOMAIN call' = Threads /\ DOMAIN positions' = Processes
         /\ \A u \in Threads : u # t => call'[u] = call[u]
         /\ calls' = calls /\ starts' = starts
         /\ journal \subseteq journal' /\ \A r \in journal' \ journal : r.call = call[t].id
         /\ decisions \subseteq decisions'
         /\ \A d \in decisions' \ decisions : d.call = call[t].id
<1> USE DEF PipelineInv, IdsOK
<1>1. call[t] # None
  BY ZenonT(60) DEF Step, EvaluateKillSwitch, DataOrUniverseBlock, AgenticRegimeBlock, Screened,
     SignalRejected, SignalBlocked, SignalAccepted, SimulateOrder, OpenPosition, Fails, At
<1>2. DOMAIN call' = Threads /\ \A u \in Threads : u # t => call'[u] = call[u]
  BY ZenonT(60) DEF Step, EvaluateKillSwitch, DataOrUniverseBlock, AgenticRegimeBlock, Screened,
     SignalRejected, SignalBlocked, SignalAccepted, SimulateOrder, OpenPosition, Fails,
     Returns, Goto, Continue
<1>3. calls' = calls /\ starts' = starts /\ DOMAIN positions' = Processes
  BY ZenonT(60) DEF Step, EvaluateKillSwitch, DataOrUniverseBlock, AgenticRegimeBlock, Screened,
     SignalRejected, SignalBlocked, SignalAccepted, SimulateOrder, OpenPosition, Fails
<1>4. \/ journal' = journal
      \/ \E event, signal, score, quantity :
           journal' = journal \cup {Row(t, event, signal, score, quantity)}
  BY ZenonT(60) DEF Step, EvaluateKillSwitch, DataOrUniverseBlock, AgenticRegimeBlock, Screened,
     SignalRejected, SignalBlocked, SignalAccepted, SimulateOrder, OpenPosition, Fails, Record
<1>5. journal \subseteq journal' /\ \A r \in journal' \ journal : r.call = call[t].id
  BY <1>4, RowFields
<1>6. \/ decisions' = decisions
      \/ \E agent, signal, review :
           decisions' = decisions \cup Decision(t, agent, signal, review)
      \/ \E agent, signal, review, agent2, review2 :
           decisions' = decisions \cup (Decision(t, agent, signal, review)
                                        \cup Decision(t, agent2, signal, review2))
  BY DEF Step, EvaluateKillSwitch, DataOrUniverseBlock, AgenticRegimeBlock, Screened,
     SignalRejected, SignalBlocked, SignalAccepted, SimulateOrder, OpenPosition, Fails, Decided
<1>7. \A agent, signal, review : \A d \in Decision(t, agent, signal, review) : d.call = call[t].id
  BY DecisionFields
<1>8. decisions \subseteq decisions' /\ \A d \in decisions' \ decisions : d.call = call[t].id
  BY <1>6, <1>7
<1> QED
  BY <1>1, <1>2, <1>3, <1>5, <1>8, SMTT(60)

\* The call that a step leaves its thread with, if it leaves one, is the same call.
LEMMA StepKeepsId ==
  ASSUME PipelineInv, NEW t \in Threads, Step(t), call'[t] # None
  PROVE  call'[t].id = call[t].id
<1>1. call[t] # None /\ call[t] \in Call /\ DOMAIN call = Threads
  BY StepFrame, OpenCall DEF PipelineInv, IdsOK
<1>2. CASE EvaluateKillSwitch(t) \/ Screened(t) \/ SimulateOrder(t)
  BY <1>1, <1>2 DEF EvaluateKillSwitch, Screened, SimulateOrder, Goto, Returns, Call
<1>3. CASE SignalAccepted(t)
  BY <1>1, <1>3 DEF SignalAccepted, Call
<1>4. CASE SignalRejected(t) \/ SignalBlocked(t) \/ OpenPosition(t)
  <2>1. Continue(t) /\ call[t].pc \in {"SIGNAL", "OPEN"}
    BY <1>4 DEF SignalRejected, SignalBlocked, OpenPosition, At
  <2> QED
    BY <1>1, <2>1, NextSignal
<1>5. CASE DataOrUniverseBlock(t) \/ AgenticRegimeBlock(t) \/ Fails(t)
  BY <1>1, <1>5 DEF DataOrUniverseBlock, AgenticRegimeBlock, Fails, Returns
<1> QED
  BY <1>2, <1>3, <1>4, <1>5 DEF Step

\* The ids of the open calls stay distinct, and nothing is recorded under another.
LEMMA StepKeepsIds ==
  ASSUME PipelineInv, NEW t \in Threads, Step(t)
  PROVE  IdsOK'
  BY StepFrame, StepKeepsId DEF PipelineInv, IdsOK

\* The calls of the other threads find everything as they left it.
LEMMA StepKeepsOthers ==
  ASSUME PipelineInv, NEW t \in Threads, Step(t), NEW u \in Threads, u # t
  PROVE  TodoOK(u)' /\ RowsOK(u)' /\ ReviewsOK(u)'
<1>1. /\ call'[u] = call[u] /\ call[t] # None
      /\ journal \subseteq journal' /\ \A r \in journal' \ journal : r.call = call[t].id
      /\ \A d \in decisions' \ decisions : d.call = call[t].id
  BY StepFrame
<1>2. call[u] # None => call[u].id # call[t].id
  BY <1>1 DEF PipelineInv, IdsOK
<1>3. TodoOK(u)'
  BY <1>1 DEF PipelineInv, TodoOK, MostSignals
<1>4. RowsOK(u)'
  <2> SUFFICES ASSUME call'[u] # None PROVE RowsOK(u)'
    BY DEF RowsOK
  <2>1. RowsOK(u)
    BY DEF PipelineInv
  <2>2. \A r \in journal' : r.call = call[u].id => r \in journal
    BY <1>1, <1>2
  <2>3. \A id, signal, event : Recorded(id, signal, event) \subseteq Recorded(id, signal, event)'
    BY <1>1 DEF Recorded
  <2> QED
    BY <1>1, <2>1, <2>2, <2>3 DEF RowsOK, Written
<1>5. ReviewsOK(u)'
  <2>1. ReviewsOK(u)
    BY DEF PipelineInv
  <2>2. call[u] # None => \A d \in decisions' : d.call = call[u].id => d \in decisions
    BY <1>1, <1>2
  <2> QED
    BY <1>1, <2>1, <2>2 DEF ReviewsOK
<1> QED
  BY <1>3, <1>4, <1>5

(***************************************************************************)
(* What a step of a thread does to its own call and its records.           *)
(***************************************************************************)
\* The parts of the invariant that speak of one thread, and those that speak of the
\* records.
OwnOK(t) == TodoOK(t) /\ RowsOK(t) /\ ReviewsOK(t)

RecordsOK == JournalExplainsPositions /\ AgentsOnlyNarrow

\* A call that is over leaves nothing to say of it.
LEMMA OverIsOK ==
  ASSUME NEW t, call'[t] = None
  PROVE  OwnOK(t)'
  BY DEF OwnOK, TodoOK, RowsOK, ReviewsOK

\* Where nothing is recorded and no position opened, the records stay explained.
LEMMA RecordsUnchanged ==
  ASSUME PipelineInv, UNCHANGED <<positions, journal, decisions>>
  PROVE  RecordsOK'
  BY DEF PipelineInv, RecordsOK, JournalExplainsPositions, AgentsOnlyNarrow, Recorded

\* A row that accepts and fills nothing, of a signal of which there is no row yet,
\* and reviews of that signal or of none.
LEMMA RecordsGrow ==
  ASSUME PipelineInv, positions' = positions, journal \subseteq journal',
         \A new \in journal' \ journal :
           /\ new.event \notin {"SIGNAL_ACCEPTED", "SHADOW_ORDER_FILLED"}
           /\ \A r \in journal : r.call = new.call => r.signal # new.signal,
         \A d \in decisions' \ decisions : \A r \in journal :
           r.call = d.call => r.signal # d.signal /\ (d.signal = None => ~Blocks(d.review))
  PROVE  RecordsOK'
<1>1. \A id, signal :
        /\ Recorded(id, signal, "SHADOW_ORDER_FILLED")' = Recorded(id, signal, "SHADOW_ORDER_FILLED")
        /\ Recorded(id, signal, "SIGNAL_ACCEPTED")' = Recorded(id, signal, "SIGNAL_ACCEPTED")
  BY DEF Recorded
<1>2. \A r \in journal' : r.event \in {"SIGNAL_ACCEPTED", "SHADOW_ORDER_FILLED"} => r \in journal
  OBVIOUS
<1>3. ASSUME NEW r \in journal, Recorded(r.call, r.signal, "SIGNAL_REJECTED") = {}
      PROVE  Recorded(r.call, r.signal, "SIGNAL_REJECTED")' = {}
  BY <1>3 DEF Recorded
<1>4. JournalExplainsPositions'
  <2>1. ASSUME NEW p \in Processes, NEW q \in positions'[p]
        PROVE  \E r \in Recorded(q.call, q.signal, "SHADOW_ORDER_FILLED")' :
                 r.process = p /\ r.quantity = q.quantity
    BY <1>1 DEF PipelineInv, JournalExplainsPositions
  <2>2. ASSUME NEW r \in journal', r.event = "SHADOW_ORDER_FILLED"
        PROVE  /\ \E a \in Recorded(r.call, r.signal, "SIGNAL_ACCEPTED")' : a.quantity = r.quantity
               /\ Recorded(r.call, r.signal, "SIGNAL_REJECTED")' = {}
    BY <1>1, <1>2, <1>3, <2>2 DEF PipelineInv, JournalExplainsPositions
  <2> QED
    BY <2>1, <2>2 DEF JournalExplainsPositions
<1>5. AgentsOnlyNarrow'
  <2> SUFFICES ASSUME NEW r \in journal, r.event = "SIGNAL_ACCEPTED", NEW d \in decisions',
                      d.call = r.call, d.signal \in {r.signal, None},
                      d.agent # "ExecutionSimulationAgent"
               PROVE  ~Blocks(d.review)
    BY <1>2 DEF PipelineInv, AgentsOnlyNarrow
  <2> QED
    BY DEF PipelineInv, AgentsOnlyNarrow
<1> QED
  BY <1>4, <1>5 DEF RecordsOK

\* The kill switch is evaluated, and nothing recorded.
LEMMA EvaluateKillSwitchOK ==
  ASSUME PipelineInv, NEW t \in Threads, EvaluateKillSwitch(t)
  PROVE  OwnOK(t)' /\ RecordsOK' /\ TypeOK'
<1> DEFINE now == call[t].triggered \/ ~DataOk(call[t].snapshot)
<1>1. call[t] # None /\ call[t].pc = "KILL_SWITCH" /\ DOMAIN call = Threads
  BY DEF EvaluateKillSwitch, At, PipelineInv, IdsOK
<1>2. call[t] \in Call
  BY <1>1, OpenCall
<1>3. now \in BOOLEAN
  BY <1>2 DEF Call
<1>4. /\ call' = [call EXCEPT ![t].pc = "SCREEN", ![t].triggered = now]
      /\ triggered' = [triggered EXCEPT ![RunsIn[t]] = now]
      /\ UNCHANGED <<positions, journal, decisions, calls, starts>>
  BY DEF EvaluateKillSwitch
<1> HIDE DEF now
<1>5. call'[t] = [[call[t] EXCEPT !.pc = "SCREEN"] EXCEPT !.triggered = now]
  BY <1>1, <1>4
<1>6. /\ call'[t] \in Call /\ call'[t].pc = "SCREEN" /\ call'[t].todo = call[t].todo
      /\ call'[t].id = call[t].id
  BY <1>2, <1>3, <1>5 DEF Call
<1>7. TypeOK'
  <2>1. \A u \in Threads : call'[u] = None \/ call'[u] \in Call
    BY <1>1, <1>4, <1>6 DEF PipelineInv, TypeOK
  <2> QED
    BY <1>3, <1>4, <2>1 DEF PipelineInv, TypeOK
<1>8. OwnOK(t)
  BY DEF PipelineInv, OwnOK
<1>9. OwnOK(t)'
  BY <1>1, <1>4, <1>6, <1>8, MostSignalsFixed DEF OwnOK, TodoOK, RowsOK, ReviewsOK
<1> QED
  BY <1>4, <1>7, <1>9, RecordsUnchanged

\* The call ends before its first signal.
LEMMA BlockedOK ==
  ASSUME PipelineInv, NEW t \in Threads,
         DataOrUniverseBlock(t) \/ AgenticRegimeBlock(t) \/ Fails(t) \/ (Screened(t) /\ Returns(t))
  PROVE  OwnOK(t)' /\ RecordsOK' /\ TypeOK'
<1>1. call[t] # None /\ DOMAIN call = Threads
  BY DEF DataOrUniverseBlock, AgenticRegimeBlock, Fails, Screened, At, PipelineInv, IdsOK
<1>2. call[t] \in Call
  BY <1>1, OpenCall
<1>3. Returns(t) /\ UNCHANGED <<triggered, positions, calls, starts>>
  BY DEF DataOrUniverseBlock, AgenticRegimeBlock, Fails, Screened
<1>4. call'[t] = None /\ \A u \in Threads : call'[u] = None \/ call'[u] = call[u]
  BY <1>1, <1>3 DEF Returns
<1>5. \/ journal' = journal
      \/ /\ call[t].pc = "SCREEN"
         /\ \E event \in {"DATA_OR_UNIVERSE_BLOCK", "AGENTIC_REGIME_BLOCK"} :
              journal' = journal \cup {Row(t, event, None, 0, 0)}
  BY DEF DataOrUniverseBlock, AgenticRegimeBlock, Fails, Screened, At, Record
<1>6. \/ decisions' = decisions
      \/ /\ call[t].pc = "SCREEN"
         /\ \E review \in Reviews("LOW") :
              decisions' = decisions \cup Decision(t, "RegimeReviewAgent", None, review)
  BY DEF DataOrUniverseBlock, AgenticRegimeBlock, Fails, Screened, At, Decided
<1>7. TypeOK'
  <2>1. journal' \subseteq JournalEntry
    <3>1. \A event \in {"DATA_OR_UNIVERSE_BLOCK", "AGENTIC_REGIME_BLOCK"} :
            Row(t, event, None, 0, 0) \in JournalEntry
      BY <1>2, RowType DEF Events
    <3> QED
      BY <1>5, <3>1 DEF PipelineInv, TypeOK
  <2>2. decisions' \subseteq AgentDecisionRecord
    <3>1. ASSUME NEW review \in Reviews("LOW")
          PROVE  Decision(t, "RegimeReviewAgent", None, review) \subseteq AgentDecisionRecord
      BY <1>2, ReviewTypes, DecisionType
    <3> QED
      BY <1>6, <3>1 DEF PipelineInv, TypeOK
  <2> QED
    BY <1>3, <1>4, <2>1, <2>2 DEF PipelineInv, TypeOK
<1>8. RecordsOK'
  <2>1. CASE UNCHANGED <<journal, decisions>>
    BY <1>3, <2>1, RecordsUnchanged
  <2>2. CASE call[t].pc = "SCREEN"
    <3>1. \A r \in journal : r.call # call[t].id
      BY <1>1, <2>2 DEF PipelineInv, RowsOK
    <3>2. /\ journal \subseteq journal'
          /\ \A r \in journal' \ journal :
               r.call = call[t].id /\ r.event \in {"DATA_OR_UNIVERSE_BLOCK", "AGENTIC_REGIME_BLOCK"}
      BY <1>5, RowFields
    <3>3. \A d \in decisions' \ decisions : d.call = call[t].id
      BY <1>6, DecisionFields
    <3> QED
      BY <1>3, <3>1, <3>2, <3>3, RecordsGrow
  <2> QED
    BY <1>5, <1>6, <2>1, <2>2
<1> QED
  BY <1>4, <1>7, <1>8, OverIsOK

\* The call gets to its first signal with a regime review that does not block.
LEMMA ScreenedOK ==
  ASSUME PipelineInv, NEW t \in Threads, Screened(t)
  PROVE  OwnOK(t)' /\ RecordsOK' /\ TypeOK'
<1>1. CASE Returns(t)
  BY <1>1, BlockedOK
<1>2. CASE ~Returns(t)
  <2>1. call[t] # None /\ call[t].pc = "SCREEN" /\ DOMAIN call = Threads
    BY DEF Screened, At, PipelineInv, IdsOK
  <2>2. call[t] \in Call
    BY <2>1, OpenCall
  <2>3. /\ call[t].todo # << >> /\ call' = [call EXCEPT ![t].pc = "SIGNAL"]
        /\ UNCHANGED <<triggered, positions, journal, calls, starts>>
    BY <1>2 DEF Screened, Goto
  <2>4. PICK review \in Reviews("LOW") :
          /\ ~Blocks(review)
          /\ decisions' = decisions \cup Decision(t, "RegimeReviewAgent", None, review)
    BY DEF Screened, Decided
  <2>5. /\ call'[t] \in Call /\ call'[t].pc = "SIGNAL" /\ call'[t].todo = call[t].todo
        /\ call'[t].id = call[t].id
        /\ \A u \in Threads : u # t => call'[u] = call[u]
    BY <2>1, <2>2, <2>3 DEF Call
  <2>6. TypeOK'
    <3>1. decisions' \subseteq AgentDecisionRecord
      BY <2>2, <2>4, ReviewTypes, DecisionType DEF PipelineInv, TypeOK
    <3> QED
      BY <2>3, <2>5, <3>1 DEF PipelineInv, TypeOK
  <2>7. \A d \in Decision(t, "RegimeReviewAgent", None, review) :
          d.call = call[t].id /\ d.signal = None /\ ~Blocks(d.review)
    BY <2>4, DecisionFields
  <2>8. \A r \in journal : r.call # call[t].id
    BY <2>1 DEF PipelineInv, RowsOK
  <2>9. RecordsOK'
    <3>1. journal' = journal /\ \A d \in decisions' \ decisions : d.call = call[t].id
      BY <2>3, <2>4, <2>7
    <3> QED
      BY <2>3, <2>8, <3>1, RecordsGrow
  <2>10. TodoOK(t)' /\ RowsOK(t)'
    BY <2>1, <2>3, <2>5, <2>8, MostSignalsFixed DEF PipelineInv, TodoOK, RowsOK
  <2>11. ReviewsOK(t)'
    <3> SUFFICES ASSUME NEW d \in decisions', d.call = call[t].id
                 PROVE  /\ d.signal = None => ~Blocks(d.review)
                        /\ \A i \in 1..Len(call[t].todo) : d.signal # call[t].todo[i]
      BY <2>5 DEF ReviewsOK
    <3>1. CASE d \in decisions
      BY <2>1, <3>1 DEF PipelineInv, ReviewsOK
    <3>2. CASE d \notin decisions
      <4>1. d.signal = None /\ ~Blocks(d.review)
        BY <2>4, <2>7, <3>2
      <4>2. \A i \in 1..Len(call[t].todo) : call[t].todo[i] \in Signal
        BY <2>2 DEF Call
      <4> QED
        BY <4>1, <4>2, PipelineAssumption
    <3> QED
      BY <3>1, <3>2
  <2> QED
    BY <2>6, <2>9, <2>10, <2>11 DEF OwnOK
<1> QED
  BY <1>1, <1>2

\* A signal is rejected: the call goes on to the next one.
LEMMA RejectedOK ==
  ASSUME PipelineInv, NEW t \in Threads, SignalRejected(t) \/ SignalBlocked(t)
  PROVE  OwnOK(t)' /\ RecordsOK' /\ TypeOK'
<1>0. PICK signal, id : signal = Head(call[t].todo) /\ id = call[t].id
  OBVIOUS
<1>1. /\ call[t] # None /\ call[t].pc = "SIGNAL" /\ DOMAIN call = Threads
      /\ Continue(t) /\ UNCHANGED <<triggered, positions, calls, starts>>
  BY DEF SignalRejected, SignalBlocked, At, PipelineInv, IdsOK
<1>2. /\ call[t] \in Call /\ call[t].todo \in Seq(Signal) /\ Len(call[t].todo) \in Nat \ {0}
      /\ signal = call[t].todo[1] /\ signal \in Signal /\ signal # None
      /\ \A i \in 1..Len(call[t].todo) : signal = call[t].todo[i] => i = 1
  BY <1>0, <1>1, OpenCall
<1>3. PICK score \in Nat : journal' = journal \cup {Row(t, "SIGNAL_REJECTED", signal, score, 0)}
  BY <1>0, ScoreType DEF SignalRejected, SignalBlocked, Record
<1>4. PICK critic \in Critics(t), audit \in Audits(t) :
        decisions' \in {decisions \cup Decision(t, "SignalCriticAgent", signal, critic),
                        decisions \cup (Decision(t, "SignalCriticAgent", signal, critic)
                                        \cup Decision(t, "RiskAuditorAgent", signal, audit))}
  <2>1. Audits(t) # {}
    BY DEF Audits, Reviews
  <2> QED
    BY <1>0, <2>1 DEF SignalRejected, SignalBlocked, Decided
<1>5. PICK new :
        /\ decisions' = decisions \cup new /\ new \subseteq AgentDecisionRecord
        /\ \A d \in new : d.call = call[t].id /\ d.signal = signal
  <2>1. Decision(t, "SignalCriticAgent", signal, critic) \subseteq AgentDecisionRecord
    BY <1>0, <1>2, ReviewTypes, DecisionType DEF Critics
  <2>2. Decision(t, "RiskAuditorAgent", signal, audit) \subseteq AgentDecisionRecord
    BY <1>0, <1>2, ReviewTypes, DecisionType DEF Audits
  <2>3. \A agent, review : \A d \in Decision(t, agent, signal, review) :
          d.call = call[t].id /\ d.signal = signal
    BY DecisionFields
  <2>4. PICK new : /\ decisions' = decisions \cup new
                   /\ new \in {Decision(t, "SignalCriticAgent", signal, critic),
                               Decision(t, "SignalCriticAgent", signal, critic)
                                 \cup Decision(t, "RiskAuditorAgent", signal, audit)}
    BY <1>4
  <2>5. new \subseteq AgentDecisionRecord
    BY <2>1, <2>2, <2>4
  <2>6. \A d \in new : d.call = call[t].id /\ d.signal = signal
    BY <2>3, <2>4
  <2> QED
    BY <2>4, <2>5, <2>6
<1>5a. PICK row : row = Row(t, "SIGNAL_REJECTED", signal, score, 0)
  OBVIOUS
<1>6. /\ row.call = call[t].id /\ row.event = "SIGNAL_REJECTED" /\ row.signal = signal
      /\ row \in JournalEntry
  <2>1. row \in JournalEntry
    BY <1>2, <1>5a, RowType DEF Events
  <2> QED
    BY <1>0, <1>5a, <2>1, RowFields
<1>7. journal' = journal \cup {row}
  BY <1>3, <1>5a
<1>8. /\ \A r \in journal : r.call = call[t].id => r.signal # signal
      /\ \A d \in decisions : d.call = call[t].id => d.signal # signal
  BY <1>1, <1>2 DEF PipelineInv, RowsOK, ReviewsOK, Written
<1>9. RecordsOK'
  <2>1. /\ \A r \in journal' \ journal : /\ r.call = call[t].id /\ r.signal = signal
                                        /\ r.event = "SIGNAL_REJECTED"
        /\ \A d \in decisions' \ decisions : d.call = call[t].id /\ d.signal = signal
    BY <1>5, <1>6, <1>7
  <2> QED
    BY <1>1, <1>2, <1>7, <1>8, <2>1, RecordsGrow
<1>10. \/ call'[t] = None
       \/ /\ call'[t] \in Call /\ call'[t].id = call[t].id /\ call'[t].pc = "SIGNAL"
          /\ Len(call'[t].todo) = Len(call[t].todo) - 1 /\ Len(call[t].todo) > 1
          /\ call'[t].todo # << >>
          /\ \A i \in 1..Len(call'[t].todo) : call'[t].todo[i] = call[t].todo[i + 1]
  BY <1>1, NextSignal
<1>11. TypeOK'
  <2>1. \A u \in Threads : u # t => call'[u] = call[u]
    BY <1>1 DEF Continue
  <2> QED
    BY <1>1, <1>5, <1>6, <1>7, <1>10, <2>1 DEF PipelineInv, TypeOK
<1>12. ASSUME call'[t] # None PROVE OwnOK(t)'
  <2>1. /\ call'[t].id = call[t].id /\ call'[t].pc = "SIGNAL"
        /\ Len(call'[t].todo) = Len(call[t].todo) - 1 /\ Len(call[t].todo) > 1
        /\ call'[t].todo # << >>
        /\ \A i \in 1..Len(call'[t].todo) : call'[t].todo[i] = call[t].todo[i + 1]
    BY <1>10, <1>12
  <2>2. TodoOK(t)'
    <3>1. TodoOK(t) /\ MostSignals \in Nat
      BY MostSignalsIsMost DEF PipelineInv
    <3>2. Len(call'[t].todo) \in Nat \ {0} /\ Len(call'[t].todo) < Len(call[t].todo)
      BY <1>2, <2>1
    <3>3. Len(call'[t].todo) <= MostSignals
      BY <1>1, <1>2, <3>1, <3>2 DEF TodoOK
    <3>4. \A i \in 1..Len(call'[t].todo) :
            i + 1 \in 1..Len(call[t].todo) /\ call'[t].todo[i] = call[t].todo[i + 1]
      BY <1>2, <2>1
    <3>5. /\ \A i, j \in 1..Len(call'[t].todo) : i # j => call'[t].todo[i] # call'[t].todo[j]
          /\ \A i \in 1..Len(call'[t].todo) : StopDistance(call'[t].todo[i]) \in Nat \ {0}
      BY <1>1, <3>1, <3>4 DEF TodoOK
    <3> QED
      BY <2>1, <3>3, <3>5, MostSignalsFixed DEF TodoOK
  <2>3. \A i \in 1..Len(call'[t].todo) : call'[t].todo[i] # signal
    BY <1>1, <1>2, <2>1 DEF PipelineInv, TodoOK
  <2>4. RowsOK(t)'
    <3> SUFFICES ASSUME NEW r \in journal', r.call = call[t].id, NEW i \in 1..Len(call'[t].todo)
                 PROVE  r.signal # call'[t].todo[i]
      BY <2>1 DEF RowsOK
    <3>1. CASE r \in journal
      <4>1. i + 1 \in 1..Len(call[t].todo) /\ i + 1 # 1 /\ call'[t].todo[i] = call[t].todo[i + 1]
        BY <1>2, <2>1, SMTT(60)
      <4> QED
        BY <1>1, <3>1, <4>1 DEF PipelineInv, RowsOK
    <3>2. CASE r \notin journal
      BY <1>6, <1>7, <2>3, <3>2
    <3> QED
      BY <3>1, <3>2
  <2>5. ReviewsOK(t)'
    <3> SUFFICES ASSUME NEW d \in decisions', d.call = call[t].id
                 PROVE  /\ d.signal = None => ~Blocks(d.review)
                        /\ \A i \in 1..Len(call'[t].todo) : d.signal # call'[t].todo[i]
      BY <2>1 DEF ReviewsOK
    <3>1. CASE d \in decisions
      <4>1. d.signal = None => ~Blocks(d.review)
        BY <1>1, <3>1 DEF PipelineInv, ReviewsOK
      <4>2. ASSUME NEW i \in 1..Len(call'[t].todo) PROVE d.signal # call'[t].todo[i]
        <5>1. i + 1 \in 1..Len(call[t].todo) /\ i + 1 # 1 /\ call'[t].todo[i] = call[t].todo[i + 1]
          BY <1>2, <2>1
        <5> QED
          BY <1>1, <3>1, <5>1 DEF PipelineInv, ReviewsOK
      <4> QED
        BY <4>1, <4>2
    <3>2. CASE d \notin decisions
      BY <1>2, <1>5, <2>3, <3>2
    <3> QED
      BY <3>1, <3>2
  <2> QED
    BY <2>2, <2>4, <2>5 DEF OwnOK
<1> QED
  BY <1>9, <1>11, <1>12, OverIsOK

\* A signal is accepted with the score and the quantity of the rules.
LEMMA AcceptedOK ==
  ASSUME PipelineInv, NEW t \in Threads, SignalAccepted(t)
  PROVE  OwnOK(t)' /\ RecordsOK' /\ TypeOK'
<1>0. PICK signal, id : signal = Head(call[t].todo) /\ id = call[t].id
  OBVIOUS
<1>1. /\ call[t] # None /\ call[t].pc = "SIGNAL" /\ DOMAIN call = Threads
      /\ UNCHANGED <<triggered, positions, calls, starts>>
  BY DEF SignalAccepted, At, PipelineInv, IdsOK
<1>2. /\ call[t] \in Call /\ call[t].todo \in Seq(Signal) /\ Len(call[t].todo) \in Nat \ {0}
      /\ signal = call[t].todo[1] /\ signal \in Signal /\ signal # None
      /\ \A i \in 1..Len(call[t].todo) : signal = call[t].todo[i] => i = 1
      /\ StopDistance(signal) \in Nat \ {0}
  BY <1>0, <1>1, OpenCall
<1>3. PICK critic \in Critics(t), audit \in Audits(t) :
        /\ Passes(t, signal, critic) /\ ~Blocks(audit)
        /\ decisions' = decisions \cup (Decision(t, "SignalCriticAgent", signal, critic)
                                        \cup Decision(t, "RiskAuditorAgent", signal, audit))
        /\ journal' = journal \cup {Row(t, "SIGNAL_ACCEPTED", signal, Score(signal, critic),
                                        ApprovedQuantity(signal))}
        /\ call' = [call EXCEPT ![t] =
               [call[t] EXCEPT !.pc = "ORDER", !.score = Score(signal, critic),
                               !.quantity = ApprovedQuantity(signal)]]
  BY <1>0 DEF SignalAccepted, Record, Decided
<1>3a. PICK quantity, score, row, c, new :
         /\ quantity = ApprovedQuantity(signal) /\ score = Score(signal, critic)
         /\ row = Row(t, "SIGNAL_ACCEPTED", signal, score, quantity)
         /\ c = [call[t] EXCEPT !.pc = "ORDER", !.score = score, !.quantity = quantity]
         /\ new = Decision(t, "SignalCriticAgent", signal, critic)
                  \cup Decision(t, "RiskAuditorAgent", signal, audit)
  OBVIOUS
<1>4. quantity \in Nat /\ quantity > 0 /\ call[t].open_positions < MaxOpenPositions
  BY <1>2, <1>3, <1>3a, QuantityType DEF Passes, Approved
<1>5. score \in Nat /\ score <= RawScore(signal) /\ MinScore <= score
  BY <1>3, <1>3a, ScoreType, PipelineAssumption DEF Passes, Valid
<1>6. AgenticEnabled => quantity * StopDistance(signal) <= HardCap
  <2> SUFFICES ASSUME AgenticEnabled PROVE quantity * StopDistance(signal) <= HardCap
    OBVIOUS
  <2>1. AuditSeverity(signal) = "LOW"
    <3>1. audit \in {AuditSeverity(signal), "FAILED"} /\ audit \notin {"HIGH", "FAILED"}
      BY <1>0, <1>3 DEF Audits, Reviews, Blocks
    <3>2. AuditSeverity(signal) # "HIGH"
      BY <3>1
    <3> QED
      BY <3>2 DEF AuditSeverity
  <2>2. ~(quantity * StopDistance(signal) > HardCap)
    BY <1>3a, <2>1 DEF AuditSeverity
  <2>3. quantity * StopDistance(signal) \in Nat /\ HardCap \in Nat
    BY <1>2, <1>4, PipelineAssumption
  <2> QED
    BY <2>2, <2>3
<1>7. /\ row.call = call[t].id /\ row.event = "SIGNAL_ACCEPTED" /\ row.signal = signal
      /\ row.score = score /\ row.quantity = quantity /\ row \in JournalEntry
  <2>1. row \in JournalEntry
    BY <1>2, <1>3a, <1>4, <1>5, RowType DEF Events
  <2> QED
    BY <1>3a, <2>1, RowFields
<1>8. /\ new \subseteq AgentDecisionRecord
      /\ \A d \in new : d.call = call[t].id /\ d.signal = signal /\ ~Blocks(d.review)
  <2>1. Decision(t, "SignalCriticAgent", signal, critic) \subseteq AgentDecisionRecord
    BY <1>0, <1>2, ReviewTypes, DecisionType DEF Critics
  <2>2. Decision(t, "RiskAuditorAgent", signal, audit) \subseteq AgentDecisionRecord
    BY <1>0, <1>2, ReviewTypes, DecisionType DEF Audits
  <2>3. ~Blocks(critic) /\ ~Blocks(audit)
    BY <1>3 DEF Passes
  <2>4. \A d \in Decision(t, "SignalCriticAgent", signal, critic) :
          d.call = call[t].id /\ d.signal = signal /\ d.review = critic
    BY DecisionFields
  <2>5. \A d \in Decision(t, "RiskAuditorAgent", signal, audit) :
          d.call = call[t].id /\ d.signal = signal /\ d.review = audit
    BY DecisionFields
  <2> QED
    BY <1>3a, <2>1, <2>2, <2>3, <2>4, <2>5
<1>9. /\ c \in Call /\ c.id = call[t].id /\ c.pc = "ORDER" /\ c.todo = call[t].todo
      /\ c.quantity = quantity /\ c.open_positions = call[t].open_positions
  BY <1>2, <1>3a, <1>4, <1>5 DEF Call
<1>10. /\ journal' = journal \cup {row} /\ decisions' = decisions \cup new
       /\ call'[t] = c /\ \A u \in Threads : u # t => call'[u] = call[u]
  BY <1>1, <1>3, <1>3a
<1>11. quantity = ApprovedQuantity(signal)
  BY <1>3a
<1>12. /\ \A r \in journal : r.call = call[t].id => r.signal # signal
       /\ \A d \in decisions : d.call = call[t].id =>
            d.signal # signal /\ (d.signal = None => ~Blocks(d.review))
  BY <1>1, <1>2 DEF PipelineInv, RowsOK, ReviewsOK, Written
<1>13. TypeOK'
  BY <1>1, <1>7, <1>8, <1>9, <1>10 DEF PipelineInv, TypeOK
<1>14. JournalExplainsPositions'
  <2>1. \A k, g, event : Recorded(k, g, event) \subseteq Recorded(k, g, event)'
    BY <1>10 DEF Recorded
  <2>2. \A k, g : Recorded(k, g, "SIGNAL_REJECTED")' = Recorded(k, g, "SIGNAL_REJECTED")
    BY <1>7, <1>10 DEF Recorded
  <2>3. ASSUME NEW p \in Processes, NEW q \in positions'[p]
        PROVE  \E r \in Recorded(q.call, q.signal, "SHADOW_ORDER_FILLED")' :
                 r.process = p /\ r.quantity = q.quantity
    BY <1>1, <2>1 DEF PipelineInv, JournalExplainsPositions
  <2>4. ASSUME NEW r \in journal', r.event = "SHADOW_ORDER_FILLED"
        PROVE  /\ \E a \in Recorded(r.call, r.signal, "SIGNAL_ACCEPTED")' : a.quantity = r.quantity
               /\ Recorded(r.call, r.signal, "SIGNAL_REJECTED")' = {}
    <3>1. r \in journal
      BY <1>7, <1>10, <2>4
    <3> QED
      BY <2>1, <2>2, <2>4, <3>1 DEF PipelineInv, JournalExplainsPositions
  <2> QED
    BY <2>3, <2>4 DEF JournalExplainsPositions
<1>15. AgentsOnlyNarrow'
  <2> SUFFICES ASSUME NEW r \in journal', r.event = "SIGNAL_ACCEPTED"
               PROVE  /\ MinScore <= r.score /\ r.score <= RawScore(r.signal)
                      /\ r.quantity = ApprovedQuantity(r.signal)
                      /\ \A d \in decisions' :
                           /\ d.call = r.call /\ d.signal \in {r.signal, None}
                           /\ d.agent # "ExecutionSimulationAgent"
                           => ~Blocks(d.review)
                      /\ AgenticEnabled => r.quantity * StopDistance(r.signal) <= HardCap
    BY DEF AgentsOnlyNarrow
  <2>1. CASE r \in journal
    <3>1. \A d \in new : d.call = r.call => d.signal \notin {r.signal, None}
      BY <1>2, <1>8, <1>12, <2>1
    <3> QED
      BY <1>10, <2>1, <3>1 DEF PipelineInv, AgentsOnlyNarrow
  <2>2. CASE r \notin journal
    <3>1. r = row
      BY <1>10, <2>2
    <3>2. \A d \in decisions' : d.call = r.call /\ d.signal \in {r.signal, None} => ~Blocks(d.review)
      BY <1>7, <1>8, <1>10, <1>12, <3>1
    <3> QED
      BY <1>5, <1>6, <1>7, <1>11, <3>1, <3>2
  <2> QED
    BY <2>1, <2>2
<1>16. TodoOK(t)'
  <2>1. TodoOK(t) /\ call[t].todo # << >>
    BY <1>1 DEF PipelineInv, TodoOK
  <2> QED
    BY <1>1, <1>4, <1>9, <1>10, <2>1, MostSignalsFixed DEF TodoOK
<1>17. RowsOK(t)'
  <2>1. \A r \in journal : r.call = call[t].id =>
          \A i \in 1..Len(call[t].todo) : r.signal # call[t].todo[i]
    BY <1>1 DEF PipelineInv, RowsOK, Written
  <2>3. row \in Recorded(id, signal, "SIGNAL_ACCEPTED")'
    BY <1>0, <1>7, <1>10 DEF Recorded
  <2>4. /\ call'[t].id = id /\ Head(call'[t].todo) = signal /\ call'[t].pc = "ORDER"
        /\ call'[t].quantity = quantity /\ call'[t].todo = call[t].todo
    BY <1>0, <1>9, <1>10
  <2>5. \A r \in journal' : r.call = id => \A i \in 1..Len(call[t].todo) :
          r.signal = call[t].todo[i] => i = 1 /\ r.event = "SIGNAL_ACCEPTED"
    BY <1>0, <1>2, <1>7, <1>10, <2>1
  <2>6. \E r \in Recorded(call[t].id, Head(call[t].todo), "SIGNAL_ACCEPTED")' :
           r.quantity = call'[t].quantity
    BY <1>7, <2>3, <2>4
  <2> QED
    BY <2>4, <2>5, <2>6 DEF RowsOK, Written
<1>18. ReviewsOK(t)'
  <2>1. \A d \in decisions : d.call = call[t].id =>
          \A i \in 1..Len(call[t].todo) : d.signal # call[t].todo[i]
    BY <1>1 DEF PipelineInv, ReviewsOK
  <2> QED
    BY <1>2, <1>8, <1>9, <1>10, <1>12, <2>1 DEF ReviewsOK
<1> QED
  BY <1>13, <1>14, <1>15, <1>16, <1>17, <1>18 DEF OwnOK, RecordsOK

\* The order of an accepted signal is filled, with the quantity it was accepted with.
LEMMA OrderOK ==
  ASSUME PipelineInv, NEW t \in Threads, SimulateOrder(t)
  PROVE  OwnOK(t)' /\ RecordsOK' /\ TypeOK'
<1>0. PICK signal, id : signal = Head(call[t].todo) /\ id = call[t].id
  OBVIOUS
<1>1. /\ call[t] # None /\ call[t].pc = "ORDER" /\ DOMAIN call = Threads
      /\ UNCHANGED <<triggered, positions, calls, starts>>
      /\ call' = [call EXCEPT ![t].pc = "OPEN"]
      /\ journal' = journal \cup
           {Row(t, "SHADOW_ORDER_FILLED", signal, call[t].score, call[t].quantity)}
  BY <1>0 DEF SimulateOrder, At, Goto, Record, PipelineInv, IdsOK
<1>2. /\ call[t] \in Call /\ call[t].todo \in Seq(Signal) /\ Len(call[t].todo) \in Nat \ {0}
      /\ signal = call[t].todo[1] /\ signal \in Signal /\ signal # None
      /\ \A i \in 1..Len(call[t].todo) : signal = call[t].todo[i] => i = 1
  BY <1>0, <1>1, OpenCall
<1>3. PICK review \in Reviews("LOW") :
        decisions' = decisions \cup Decision(t, "ExecutionSimulationAgent", signal, review)
  BY <1>0 DEF SimulateOrder, Decided
<1>3a. PICK new, row :
         /\ new = Decision(t, "ExecutionSimulationAgent", signal, review)
         /\ row = Row(t, "SHADOW_ORDER_FILLED", signal, call[t].score, call[t].quantity)
  OBVIOUS
<1>4. /\ new \subseteq AgentDecisionRecord
      /\ \A d \in new : /\ d.call = call[t].id /\ d.signal = signal
                        /\ d.agent = "ExecutionSimulationAgent"
  <2>1. new \subseteq AgentDecisionRecord
    BY <1>2, <1>3a, ReviewTypes, DecisionType
  <2> QED
    BY <1>3a, <2>1, DecisionFields
<1>5. /\ row.call = call[t].id /\ row.event = "SHADOW_ORDER_FILLED" /\ row.signal = signal
      /\ row.process = RunsIn[t] /\ row.quantity = call[t].quantity /\ row \in JournalEntry
  <2>1. call[t].score \in Nat /\ call[t].quantity \in Nat
    BY <1>2 DEF Call
  <2> QED
    <3>1. row \in JournalEntry
      BY <1>2, <1>3a, <2>1, RowType DEF Events
    <3> QED
      BY <1>3a, <3>1, RowFields
<1>6. /\ call'[t] \in Call /\ call'[t].id = call[t].id /\ call'[t].pc = "OPEN"
      /\ call'[t].todo = call[t].todo /\ call'[t].quantity = call[t].quantity
      /\ call'[t].open_positions = call[t].open_positions
      /\ \A u \in Threads : u # t => call'[u] = call[u]
  BY <1>1, <1>2 DEF Call
<1>7. call'[t].id = id /\ Head(call'[t].todo) = signal
  BY <1>0, <1>6
<1>8. decisions' = decisions \cup new /\ journal' = journal \cup {row}
  BY <1>1, <1>3, <1>3a
<1>9. /\ \A r \in journal : r.call = call[t].id /\ r.signal = signal => r.event = "SIGNAL_ACCEPTED"
      /\ \E a \in Recorded(id, signal, "SIGNAL_ACCEPTED") : a.quantity = call[t].quantity
  BY <1>0, <1>1, <1>2 DEF PipelineInv, RowsOK, Written
<1>10. \A k, g, event : Recorded(k, g, event) \subseteq Recorded(k, g, event)'
  BY <1>1 DEF Recorded
<1>11. TypeOK'
  BY <1>1, <1>4, <1>5, <1>6, <1>8 DEF PipelineInv, TypeOK
<1>12. JournalExplainsPositions'
  <2>1. \A k, g : Recorded(k, g, "SIGNAL_REJECTED")' = Recorded(k, g, "SIGNAL_REJECTED")
    BY <1>5, <1>8 DEF Recorded
  <2>2. ASSUME NEW p \in Processes, NEW q \in positions'[p]
        PROVE  \E r \in Recorded(q.call, q.signal, "SHADOW_ORDER_FILLED")' :
                 r.process = p /\ r.quantity = q.quantity
    BY <1>1, <1>10 DEF PipelineInv, JournalExplainsPositions
  <2>3. ASSUME NEW r \in journal', r.event = "SHADOW_ORDER_FILLED"
        PROVE  /\ \E a \in Recorded(r.call, r.signal, "SIGNAL_ACCEPTED")' : a.quantity = r.quantity
               /\ Recorded(r.call, r.signal, "SIGNAL_REJECTED")' = {}
    <3>1. CASE r \in journal
      BY <1>10, <2>1, <2>3, <3>1 DEF PipelineInv, JournalExplainsPositions
    <3>2. CASE r \notin journal
      <4>1. r.call = id /\ r.signal = signal /\ r.quantity = call[t].quantity
        BY <1>0, <1>5, <1>8, <3>2
      <4>2. Recorded(id, signal, "SIGNAL_REJECTED") = {}
        BY <1>0, <1>9 DEF Recorded
      <4> QED
        BY <1>9, <1>10, <2>1, <4>1, <4>2
    <3> QED
      BY <3>1, <3>2
  <2> QED
    BY <2>2, <2>3 DEF JournalExplainsPositions
<1>13. AgentsOnlyNarrow'
  <2>1. \A r \in journal' : r.event = "SIGNAL_ACCEPTED" => r \in journal
    BY <1>5, <1>8
  <2>2. \A d \in decisions' : d.agent # "ExecutionSimulationAgent" => d \in decisions
    BY <1>4, <1>8
  <2> QED
    BY <2>1, <2>2 DEF PipelineInv, AgentsOnlyNarrow
<1>14. TodoOK(t)'
  <2>1. TodoOK(t)
    BY DEF PipelineInv
  <2> QED
    BY <1>1, <1>6, <2>1, MostSignalsFixed DEF TodoOK
<1>16. RowsOK(t)'
  <2>1. \A r \in journal : r.call = call[t].id => \A i \in 1..Len(call[t].todo) :
          r.signal = call[t].todo[i] => i = 1 /\ r.event = "SIGNAL_ACCEPTED"
    BY <1>1 DEF PipelineInv, RowsOK, Written
  <2>2. row \in Recorded(id, signal, "SHADOW_ORDER_FILLED")'
    BY <1>0, <1>5, <1>8 DEF Recorded
  <2>3. \E a \in Recorded(id, signal, "SIGNAL_ACCEPTED")' : a.quantity = call[t].quantity
    BY <1>9, <1>10
  <2>4. \A r \in journal' : r.call = call[t].id => \A i \in 1..Len(call[t].todo) :
          r.signal = call[t].todo[i] => i = 1 /\ r.event \in {"SIGNAL_ACCEPTED", "SHADOW_ORDER_FILLED"}
    BY <1>5, <1>2, <1>8, <2>1
  <2>5. \E a \in Recorded(call[t].id, Head(call[t].todo), "SIGNAL_ACCEPTED")' :
           a.quantity = call'[t].quantity
    BY <1>6, <1>7, <2>3
  <2>6. \E r \in Recorded(call[t].id, Head(call[t].todo), "SHADOW_ORDER_FILLED")' :
           r.process = RunsIn[t] /\ r.quantity = call'[t].quantity
    BY <1>5, <1>6, <1>7, <2>2
  <2> QED
    BY <1>6, <2>4, <2>5, <2>6 DEF RowsOK, Written
<1>17. ReviewsOK(t)'
  <2> SUFFICES ASSUME NEW d \in decisions', d.call = call[t].id
               PROVE  /\ d.signal = None => ~Blocks(d.review)
                      /\ \A i \in 1..Len(call[t].todo) : d.signal = call[t].todo[i] =>
                           i = 1 /\ (d.agent # "ExecutionSimulationAgent" => ~Blocks(d.review))
    BY <1>6 DEF ReviewsOK
  <2>1. CASE d \in decisions
    BY <1>1, <2>1 DEF PipelineInv, ReviewsOK
  <2>2. CASE d \notin decisions
    BY <1>2, <1>4, <1>8, <2>2
  <2> QED
    BY <2>1, <2>2
<1> QED
  BY <1>11, <1>12, <1>13, <1>14, <1>16, <1>17 DEF OwnOK, RecordsOK

\* A position is opened for the order the call has just filled.
LEMMA PositionOK ==
  ASSUME PipelineInv, NEW t \in Threads, OpenPosition(t)
  PROVE  OwnOK(t)' /\ RecordsOK' /\ TypeOK'
<1>0. PICK signal, id : signal = Head(call[t].todo) /\ id = call[t].id
  OBVIOUS
<1>1. /\ call[t] # None /\ call[t].pc = "OPEN" /\ DOMAIN call = Threads
      /\ UNCHANGED <<triggered, journal, decisions, calls, starts>> /\ Continue(t)
      /\ positions' = [positions EXCEPT ![RunsIn[t]] = @ \cup {Position(t)}]
      /\ DOMAIN positions = Processes /\ RunsIn[t] \in Processes
  BY PipelineAssumption DEF OpenPosition, At, PipelineInv, IdsOK
<1>2. /\ call[t] \in Call /\ call[t].todo \in Seq(Signal) /\ Len(call[t].todo) \in Nat \ {0}
      /\ signal = call[t].todo[1] /\ signal \in Signal /\ signal # None
      /\ \A i \in 1..Len(call[t].todo) : signal = call[t].todo[i] => i = 1
  BY <1>0, <1>1, OpenCall
<1>3. /\ Position(t).call = call[t].id /\ Position(t).signal = signal
      /\ Position(t).quantity = call[t].quantity
  BY <1>0 DEF Position
<1>4. Position(t) \in VirtualPosition
  <2>1. Fill(signal) \in Int
    <3>1. signal.entry_price \in Nat /\ Slippage \in Nat
      BY <1>2, PipelineAssumption DEF Signal
    <3> QED
      BY <3>1 DEF Fill
  <2>2. call[t].quantity \in Nat \ {0}
    BY <1>1, <1>2 DEF PipelineInv, TodoOK, Call
  <2> QED
    BY <1>0, <1>2, <2>1, <2>2 DEF Position, VirtualPosition, Call
<1>5. \/ call'[t] = None
      \/ /\ call'[t] \in Call /\ call'[t].id = call[t].id /\ call'[t].pc = "SIGNAL"
         /\ Len(call'[t].todo) = Len(call[t].todo) - 1 /\ Len(call[t].todo) > 1
         /\ call'[t].todo # << >>
         /\ \A i \in 1..Len(call'[t].todo) : call'[t].todo[i] = call[t].todo[i + 1]
  BY <1>1, NextSignal
<1>6. TypeOK'
  <2>1. \A u \in Threads : u # t => call'[u] = call[u]
    BY <1>1 DEF Continue
  <2>2. \A p \in Processes : positions'[p] \subseteq positions[p] \cup {Position(t)}
    BY <1>1
  <2>3. \A p \in Processes : positions'[p] \subseteq VirtualPosition
    BY <1>4, <2>2 DEF PipelineInv, TypeOK
  <2> QED
    BY <1>1, <1>5, <2>1, <2>3 DEF PipelineInv, TypeOK
<1>7. JournalExplainsPositions'
  <2>1. \A k, g, event : Recorded(k, g, event)' = Recorded(k, g, event)
    BY <1>1 DEF Recorded
  <2>2. ASSUME NEW p \in Processes, NEW q \in positions'[p]
        PROVE  \E r \in Recorded(q.call, q.signal, "SHADOW_ORDER_FILLED") :
                 r.process = p /\ r.quantity = q.quantity
    <3>1. CASE q \in positions[p]
      BY <3>1 DEF PipelineInv, JournalExplainsPositions
    <3>2. CASE q \notin positions[p]
      <4>1. q = Position(t) /\ p = RunsIn[t]
        BY <1>1, <3>2
      <4>2. \E r \in Recorded(call[t].id, signal, "SHADOW_ORDER_FILLED") :
              r.process = RunsIn[t] /\ r.quantity = call[t].quantity
        BY <1>0, <1>1 DEF PipelineInv, RowsOK
      <4> QED
        BY <1>3, <4>1, <4>2
    <3> QED
      BY <3>1, <3>2
  <2> QED
    BY <1>1, <2>1, <2>2 DEF PipelineInv, JournalExplainsPositions
<1>8. AgentsOnlyNarrow'
  BY <1>1 DEF PipelineInv, AgentsOnlyNarrow
<1>9. ASSUME call'[t] # None PROVE OwnOK(t)'
  <2>1. /\ call'[t].id = call[t].id /\ call'[t].pc = "SIGNAL"
        /\ Len(call'[t].todo) = Len(call[t].todo) - 1 /\ Len(call[t].todo) > 1
        /\ call'[t].todo # << >>
        /\ \A i \in 1..Len(call'[t].todo) : call'[t].todo[i] = call[t].todo[i + 1]
    BY <1>5, <1>9
  <2>2. TodoOK(t)'
    <3>1. TodoOK(t) /\ MostSignals \in Nat
      BY MostSignalsIsMost DEF PipelineInv
    <3>2. Len(call'[t].todo) \in Nat \ {0} /\ Len(call'[t].todo) < Len(call[t].todo)
      BY <1>2, <2>1
    <3>3. Len(call'[t].todo) <= MostSignals
      BY <1>1, <1>2, <3>1, <3>2 DEF TodoOK
    <3>4. \A i \in 1..Len(call'[t].todo) :
            i + 1 \in 1..Len(call[t].todo) /\ call'[t].todo[i] = call[t].todo[i + 1]
      BY <1>2, <2>1
    <3>5. /\ \A i, j \in 1..Len(call'[t].todo) : i # j => call'[t].todo[i] # call'[t].todo[j]
          /\ \A i \in 1..Len(call'[t].todo) : StopDistance(call'[t].todo[i]) \in Nat \ {0}
      BY <1>1, <3>1, <3>4 DEF TodoOK
    <3> QED
      BY <2>1, <3>3, <3>5, MostSignalsFixed DEF TodoOK
  <2>3. \A i \in 1..Len(call'[t].todo) :
          i + 1 \in 1..Len(call[t].todo) /\ i + 1 # 1 /\ call'[t].todo[i] = call[t].todo[i + 1]
    BY <1>2, <2>1
  <2>4. RowsOK(t)'
    BY <1>1, <2>1, <2>3 DEF PipelineInv, RowsOK
  <2>5. ReviewsOK(t)'
    BY <1>1, <2>1, <2>3 DEF PipelineInv, ReviewsOK
  <2> QED
    BY <2>2, <2>4, <2>5 DEF OwnOK
<1> QED
  BY <1>6, <1>7, <1>8, <1>9, OverIsOK DEF RecordsOK

(***************************************************************************)
(* The limit on open positions.                                            *)
(***************************************************************************)
\* Where no position is opened or lost, no thread starts anew, and none goes back in
\* its signals, the slots stay as they are.
LEMMA SlotsUnchanged ==
  ASSUME NEW p \in Processes, SlotsOK(p), positions'[p] = positions[p],
         \A t \in ThreadsOf(p) : call'[t] # None =>
           /\ call[t] # None /\ call'[t].open_positions = call[t].open_positions
           /\ call[t].open_positions \in Nat
           /\ Len(call[t].todo) \in Nat /\ Len(call'[t].todo) \in Nat
           /\ Len(call'[t].todo) <= Len(call[t].todo)
  PROVE  SlotsOK(p)'
<1>1. PICK base, slot :
        /\ base \in SUBSET positions[p] /\ slot \in Injection(positions[p] \ base, Slots(p))
        /\ IsFiniteSet(base) /\ Cardinality(base) < MaxOpenPositions
        /\ \A q \in positions[p] \ base : \A t \in ThreadsOf(p) :
             slot[q][1] = t /\ call[t] # None /\ call[t].open_positions < MaxOpenPositions =>
               slot[q][2] > Len(call[t].todo)
  BY DEF SlotsOK
<1>2. Slots(p)' = Slots(p) /\ ThreadsOf(p)' = ThreadsOf(p)
  BY MostSignalsFixed DEF Slots, ThreadsOf
<1>3. \A q \in positions[p] \ base : slot[q][2] \in Nat
  BY <1>1, MostSignalsIsMost DEF Injection, IsInjective, Slots
<1>4. ASSUME NEW q \in positions[p] \ base, NEW t \in ThreadsOf(p), slot[q][1] = t,
             call'[t] # None, call'[t].open_positions < MaxOpenPositions
      PROVE  slot[q][2] > Len(call'[t].todo)
  <2>1. slot[q][2] > Len(call[t].todo)
    BY <1>1, <1>4
  <2>2. /\ Len(call[t].todo) \in Nat /\ Len(call'[t].todo) \in Nat
        /\ Len(call'[t].todo) <= Len(call[t].todo)
    BY <1>4
  <2> QED
    BY <1>3, <2>1, <2>2
<1>5. base \in SUBSET (positions'[p]) /\ slot \in Injection(positions'[p] \ base, Slots(p))
  BY <1>1
<1> QED
  BY <1>1, <1>2, <1>4, <1>5 DEF SlotsOK

\* A position is opened in the slot of the thread and of the signal it is at.
LEMMA OpenPositionKeepsSlots ==
  ASSUME PipelineInv, NEW t \in Threads, OpenPosition(t), NEW p \in Processes
  PROVE  SlotsOK(p)'
<1>1. /\ call[t] # None /\ call[t].pc = "OPEN" /\ DOMAIN call = Threads /\ Continue(t)
      /\ positions' = [positions EXCEPT ![RunsIn[t]] = @ \cup {Position(t)}]
      /\ DOMAIN positions = Processes
  BY DEF OpenPosition, At, PipelineInv, IdsOK
<1>2. /\ call[t].todo \in Seq(Signal) /\ Len(call[t].todo) \in Nat \ {0}
      /\ call[t].open_positions \in Nat /\ call[t].open_positions < MaxOpenPositions
      /\ Len(call[t].todo) <= MostSignals
  BY <1>1, OpenCall DEF PipelineInv, TodoOK
<1>3. \/ call'[t] = None
      \/ /\ call'[t].open_positions = call[t].open_positions
         /\ Len(call'[t].todo) = Len(call[t].todo) - 1 /\ Len(call[t].todo) > 1
  BY <1>1, NextSignal
<1>4. \A u \in Threads : u # t => call'[u] = call[u]
  BY <1>1 DEF Continue
<1>5. \A u \in Threads : call[u] # None =>
        Len(call[u].todo) \in Nat /\ call[u].open_positions \in Nat
  BY OpenCall, LenProperties
<1>6. ASSUME NEW u \in ThreadsOf(p), call'[u] # None
      PROVE  /\ call[u] # None /\ call'[u].open_positions = call[u].open_positions
             /\ call[u].open_positions \in Nat
             /\ Len(call[u].todo) \in Nat /\ Len(call'[u].todo) \in Nat
             /\ Len(call'[u].todo) <= Len(call[u].todo)
             /\ u = t => Len(call'[u].todo) < Len(call[u].todo)
  <2>1. u \in Threads
    BY DEF ThreadsOf
  <2>2. CASE u = t
    BY <1>1, <1>2, <1>3, <1>6, <2>2
  <2>3. CASE u # t
    BY <1>4, <1>5, <1>6, <2>1, <2>3
  <2> QED
    BY <2>2, <2>3
<1>7. SlotsOK(p)
  BY DEF PipelineInv
<1>8. CASE p # RunsIn[t] \/ Position(t) \in positions[p]
  <2>1. positions'[p] = positions[p]
    BY <1>1, <1>8
  <2> QED
    BY <1>6, <1>7, <2>1, SlotsUnchanged
<1>9. CASE p = RunsIn[t] /\ Position(t) \notin positions[p]
  <2>1. PICK base, slot :
          /\ base \in SUBSET positions[p] /\ slot \in Injection(positions[p] \ base, Slots(p))
          /\ IsFiniteSet(base) /\ Cardinality(base) < MaxOpenPositions
          /\ \A q \in positions[p] \ base : \A u \in ThreadsOf(p) :
               slot[q][1] = u /\ call[u] # None /\ call[u].open_positions < MaxOpenPositions =>
                 slot[q][2] > Len(call[u].todo)
    BY <1>7 DEF SlotsOK
  <2>2. PICK new, here : new = Position(t) /\ here = <<t, Len(call[t].todo)>>
    OBVIOUS
  <2>3. t \in ThreadsOf(p) /\ here \in Slots(p)
    BY <1>2, <1>9, <2>2, MostSignalsIsMost DEF ThreadsOf, Slots
  <2>4. positions'[p] = positions[p] \cup {new} /\ new \notin positions[p]
    BY <1>1, <1>9, <2>2
  <2>5. /\ slot \in [positions[p] \ base -> Slots(p)]
        /\ \A a, b \in positions[p] \ base : slot[a] = slot[b] => a = b
    BY <2>1 DEF Injection, IsInjective
  <2>6. \A q \in positions[p] \ base : slot[q] # here
    <3> SUFFICES ASSUME NEW q \in positions[p] \ base, slot[q] = here PROVE FALSE
      OBVIOUS
    <3>1. slot[q][1] = t /\ slot[q][2] = Len(call[t].todo)
      BY <2>2
    <3>2. slot[q][2] > Len(call[t].todo)
      BY <1>1, <1>2, <2>1, <2>3, <3>1
    <3> QED
      BY <1>2, <3>1, <3>2
  <2>7. PICK more : more = [q \in (positions[p] \cup {new}) \ base |->
                              IF q = new THEN here ELSE slot[q]]
    OBVIOUS
  <2>8. (positions[p] \cup {new}) \ base = (positions[p] \ base) \cup {new}
    BY <2>1, <2>4
  <2>9. more \in Injection((positions[p] \cup {new}) \ base, Slots(p))
    <3>1. more \in [(positions[p] \cup {new}) \ base -> Slots(p)]
      BY <2>3, <2>5, <2>7, <2>8
    <3>2. \A a, b \in (positions[p] \cup {new}) \ base : more[a] = more[b] => a = b
      BY <2>4, <2>5, <2>6, <2>7, <2>8
    <3> QED
      BY <3>1, <3>2 DEF Injection, IsInjective
  <2>10. ASSUME NEW q \in (positions[p] \cup {new}) \ base, NEW u \in ThreadsOf(p),
                more[q][1] = u, call'[u] # None, call'[u].open_positions < MaxOpenPositions
         PROVE  more[q][2] > Len(call'[u].todo)
    <3>1. CASE q = new
      <4>1. more[q] = here /\ u = t /\ more[q][2] = Len(call[t].todo)
        BY <2>2, <2>7, <2>10, <3>1
      <4>2. Len(call'[t].todo) < Len(call[t].todo) /\ Len(call'[t].todo) \in Nat
        BY <1>6, <2>10, <4>1
      <4> QED
        BY <1>2, <4>1, <4>2
    <3>2. CASE q # new
      <4>1. more[q] = slot[q] /\ q \in positions[p] \ base
        BY <2>7, <3>2
      <4>2. slot[q][2] > Len(call[u].todo)
        BY <1>6, <2>1, <2>10, <4>1
      <4>3. slot[q][2] \in Nat
        BY <2>5, <4>1, MostSignalsIsMost DEF Slots
      <4>4. /\ Len(call[u].todo) \in Nat /\ Len(call'[u].todo) \in Nat
            /\ Len(call'[u].todo) <= Len(call[u].todo)
        BY <1>6, <2>10
      <4> QED
        BY <4>1, <4>2, <4>3, <4>4
    <3> QED
      BY <3>1, <3>2
  <2>11. Slots(p)' = Slots(p) /\ ThreadsOf(p)' = ThreadsOf(p)
    BY MostSignalsFixed DEF Slots, ThreadsOf
  <2>12. base \in SUBSET (positions'[p])
    BY <2>1, <2>4
  <2> QED
    BY <2>1, <2>4, <2>9, <2>10, <2>11, <2>12 DEF SlotsOK
<1> QED
  BY <1>8, <1>9

\* The other steps of a thread open no position.
LEMMA StepKeepsSlots ==
  ASSUME PipelineInv, NEW t \in Threads, Step(t), NEW p \in Processes
  PROVE  SlotsOK(p)'
<1>1. CASE OpenPosition(t)
  BY <1>1, OpenPositionKeepsSlots
<1>2. CASE ~OpenPosition(t)
  <2>1. positions' = positions
    BY <1>2 DEF Step, EvaluateKillSwitch, DataOrUniverseBlock, AgenticRegimeBlock, Screened,
       SignalRejected, SignalBlocked, SignalAccepted, SimulateOrder, Fails
  <2>2. call[t] # None /\ DOMAIN call = Threads /\ \A u \in Threads : u # t => call'[u] = call[u]
    BY StepFrame DEF PipelineInv, IdsOK
  <2>3. \A u \in Threads : call[u] # None =>
          Len(call[u].todo) \in Nat /\ call[u].open_positions \in Nat
    BY OpenCall, LenProperties
  <2>4. call[t] \in Call
    BY <2>2, OpenCall
  <2>5. ASSUME call'[t] # None
        PROVE  /\ call'[t].open_positions = call[t].open_positions
               /\ Len(call'[t].todo) \in Nat /\ Len(call'[t].todo) <= Len(call[t].todo)
    <3>1. ASSUME call'[t].open_positions = call[t].open_positions, call'[t].todo = call[t].todo
          PROVE  /\ call'[t].open_positions = call[t].open_positions
                 /\ Len(call'[t].todo) \in Nat /\ Len(call'[t].todo) <= Len(call[t].todo)
      BY <2>2, <2>3, <3>1
    <3>2. CASE EvaluateKillSwitch(t) \/ Screened(t) \/ SimulateOrder(t)
      BY <2>2, <2>4, <2>5, <3>1, <3>2
         DEF EvaluateKillSwitch, Screened, SimulateOrder, Goto, Returns, Call
    <3>3. CASE SignalAccepted(t)
      BY <2>2, <2>4, <3>1, <3>3 DEF SignalAccepted, Call
    <3>4. CASE SignalRejected(t) \/ SignalBlocked(t)
      <4>1. Continue(t) /\ call[t].pc = "SIGNAL"
        BY <3>4 DEF SignalRejected, SignalBlocked, At
      <4>2. /\ call'[t].open_positions = call[t].open_positions
            /\ Len(call'[t].todo) = Len(call[t].todo) - 1 /\ Len(call[t].todo) > 1
        BY <2>2, <2>5, <4>1, NextSignal
      <4>3. Len(call[t].todo) \in Nat
        BY <2>2, <2>3
      <4> QED
        BY <4>2, <4>3
    <3>5. CASE DataOrUniverseBlock(t) \/ AgenticRegimeBlock(t) \/ Fails(t)
      BY <2>2, <2>5, <3>5 DEF DataOrUniverseBlock, AgenticRegimeBlock, Fails, Returns
    <3> QED
      BY <1>2, <3>2, <3>3, <3>4, <3>5 DEF Step
  <2>6. SlotsOK(p) /\ ThreadsOf(p) \subseteq Threads
    BY DEF PipelineInv, ThreadsOf
  <2>7. ASSUME NEW u \in ThreadsOf(p), call'[u] # None
        PROVE  /\ call[u] # None /\ call'[u].open_positions = call[u].open_positions
               /\ call[u].open_positions \in Nat
               /\ Len(call[u].todo) \in Nat /\ Len(call'[u].todo) \in Nat
               /\ Len(call'[u].todo) <= Len(call[u].todo)
    <3>1. CASE u = t
      BY <2>2, <2>3, <2>5, <2>7, <3>1
    <3>2. CASE u # t
      BY <2>2, <2>3, <2>6, <2>7, <3>2
    <3> QED
      BY <3>1, <3>2
  <2> QED
    BY <2>1, <2>6, <2>7, SlotsUnchanged, SMTT(60)
<1> QED
  BY <1>1, <1>2

\* A step of a thread keeps the invariant.
LEMMA StepKeepsPipelineInv ==
  ASSUME PipelineInv, NEW t \in Threads, Step(t)
  PROVE  PipelineInv'
<1>1. OwnOK(t)' /\ RecordsOK' /\ TypeOK'
  <2>1. CASE OpenPosition(t)
    BY <2>1, PositionOK
  <2>2. CASE SignalRejected(t) \/ SignalBlocked(t)
    BY <2>2, RejectedOK
  <2> QED
    BY <2>1, <2>2, EvaluateKillSwitchOK, BlockedOK, ScreenedOK, AcceptedOK, OrderOK DEF Step
<1>2. IdsOK'
  BY StepKeepsIds
<1>3. \A u \in Threads : (TodoOK(u) /\ RowsOK(u) /\ ReviewsOK(u))'
  BY <1>1, StepKeepsOthers DEF OwnOK
<1>4. \A p \in Processes : SlotsOK(p)'
  BY StepKeepsSlots
<1> QED
  BY <1>1, <1>2, <1>3, <1>4 DEF PipelineInv, RecordsOK

(***************************************************************************)
(* The other steps, and the theorems.                                      *)
(***************************************************************************)
\* The slots of a process bound its positions.
LEMMA SlotsBound ==
  ASSUME NEW p \in Processes, SlotsOK(p)
  PROVE  /\ IsFiniteSet(positions[p])
         /\ Cardinality(positions[p])
              <= MaxOpenPositions - 1 + Cardinality(ThreadsOf(p)) * MostSignals
<1>1. PICK base, slot :
        /\ base \in SUBSET positions[p] /\ slot \in Injection(positions[p] \ base, Slots(p))
        /\ IsFiniteSet(base) /\ Cardinality(base) < MaxOpenPositions
  BY DEF SlotsOK
<1>2. IsFiniteSet(ThreadsOf(p))
  BY FS_Subset, PipelineAssumption DEF ThreadsOf
<1>3. MostSignals \in Nat
  BY MostSignalsIsMost
<1>4. IsFiniteSet(1..MostSignals) /\ Cardinality(1..MostSignals) = MostSignals
  BY <1>3, FS_Interval
<1>5. /\ IsFiniteSet(Slots(p))
      /\ Cardinality(Slots(p)) = Cardinality(ThreadsOf(p)) * MostSignals
  BY <1>2, <1>4, FS_Product DEF Slots
<1>6. /\ IsFiniteSet(positions[p] \ base)
      /\ Cardinality(positions[p] \ base) <= Cardinality(Slots(p))
  BY <1>1, <1>5, FS_Injection
<1>7. /\ Cardinality(base) \in Nat /\ Cardinality(positions[p] \ base) \in Nat
      /\ Cardinality(Slots(p)) \in Nat
  BY <1>1, <1>5, <1>6, FS_CardinalityType
<1>8. positions[p] = base \cup (positions[p] \ base) /\ base \cap (positions[p] \ base) = {}
  BY <1>1
<1>9. /\ IsFiniteSet(positions[p])
      /\ Cardinality(positions[p]) = Cardinality(base) + Cardinality(positions[p] \ base)
  <2>1. /\ IsFiniteSet(base \cup (positions[p] \ base))
        /\ Cardinality(base \cup (positions[p] \ base))
             = Cardinality(base) + Cardinality(positions[p] \ base)
                 - Cardinality(base \cap (positions[p] \ base))
    BY <1>1, <1>6, FS_Union
  <2>2. Cardinality(base \cap (positions[p] \ base)) = 0
    BY <1>8, FS_EmptySet
  <2>3. Cardinality(base \cup (positions[p] \ base)) = Cardinality(positions[p])
        /\ IsFiniteSet(positions[p])
    BY <1>8, <2>1
  <2> QED
    BY <1>7, <2>1, <2>2, <2>3
<1>10. MaxOpenPositions \in Nat
  BY PipelineAssumption
<1>11. Cardinality(positions[p]) <= MaxOpenPositions - 1 + Cardinality(Slots(p))
  BY <1>1, <1>6, <1>7, <1>9, <1>10
<1> QED
  BY <1>5, <1>9, <1>11

\* A call begins with a new id and the signals of its snapshot.  If it sees room for a
\* position, the positions there are make up the base.
LEMMA BeginKeepsPipelineInv ==
  ASSUME PipelineInv, NEW t \in Threads, NEW s \in Snapshots, Begin(t, s)
  PROVE  PipelineInv'
<1>1. PICK c : c = [id |-> calls + 1, pc |-> "KILL_SWITCH", snapshot |-> s, todo |-> Signals(s),
                    open_positions |-> Cardinality(positions[RunsIn[t]]),
                    triggered |-> triggered[RunsIn[t]], score |-> 0, quantity |-> 0]
  OBVIOUS
<1>2. /\ call[t] = None /\ calls < MaxCalls /\ calls' = calls + 1
      /\ call' = [call EXCEPT ![t] = c] /\ DOMAIN call = Threads
      /\ UNCHANGED <<triggered, positions, journal, decisions, starts>>
  BY <1>1 DEF Begin, PipelineInv, IdsOK
<1>3. calls \in 0..MaxCalls /\ MaxCalls \in Nat /\ RunsIn[t] \in Processes
      /\ triggered[RunsIn[t]] \in BOOLEAN
  BY PipelineAssumption DEF PipelineInv, TypeOK
<1>4. \A p \in Processes : IsFiniteSet(positions[p]) /\ Cardinality(positions[p]) \in Nat
  BY SlotsBound, FS_CardinalityType DEF PipelineInv
<1>5. c \in Call
  BY <1>1, <1>2, <1>3, <1>4, SignalsType DEF Call
<1>6. /\ c.id = calls + 1 /\ c.pc = "KILL_SWITCH" /\ c.todo = Signals(s)
      /\ c.open_positions = Cardinality(positions[RunsIn[t]])
      /\ call'[t] = c /\ \A u \in Threads : u # t => call'[u] = call[u]
  BY <1>1, <1>2
<1>7. TypeOK'
  <2>1. calls' \in 0..MaxCalls
    BY <1>2, <1>3
  <2> QED
    BY <1>2, <1>5, <1>6, <2>1 DEF PipelineInv, TypeOK
<1>8. /\ \A r \in journal : r.call \in Nat /\ r.call <= calls
      /\ \A d \in decisions : d.call \in Nat /\ d.call <= calls
      /\ \A u \in Threads : call[u] # None => call[u].id \in Nat /\ call[u].id <= calls
  <2>1. \A r \in journal : r.call \in 1..MaxCalls
    BY DEF PipelineInv, TypeOK, JournalEntry
  <2>2. \A d \in decisions : d.call \in 1..MaxCalls
    BY DEF PipelineInv, TypeOK, AgentDecisionRecord
  <2>3. \A u \in Threads : call[u] # None => call[u].id \in 1..MaxCalls
    BY OpenCall
  <2> QED
    BY <2>1, <2>2, <2>3 DEF PipelineInv, IdsOK
<1>9. IdsOK'
  <2>1. \A u \in Threads : call'[u] # None => call'[u].id <= calls'
    BY <1>2, <1>3, <1>6, <1>8
  <2>2. \A u, v \in Threads : u # v /\ call'[u] # None /\ call'[v] # None =>
          call'[u].id # call'[v].id
    BY <1>2, <1>3, <1>6, <1>8 DEF PipelineInv, IdsOK
  <2>3. /\ \A r \in journal' : r.call <= calls'
        /\ \A d \in decisions' : d.call <= calls'
    BY <1>2, <1>3, <1>8
  <2> QED
    BY <1>2, <2>1, <2>2, <2>3 DEF PipelineInv, IdsOK
<1>10. ASSUME NEW u \in Threads PROVE TodoOK(u)' /\ RowsOK(u)' /\ ReviewsOK(u)'
  <2>1. CASE u = t
    <3>1. TodoOK(t)'
      BY <1>6, SignalsType, MostSignalsIsMost, MostSignalsFixed DEF TodoOK
    <3>2. RowsOK(t)' /\ ReviewsOK(t)'
      BY <1>2, <1>3, <1>6, <1>8 DEF RowsOK, ReviewsOK
    <3> QED
      BY <2>1, <3>1, <3>2
  <2>2. CASE u # t
    <3>1. call'[u] = call[u] /\ TodoOK(u) /\ RowsOK(u) /\ ReviewsOK(u)
      BY <1>6, <2>2 DEF PipelineInv
    <3> QED
      BY <1>2, <3>1, MostSignalsFixed DEF TodoOK, RowsOK, ReviewsOK, Recorded
  <2> QED
    BY <2>1, <2>2
<1>11. JournalExplainsPositions' /\ AgentsOnlyNarrow'
  BY <1>2, RecordsUnchanged DEF RecordsOK
<1>12. ASSUME NEW p \in Processes PROVE SlotsOK(p)'
  <2>1. CASE p = RunsIn[t] /\ Cardinality(positions[p]) < MaxOpenPositions
    <3>1. PICK empty : empty = [q \in {} |-> q]
      OBVIOUS
    <3>2. empty \in Injection(positions'[p] \ positions[p], Slots(p)')
      BY <1>2, <3>1 DEF Injection, IsInjective
    <3> QED
      BY <1>2, <1>4, <2>1, <3>2 DEF SlotsOK
  <2>2. CASE ~(p = RunsIn[t] /\ Cardinality(positions[p]) < MaxOpenPositions)
    <3>1. PICK base, slot :
            /\ base \in SUBSET positions[p] /\ slot \in Injection(positions[p] \ base, Slots(p))
            /\ IsFiniteSet(base) /\ Cardinality(base) < MaxOpenPositions
            /\ \A q \in positions[p] \ base : \A u \in ThreadsOf(p) :
                 slot[q][1] = u /\ call[u] # None /\ call[u].open_positions < MaxOpenPositions =>
                   slot[q][2] > Len(call[u].todo)
      BY ZenonT(60) DEF PipelineInv, SlotsOK
    <3>2. \A u \in ThreadsOf(p) : call'[u] # None /\ call'[u].open_positions < MaxOpenPositions =>
            u # t /\ call'[u] = call[u]
      BY <1>6, <2>2 DEF ThreadsOf
    <3>3. Slots(p)' = Slots(p) /\ ThreadsOf(p)' = ThreadsOf(p)
      BY MostSignalsFixed DEF Slots, ThreadsOf
    <3>4. /\ base \in SUBSET (positions'[p]) /\ slot \in Injection(positions'[p] \ base, Slots(p)')
      BY <1>2, <3>1, <3>3
    <3>5. \A q \in positions'[p] \ base : \A u \in ThreadsOf(p)' :
            slot[q][1] = u /\ call'[u] # None /\ call'[u].open_positions < MaxOpenPositions =>
              slot[q][2] > Len(call'[u].todo)
      BY <1>2, <3>1, <3>2, <3>3
    <3> QED
      BY <3>1, <3>4, <3>5 DEF SlotsOK
  <2> QED
    BY <2>1, <2>2
<1> QED
  BY <1>7, <1>9, <1>10, <1>11, <1>12 DEF PipelineInv

\* A process that starts again has no call and no position; the journals stay.
LEMMA RestartKeepsPipelineInv ==
  ASSUME PipelineInv, NEW p \in Processes, Restart(p)
  PROVE  PipelineInv'
<1>1. /\ starts[p] < MaxStarts /\ starts' = [starts EXCEPT ![p] = @ + 1]
      /\ triggered' = [triggered EXCEPT ![p] = FALSE]
      /\ positions' = [positions EXCEPT ![p] = {}]
      /\ call' = [t \in Threads |-> IF RunsIn[t] = p THEN None ELSE call[t]]
      /\ UNCHANGED <<journal, decisions, calls>>
  BY DEF Restart
<1>2. \A t \in Threads : call'[t] = None \/ (call'[t] = call[t] /\ RunsIn[t] # p)
  BY <1>1
<1>3. /\ DOMAIN call' = Threads /\ DOMAIN positions = Processes /\ DOMAIN positions' = Processes
      /\ positions'[p] = {} /\ \A q \in Processes : q # p => positions'[q] = positions[q]
  BY <1>1 DEF PipelineInv, IdsOK
<1>4. TypeOK'
  <2>1. starts' \in [Processes -> 0..MaxStarts]
    <3>1. starts[p] + 1 \in 0..MaxStarts
      BY <1>1, PipelineAssumption DEF PipelineInv, TypeOK
    <3> QED
      BY <1>1, <3>1 DEF PipelineInv, TypeOK
  <2>2. triggered' \in [Processes -> BOOLEAN]
    BY <1>1 DEF PipelineInv, TypeOK
  <2>3. \A q \in Processes : positions'[q] \subseteq VirtualPosition
    BY <1>3 DEF PipelineInv, TypeOK
  <2> QED
    BY <1>1, <1>2, <2>1, <2>2, <2>3 DEF PipelineInv, TypeOK
<1>5. IdsOK'
  BY <1>1, <1>2, <1>3 DEF PipelineInv, IdsOK
<1>6. ASSUME NEW t \in Threads PROVE TodoOK(t)' /\ RowsOK(t)' /\ ReviewsOK(t)'
  <2>1. TodoOK(t) /\ RowsOK(t) /\ ReviewsOK(t)
    BY DEF PipelineInv
  <2> QED
    BY <1>1, <1>2, <2>1, MostSignalsFixed DEF TodoOK, RowsOK, ReviewsOK, Recorded
<1>7. JournalExplainsPositions'
  <2>1. \A id, g, event : Recorded(id, g, event)' = Recorded(id, g, event)
    BY <1>1 DEF Recorded
  <2>2. \A q \in Processes : positions'[q] \subseteq positions[q]
    BY <1>3
  <2> QED
    BY <1>1, <2>1, <2>2 DEF PipelineInv, JournalExplainsPositions
<1>8. AgentsOnlyNarrow'
  BY <1>1 DEF PipelineInv, AgentsOnlyNarrow
<1>9. ASSUME NEW q \in Processes PROVE SlotsOK(q)'
  <2>1. CASE q = p
    <3>1. PICK empty : empty = [x \in {} |-> x]
      OBVIOUS
    <3>2. empty \in Injection(positions'[q] \ {}, Slots(q)')
      BY <1>3, <2>1, <3>1 DEF Injection, IsInjective
    <3>3. IsFiniteSet({}) /\ Cardinality({}) < MaxOpenPositions
      BY FS_EmptySet, PipelineAssumption
    <3> QED
      BY <1>3, <2>1, <3>2, <3>3 DEF SlotsOK
  <2>2. CASE q # p
    <3>1. \A t \in ThreadsOf(q) : t \in Threads /\ call'[t] = call[t]
      BY <1>1, <2>2 DEF ThreadsOf
    <3>2. \A t \in Threads : call[t] # None =>
            Len(call[t].todo) \in Nat /\ call[t].open_positions \in Nat
      BY OpenCall, LenProperties
    <3>3. \A t \in ThreadsOf(q) : call'[t] # None =>
            /\ call[t] # None /\ call'[t].open_positions = call[t].open_positions
            /\ call[t].open_positions \in Nat
            /\ Len(call[t].todo) \in Nat /\ Len(call'[t].todo) \in Nat
            /\ Len(call'[t].todo) <= Len(call[t].todo)
      BY <3>1, <3>2
    <3> QED
      BY <1>3, <2>2, <3>3, SlotsUnchanged DEF PipelineInv
  <2> QED
    BY <2>1, <2>2
<1> QED
  BY <1>4, <1>5, <1>6, <1>7, <1>8, <1>9 DEF PipelineInv

\* Initially nothing is open and nothing recorded.
LEMMA PipelineInvInit == Init => PipelineInv
<1> SUFFICES ASSUME Init PROVE PipelineInv
  OBVIOUS
<1>1. TypeOK /\ IdsOK
  BY PipelineAssumption DEF Init, TypeOK, IdsOK
<1>2. \A t \in Threads : TodoOK(t) /\ RowsOK(t) /\ ReviewsOK(t)
  BY DEF Init, TodoOK, RowsOK, ReviewsOK
<1>3. JournalExplainsPositions /\ AgentsOnlyNarrow
  BY DEF Init, JournalExplainsPositions, AgentsOnlyNarrow
<1>4. ASSUME NEW p \in Processes PROVE SlotsOK(p)
  <2>1. positions[p] = {}
    BY DEF Init
  <2>2. PICK empty : empty = [x \in {} |-> x]
    OBVIOUS
  <2>3. empty \in Injection(positions[p] \ {}, Slots(p))
    BY <2>1, <2>2 DEF Injection, IsInjective
  <2>4. IsFiniteSet({}) /\ Cardinality({}) < MaxOpenPositions
    BY FS_EmptySet, PipelineAssumption
  <2> QED
    BY <2>1, <2>3, <2>4 DEF SlotsOK
<1> QED
  BY <1>1, <1>2, <1>3, <1>4 DEF PipelineInv

\* The invariant holds in every state, for any processes, threads, snapshots, limits
\* and number of calls and restarts.
THEOREM PipelineIsInv == Spec => []PipelineInv
<1>1. ASSUME PipelineInv, Next PROVE PipelineInv'
  BY <1>1, StepKeepsPipelineInv, BeginKeepsPipelineInv, RestartKeepsPipelineInv DEF Next
<1>2. ASSUME PipelineInv, UNCHANGED vars PROVE PipelineInv'
  <2> USE <1>2 DEF vars, PipelineInv
  <2>1. TypeOK' /\ IdsOK'
    BY DEF TypeOK, IdsOK
  <2>2. \A t \in Threads : TodoOK(t)' /\ RowsOK(t)' /\ ReviewsOK(t)'
    BY MostSignalsFixed DEF TodoOK, RowsOK, ReviewsOK, Recorded
  <2>3. JournalExplainsPositions' /\ AgentsOnlyNarrow'
    BY RecordsUnchanged DEF RecordsOK
  <2>4. \A p \in Processes : SlotsOK(p)'
    <3>1. \A t \in Threads : call[t] # None =>
            Len(call[t].todo) \in Nat /\ call[t].open_positions \in Nat
      BY OpenCall, LenProperties
    <3>2. \A p \in Processes : \A t \in ThreadsOf(p) : call'[t] # None =>
            /\ call[t] # None /\ call'[t].open_positions = call[t].open_positions
            /\ call[t].open_positions \in Nat
            /\ Len(call[t].todo) \in Nat /\ Len(call'[t].todo) \in Nat
            /\ Len(call'[t].todo) <= Len(call[t].todo)
      BY <3>1 DEF ThreadsOf
    <3> QED
      BY <3>2, SlotsUnchanged
  <2> QED
    BY <2>1, <2>2, <2>3, <2>4
<1>3. PipelineInv /\ [Next]_vars => PipelineInv'
  BY <1>1, <1>2
<1> QED
  BY PipelineInvInit, <1>3, PTL DEF Spec

\* Every variable keeps its type; no position has quantity zero.
THEOREM PipelineTypeCorrect == Spec => []TypeOK
  BY PipelineIsInv, PTL DEF PipelineInv

\* Every virtual position has its accepted signal and its filled order in the journal,
\* and no signal is both accepted and rejected, whatever fails or restarts.
THEOREM PositionsAreExplained == Spec => []JournalExplainsPositions
  BY PipelineIsInv, PTL DEF PipelineInv

\* The agents only narrow what the rules allow.
THEOREM AgentsNarrow == Spec => []AgentsOnlyNarrow
  BY PipelineIsInv, PTL DEF PipelineInv

\* The limit on open positions is exceeded by at most what one snapshot opens for each
\* thread of the process.
THEOREM OpenPositionsStayBounded == Spec => []OpenPositionsBounded
<1>1. PipelineInv => OpenPositionsBounded
  BY SlotsBound DEF PipelineInv, OpenPositionsBounded
<1> QED
  BY <1>1, PipelineIsInv, PTL
=============================================================================
