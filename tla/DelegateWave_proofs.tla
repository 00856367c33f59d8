------------------------ MODULE DelegateWave_proofs ------------------------
(***************************************************************************)
(* Proofs about DelegateWave for every number of delegates and slots.  The *)
(* inductive invariant IInv adds to the checked invariants how the launch  *)
(* loop proceeds (LaunchInv) and what each task's place in its code says   *)
(* about its cost and its event log (LedgerInv) and about who ran (RanInv). *)
(***************************************************************************)
EXTENDS DelegateWave, FiniteSetTheorems, TLAPS

Launching == {"launch", "announced"}
Queued    == {"launch", "announced", "waiting"}
Unstarted == Queued \cup {"granted", "skipping", "starting"}
Unreported == (Unstarted \ {"skipping"}) \cup {"running", "finished"}

\* Tasks are launched one by one, in index order, by the thread.
LaunchInv ==
  /\ \A i \in Delegate : i > width => pc[i] = "launch"
  /\ thread # 0 /\ pc[thread] \in Launching =>
       \A i \in Task : /\ i < thread => pc[i] \notin Launching
                       /\ i > thread => pc[i] = "launch"
  /\ (thread = 0 \/ pc[thread] \notin Launching) =>
       \A i \in Task : pc[i] \notin Launching

\* No child spends before it runs; a sibling-failed report is final or stems
\* from the parent's abort; while the parent lives a child at work has had no
\* terminal report, and each child is charged as its report says.
TaskLedger(i) ==
  /\ pc[i] \in Unstarted => spend[i] = 0 /\ costed[i] = 0 /\ charged[i] = 0
  /\ Emitted(log[i], {"sibling"}) =>
       /\ spend[i] = 0 /\ costed[i] = 0 /\ charged[i] = 0
       /\ abort # "none" \/ pc[i] \in {"skipping", "done"}
  /\ abort = "none" =>
       /\ pc[i] \in Unreported => ~Emitted(log[i], TerminalEvents)
       /\ charged[i] = CASE Emitted(log[i], {"completed"}) -> spend[i]
                         [] Emitted(log[i], {"failed"})    -> costed[i]
                         [] OTHER                          -> 0

LedgerInv == \A i \in Task : TaskLedger(i)

\* A task before its start has no report of a run, a task at work has been
\* reported started; one that ended and is still open was refused, and has
\* neither a report nor a cost; one that was reported as never started is closed,
\* so that it is not reported again.
TaskRan(i) ==
  /\ pc[i] \in Unstarted => ~Emitted(log[i], Ran)
  /\ pc[i] = "starting" \/ Started(i) \/ Emitted(log[i], Ran) => Emitted(log[i], {"started"})
  /\ pc[i] = "returned" => closed[i]
  /\ pc[i] \in {"threw", "done"} /\ ~closed[i] =>
       ~Emitted(log[i], Ran) /\ spend[i] = 0 /\ costed[i] = 0 /\ charged[i] = 0
  /\ Emitted(log[i], {"sibling"}) =>
       /\ ~Emitted(log[i], Ran)
       /\ closed[i] \/ pc[i] = "skipping"
       /\ pc[i] \notin {"finished", "completing", "failing"}

RanInv == \A i \in Task : TaskRan(i)

IInv == /\ TypeOK /\ LaunchInv /\ SlotsInv /\ QueueInv /\ NoOvertaking
        /\ LedgerInv /\ RanInv

-----------------------------------------------------------------------------
(* Lemmas about the operators                                              *)

\* An appended event is emitted, and nothing else changes.
LEMMA EmittedAppend ==
  ASSUME NEW S, NEW es \in Seq(S), NEW e \in S, NEW K
  PROVE  Emitted(Append(es, e), K) <=> Emitted(es, K) \/ e \in K
<1>1. /\ Len(Append(es, e)) = Len(es) + 1
      /\ DOMAIN Append(es, e) = 1..(Len(es) + 1)
      /\ DOMAIN es = 1..Len(es)
      /\ Len(es) \in Nat
      /\ \A k \in 1..Len(es) : Append(es, e)[k] = es[k]
      /\ Append(es, e)[Len(es) + 1] = e
  OBVIOUS
<1>2. ASSUME Emitted(Append(es, e), K)  PROVE Emitted(es, K) \/ e \in K
  <2>1. PICK k \in 1..(Len(es) + 1) : Append(es, e)[k] \in K
    BY <1>1, <1>2 DEF Emitted
  <2>2. CASE k = Len(es) + 1
    BY <2>1, <2>2, <1>1
  <2>3. CASE k \in 1..Len(es)
    BY <2>1, <2>3, <1>1 DEF Emitted
  <2> QED BY <2>1, <2>2, <2>3, <1>1
<1>3. ASSUME Emitted(es, K)  PROVE Emitted(Append(es, e), K)
  <2>1. PICK k \in 1..Len(es) : es[k] \in K
    BY <1>1, <1>3 DEF Emitted
  <2> QED BY <2>1, <1>1 DEF Emitted
<1>4. ASSUME e \in K  PROVE Emitted(Append(es, e), K)
  <2>1. Len(es) + 1 \in 1..(Len(es) + 1)
    BY <1>1
  <2> QED BY <2>1, <1>1, <1>4 DEF Emitted
<1> QED BY <1>2, <1>3, <1>4

\* A task between acquire() and release() is counted by inFlight.
LEMMA HolderCounts ==
  ASSUME TypeOK, SlotsInv, NEW i \in Delegate, pc[i] \in Holding
  PROVE  inFlight - 1 \in Nat
<1>1. IsFiniteSet(Delegate)
  BY ConstantsAssumption, FS_Interval DEF Delegate
<1>2. IsFiniteSet(Holders)
  BY <1>1, FS_Subset DEF Holders
<1>3. Holders # {}
  BY DEF Holders
<1>4. Cardinality(Holders) \in Nat /\ Cardinality(Holders) # 0
  BY <1>2, <1>3, FS_CardinalityType, FS_EmptySet
<1> QED BY <1>4 DEF SlotsInv

-----------------------------------------------------------------------------
(* Type correctness                                                        *)

ControlType ==
  /\ pc \in [Delegate -> PcValues]
  /\ thread \in 0..width
  /\ inFlight \in Nat
  /\ waiters \in Seq(Delegate)

EventType ==
  /\ log \in [Delegate -> Seq(LogEvents)]
  /\ published \in [Delegate -> Seq(LogEvents)]

MoneyType ==
  /\ spend \in [Delegate -> Nat]
  /\ costed \in [Delegate -> Nat]
  /\ charged \in [Delegate -> Nat]

\* The variables whose changes the actions themselves spell out.
PlainType ==
  /\ width \in Delegate
  /\ limit \in 1..MaxConcurrent
  /\ policy \in {"continue", "abort"}
  /\ surface \in {"stream", "run"}
  /\ closed \in [Delegate -> BOOLEAN]
  /\ failure \subseteq Task
  /\ error \in [Delegate -> {"none", "typed", "validation", "timeout", "cancelled"}]
  /\ firstFailure \in 0..width
  /\ outcome \in [Delegate -> {"none", "result", "failure", "skipped", "rethrown"}]

RunType ==
  /\ handle \in {"running", "closed"}
  /\ abort \in {"none", "cancelled", "timedOut"}
  /\ elapsed \in BOOLEAN
  /\ lastFailed \in 0..width
  /\ wave \in {"open", "rethrown", "aborted", "replan"}
  /\ trigger \in 0..width

Typed == ControlType /\ EventType /\ MoneyType /\ PlainType /\ RunType

\* The type invariant, split into the parts that the provers handle alone.
LEMMA TypeParts == TypeOK <=> Typed
BY DEF TypeOK, Typed, ControlType, EventType, MoneyType, PlainType, RunType

\* The tasks of a wave are among the delegates.
LEMMA TaskIsDelegate ==
  ASSUME TypeOK
  PROVE  \A i \in Task : i \in Delegate /\ i \in 0..width
BY ConstantsAssumption DEF TypeOK, Task, Delegate

\* A step within a segment keeps pc and thread in their domains.
LEMMA StepType ==
  ASSUME TypeOK, NEW i \in Task, NEW from, NEW to \in PcValues,
         NEW held \in BOOLEAN, Step(i, from, to, held), UNCHANGED <<width, slots>>
  PROVE  ControlType'
<1>1. ControlType /\ i \in 0..width
  BY TypeParts, TaskIsDelegate DEF Typed
<1>2. pc' \in [Delegate -> PcValues]
  BY <1>1 DEF Step, ControlType
<1>3. thread' \in 0..width'
  BY <1>1, ConstantsAssumption DEF Step, TypeOK, Delegate
<1>4. inFlight' = inFlight /\ waiters' = waiters
  BY DEF slots
<1> QED BY <1>1, <1>2, <1>3, <1>4 DEF ControlType

\* release() keeps the semaphore and pc in their domains.
LEMMA ReleaseType ==
  ASSUME TypeOK, SlotsInv, NEW i \in Task, pc[i] \in Holding, Release(i),
         thread' \in {0, thread}, UNCHANGED width
  PROVE  ControlType'
<1>1. inFlight - 1 \in Nat /\ i \in Delegate
  BY HolderCounts, TaskIsDelegate
<1>2. ControlType
  BY TypeParts DEF Typed
<1>3. "done" \in PcValues /\ "granted" \in PcValues
  BY DEF PcValues
<1>4. pc' \in [Delegate -> PcValues]
  BY <1>2, <1>3 DEF Release, ControlType
<1>5. thread' \in 0..width'
  BY <1>2, ConstantsAssumption DEF ControlType, TypeOK, Delegate
<1>6. inFlight' \in Nat
  BY <1>1, <1>2 DEF Release, ControlType
<1>7. waiters' \in Seq(Delegate)
  BY <1>2 DEF Release, ControlType
<1> QED BY <1>4, <1>5, <1>6, <1>7 DEF ControlType

\* acquire() keeps the semaphore and pc in their domains.
LEMMA AcquireType ==
  ASSUME TypeOK, NEW i \in Task, Acquire(i)
  PROVE  /\ pc' \in [Delegate -> PcValues]
         /\ inFlight' \in Nat
         /\ waiters' \in Seq(Delegate)
<1>1. ControlType /\ i \in Delegate
  BY TypeParts, TaskIsDelegate DEF Typed
<1>2. "waiting" \in PcValues /\ "granted" \in PcValues
  BY DEF PcValues
<1>3. pc' \in [Delegate -> PcValues]
  BY <1>1, <1>2 DEF Acquire, ControlType
<1>4. inFlight' \in Nat
  BY <1>1 DEF Acquire, ControlType
<1>5. waiters' \in Seq(Delegate)
  BY <1>1 DEF Acquire, ControlType
<1> QED BY <1>3, <1>4, <1>5

\* Emitting keeps the logs sequences of sub-run events.
LEMMA EmitType ==
  ASSUME TypeOK, NEW i \in Task, NEW e \in LogEvents, Emit(i, e)
  PROVE  EventType'
<1>1. EventType /\ i \in Delegate
  BY TypeParts, TaskIsDelegate DEF Typed
<1>2. log' \in [Delegate -> Seq(LogEvents)]
  BY <1>1 DEF Emit, EventType
<1>3. published' \in [Delegate -> Seq(LogEvents)]
  BY <1>1 DEF Emit, EventType
<1> QED BY <1>2, <1>3 DEF EventType

\* Charging a child keeps its share a natural number.
LEMMA ChargeType ==
  ASSUME TypeOK, NEW i \in Task, NEW a \in Nat, Charge(i, a), UNCHANGED <<spend, costed>>
  PROVE  MoneyType'
<1>1. MoneyType /\ i \in Delegate
  BY TypeParts, TaskIsDelegate DEF Typed
<1>2. charged' \in [Delegate -> Nat]
  BY <1>1 DEF Charge, MoneyType
<1> QED BY <1>1, <1>2 DEF MoneyType

\* A drain keeps what it changes in its domain.
LEMMA DrainType ==
  ASSUME TypeOK, NEW p \in BOOLEAN, Drain(p), UNCHANGED <<spend, costed>>
  PROVE  EventType' /\ MoneyType' /\ closed' \in [Delegate -> BOOLEAN]
<1>1. EventType /\ MoneyType /\ closed \in [Delegate -> BOOLEAN]
  BY TypeParts DEF Typed, PlainType
<1>2. \A i \in Delegate : DrainEvent(i) \in LogEvents
  BY DEF DrainEvent, LogEvents, TerminalEvents
<1>3. log' \in [Delegate -> Seq(LogEvents)]
  BY <1>1, <1>2 DEF Drain, EventType
<1>4. published' \in [Delegate -> Seq(LogEvents)]
  BY <1>1, <1>2 DEF Drain, EventType
<1>5. charged' \in [Delegate -> Nat]
  BY <1>1 DEF Drain, MoneyType
<1>6. closed' \in [Delegate -> BOOLEAN]
  BY <1>1 DEF Drain
<1> QED BY <1>1, <1>3, <1>4, <1>5, <1>6 DEF EventType, MoneyType

\* What an action leaves alone stays well typed.
LEMMA PlainKept ==
  ASSUME PlainType, UNCHANGED <<config, closed, failure, error, firstFailure, outcome>>
  PROVE  PlainType'
<1>1. /\ width' = width /\ limit' = limit /\ policy' = policy /\ surface' = surface
      /\ closed' = closed /\ failure' = failure /\ error' = error
      /\ firstFailure' = firstFailure /\ outcome' = outcome
  BY DEF config
<1> QED BY <1>1 DEF PlainType, Task

\* The initial states are well typed.
LEMMA TypeInit == Init => TypeOK
<1> SUFFICES ASSUME NEW w \in Delegate, InitFor(w)  PROVE TypeOK
  BY DEF Init
<1>1. 1 \in Delegate /\ w \in Nat /\ 1 \in 0..w /\ 0 \in 0..w
  BY ConstantsAssumption DEF Delegate
<1>2. "launch" \in PcValues
  BY DEF PcValues
<1>3. <<>> \in Seq(LogEvents) /\ <<>> \in Seq(Delegate)
  OBVIOUS
<1> QED
  BY <1>1, <1>2, <1>3 DEF InitFor, TypeOK

\* Every step keeps the state well typed.
LEMMA TypeStep ==
  ASSUME TypeOK, SlotsInv, [Next]_vars
  PROVE  TypeOK'
<1>1. ControlType /\ EventType /\ MoneyType /\ PlainType /\ RunType
  BY TypeParts DEF Typed
<1>2. \A i \in Task : i \in Delegate /\ i \in 0..width
  BY TaskIsDelegate
<1> SUFFICES Typed'
  BY DEF TypeOK, Typed, ControlType, EventType, MoneyType, PlainType, RunType
<1> USE DEF config, slots, money, events, parent, verdict, Holding
<1>3. ASSUME NEW i \in Task, AnnounceQueued(i)
      PROVE  Typed'
  <2>1. ControlType'
    BY <1>1, <1>2, <1>3, StepType DEF AnnounceQueued, PcValues
  <2>2. EventType'
    BY <1>1, <1>2, <1>3, EmitType DEF AnnounceQueued, LogEvents, TerminalEvents
  <2>3. MoneyType' /\ PlainType' /\ RunType'
    BY <1>1, <1>2, <1>3 DEF AnnounceQueued, MoneyType, PlainType, RunType, Task
  <2> QED BY <2>1, <2>2, <2>3 DEF Typed
<1>4. ASSUME NEW i \in Task, AcquireSlot(i)
      PROVE  Typed'
  <2>1. thread' \in 0..width'
    BY <1>2, <1>4, ConstantsAssumption DEF AcquireSlot, TypeOK, Delegate, Task
  <2>2. ControlType'
    BY <2>1, <1>4, AcquireType DEF AcquireSlot, ControlType
  <2>3. EventType' /\ MoneyType' /\ PlainType' /\ RunType'
    BY <1>1, <1>2, <1>4 DEF AcquireSlot, EventType, MoneyType, PlainType, RunType, Task
  <2> QED BY <2>1, <2>2, <2>3 DEF Typed
<1>5. ASSUME NEW i \in Task, SkipClosed(i)
      PROVE  Typed'
  <2>1. ControlType'
    BY <1>1, <1>2, <1>5, ReleaseType DEF SkipClosed
  <2>2. EventType' /\ MoneyType' /\ PlainType' /\ RunType'
    BY <1>1, <1>2, <1>5 DEF SkipClosed, EventType, MoneyType, PlainType, RunType, Task
  <2> QED BY <2>1, <2>2 DEF Typed
<1>6. ASSUME NEW i \in Task, SkipSibling(i)
      PROVE  Typed'
  <2>1. ControlType'
    BY <1>1, <1>2, <1>6, StepType DEF SkipSibling, PcValues
  <2>2. EventType'
    BY <1>1, <1>2, <1>6, EmitType DEF SkipSibling, LogEvents, TerminalEvents
  <2>3. MoneyType' /\ PlainType' /\ RunType'
    BY <1>1, <1>2, <1>6 DEF SkipSibling, MoneyType, PlainType, RunType, Task
  <2> QED BY <2>1, <2>2, <2>3 DEF Typed
<1>7. ASSUME NEW i \in Task, FinishSkip(i)
      PROVE  Typed'
  <2>1. ControlType'
    BY <1>1, <1>2, <1>7, ReleaseType DEF FinishSkip
  <2>2. EventType' /\ MoneyType' /\ PlainType' /\ RunType'
    BY <1>1, <1>2, <1>7 DEF FinishSkip, EventType, MoneyType, PlainType, RunType, Task
  <2> QED BY <2>1, <2>2 DEF Typed
<1>8. ASSUME NEW i \in Task, Refuse(i)
      PROVE  Typed'
  <2>1. ControlType'
    BY <1>1, <1>2, <1>8, StepType DEF Refuse, PcValues
  <2>2. EventType' /\ MoneyType' /\ PlainType' /\ RunType'
    BY <1>1, <1>2, <1>8 DEF Refuse, EventType, MoneyType, PlainType, RunType, Task
  <2> QED BY <2>1, <2>2 DEF Typed
<1>9. ASSUME NEW i \in Task, Start(i)
      PROVE  Typed'
  <2>1. ControlType'
    BY <1>1, <1>2, <1>9, StepType DEF Start, PcValues
  <2>2. EventType'
    BY <1>1, <1>2, <1>9, EmitType DEF Start, LogEvents, TerminalEvents
  <2>3. MoneyType' /\ PlainType' /\ RunType'
    BY <1>1, <1>2, <1>9 DEF Start, MoneyType, PlainType, RunType, Task
  <2> QED BY <2>1, <2>2, <2>3 DEF Typed
<1>10. ASSUME NEW i \in Task, RunChild(i)
      PROVE  Typed'
  <2>1. ControlType'
    BY <1>1, <1>2, <1>10, StepType DEF RunChild, PcValues
  <2>2. EventType' /\ MoneyType' /\ PlainType' /\ RunType'
    BY <1>1, <1>2, <1>10 DEF RunChild, EventType, MoneyType, PlainType, RunType, Task
  <2> QED BY <2>1, <2>2 DEF Typed
<1>11. ASSUME NEW i \in Task, ChildAnswer(i)
      PROVE  Typed'
  <2>1. MoneyType'
    BY <1>1, <1>2, <1>11 DEF ChildAnswer, MoneyType
  <2>2. ControlType' /\ EventType' /\ PlainType' /\ RunType'
    BY <1>1, <1>2, <1>11 DEF ChildAnswer, ControlType, EventType, PlainType, RunType, Task
  <2> QED BY <2>1, <2>2 DEF Typed
<1>12. ASSUME NEW i \in Task, ChildTurn(i)
      PROVE  Typed'
  <2>1. ControlType' /\ EventType' /\ MoneyType' /\ PlainType' /\ RunType'
    BY <1>1, <1>2, <1>12 DEF ChildTurn, ControlType, EventType, MoneyType, PlainType, RunType, Task
  <2> QED BY <2>1 DEF Typed
<1>13. ASSUME NEW i \in Task, ChildFinal(i)
      PROVE  Typed'
  <2>1. ControlType'
    BY <1>1, <1>2, <1>13, StepType DEF ChildFinal, PcValues
  <2>2. EventType' /\ MoneyType' /\ PlainType' /\ RunType'
    BY <1>1, <1>2, <1>13 DEF ChildFinal, EventType, MoneyType, PlainType, RunType, Task
  <2> QED BY <2>1, <2>2 DEF Typed
<1>14. ASSUME NEW i \in Task, CatchClosed(i)
      PROVE  Typed'
  <2>1. ControlType'
    BY <1>1, <1>2, <1>14, StepType DEF CatchClosed, ChildErrors, PcValues
  <2>2. error' \in [Delegate -> {"none", "typed", "validation", "timeout", "cancelled"}]
    <3>1. ChildErrors \subseteq {"typed", "validation", "timeout", "cancelled"}
      BY <1>1 DEF ChildErrors, RunType
    <3> QED BY <3>1, <1>1, <1>14 DEF CatchClosed, PlainType
  <2>3. PlainType'
    BY <2>2, <1>1, <1>14 DEF CatchClosed, PlainType, Task
  <2>4. EventType' /\ MoneyType' /\ RunType'
    BY <1>1, <1>2, <1>14 DEF CatchClosed, ChildErrors, EventType, MoneyType, RunType, PlainType, Task
  <2> QED BY <2>1, <2>2, <2>3, <2>4 DEF Typed
<1>15. ASSUME NEW i \in Task, CatchOpen(i)
      PROVE  Typed'
  <2>1. ControlType'
    BY <1>1, <1>2, <1>15, StepType DEF CatchOpen, ChildErrors, RealErrors, PcValues
  <2>2. EventType'
    BY <1>1, <1>2, <1>15, EmitType DEF CatchOpen, ChildErrors, RealErrors, LogEvents, TerminalEvents
  <2>3. MoneyType'
    BY <1>1, <1>2, <1>15, ChargeType DEF CatchOpen, ChildErrors, RealErrors, MoneyType
  <2>4. error' \in [Delegate -> {"none", "typed", "validation", "timeout", "cancelled"}]
    <3>1. ChildErrors \subseteq {"typed", "validation", "timeout", "cancelled"}
      BY <1>1 DEF ChildErrors, RunType
    <3> QED BY <3>1, <1>1, <1>15 DEF CatchOpen, PlainType
  <2>5. PlainType'
    BY <2>4, <1>1, <1>15 DEF CatchOpen, PlainType, Task
  <2>6. RunType'
    BY <1>1, <1>2, <1>15 DEF CatchOpen, ChildErrors, RealErrors, RunType, PlainType, Task
  <2> QED BY <2>1, <2>2, <2>3, <2>4, <2>5, <2>6 DEF Typed
<1>16. ASSUME NEW i \in Task, FinishFail(i)
      PROVE  Typed'
  <2>1. ControlType'
    BY <1>1, <1>2, <1>16, StepType DEF FinishFail, PcValues
  <2>2. EventType' /\ MoneyType' /\ PlainType' /\ RunType'
    BY <1>1, <1>2, <1>16 DEF FinishFail, EventType, MoneyType, PlainType, RunType, Task
  <2> QED BY <2>1, <2>2 DEF Typed
<1>17. ASSUME NEW i \in Task, Complete(i)
      PROVE  Typed'
  <2>1. ControlType'
    BY <1>1, <1>2, <1>17, StepType DEF Complete, PcValues
  <2>2. EventType'
    BY <1>1, <1>2, <1>17, EmitType DEF Complete, LogEvents, TerminalEvents
  <2>3. MoneyType'
    BY <1>1, <1>2, <1>17, ChargeType DEF Complete, MoneyType
  <2>4. PlainType' /\ RunType'
    BY <1>1, <1>2, <1>17 DEF Complete, PlainType, RunType, Task
  <2> QED BY <2>1, <2>2, <2>3, <2>4 DEF Typed
<1>18. ASSUME NEW i \in Task, FinishComplete(i)
      PROVE  Typed'
  <2>1. ControlType'
    BY <1>1, <1>2, <1>18, StepType DEF FinishComplete, PcValues
  <2>2. EventType' /\ MoneyType' /\ PlainType' /\ RunType'
    BY <1>1, <1>2, <1>18 DEF FinishComplete, EventType, MoneyType, PlainType, RunType, Task
  <2> QED BY <2>1, <2>2 DEF Typed
<1>19. ASSUME NEW i \in Task, FinishAborted(i)
      PROVE  Typed'
  <2>1. ControlType'
    BY <1>1, <1>2, <1>19, StepType DEF FinishAborted, PcValues
  <2>2. EventType'
    BY <1>1, <1>2, <1>19, EmitType DEF FinishAborted, LogEvents, TerminalEvents
  <2>3. MoneyType' /\ PlainType' /\ RunType'
    BY <1>1, <1>2, <1>19 DEF FinishAborted, MoneyType, PlainType, RunType, Task
  <2> QED BY <2>1, <2>2, <2>3 DEF Typed
<1>20. ASSUME NEW i \in Task, Deliver(i)
      PROVE  Typed'
  <2>1. ControlType'
    BY <1>1, <1>2, <1>20, ReleaseType DEF Deliver
  <2>2. EventType' /\ MoneyType' /\ PlainType' /\ RunType'
    BY <1>1, <1>2, <1>20 DEF Deliver, EventType, MoneyType, PlainType, RunType, Task
  <2> QED BY <2>1, <2>2 DEF Typed
<1>21. ASSUME NEW i \in Task, HandleThrow(i)
      PROVE  Typed'
  <2>1. ControlType'
    BY <1>1, <1>2, <1>21, ReleaseType DEF HandleThrow
  <2>2. EventType' /\ MoneyType' /\ RunType'
    BY <1>1, <1>2, <1>21 DEF HandleThrow, EventType, MoneyType, RunType, Task
  <2>3. PlainType'
    <3>1. firstFailure' \in 0..width'
      BY <1>1, <1>2, <1>21 DEF HandleThrow, PlainType
    <3>2. outcome' \in [Delegate -> {"none", "result", "failure", "skipped", "rethrown"}]
      BY <1>1, <1>21 DEF HandleThrow, PlainType
    <3>3. closed' \in [Delegate -> BOOLEAN]
      BY <1>1, <1>21 DEF HandleThrow, PlainType
    <3>4. error' \in [Delegate -> {"none", "typed", "validation", "timeout", "cancelled"}]
      BY <1>1, <1>21 DEF HandleThrow, PlainType
    <3>5. /\ width' \in Delegate /\ limit' \in 1..MaxConcurrent /\ failure' \subseteq Task'
          /\ policy' \in {"continue", "abort"} /\ surface' \in {"stream", "run"}
      BY <1>1, <1>21 DEF HandleThrow, PlainType, Task
    <3> QED BY <3>1, <3>2, <3>3, <3>4, <3>5 DEF PlainType
  <2> QED BY <2>1, <2>2, <2>3 DEF Typed
<1>22. ASSUME Settle
      PROVE  Typed'
  <2>1. PlainType'
    BY <1>1, <1>22, PlainKept DEF Settle
  <2>2. RunType'
    <3>1. trigger' \in 0..width'
      <4>1. trigger' \in failure \/ trigger' = 0
        BY <1>22 DEF Settle
      <4>2. failure \subseteq 1..width /\ width' = width /\ width \in Nat
        BY <1>1, <1>22, ConstantsAssumption DEF Settle, PlainType, Task, Delegate
      <4>3. \A j \in failure : j \in 0..width
        BY <4>2
      <4>4. 0 \in 0..width
        BY <4>2
      <4> QED BY <4>1, <4>2, <4>3, <4>4
    <3>2. wave' \in {"rethrown", "aborted", "replan"}
      BY <1>22 DEF Settle
    <3>3. width' = width /\ handle' = handle /\ abort' = abort /\ elapsed' = elapsed
          /\ lastFailed' = lastFailed
      BY <1>22 DEF Settle
    <3> QED BY <1>1, <3>1, <3>2, <3>3 DEF RunType
  <2>3. ControlType' /\ EventType' /\ MoneyType'
    BY <1>1, <1>22 DEF Settle, ControlType, EventType, MoneyType
  <2> QED BY <2>1, <2>2, <2>3 DEF Typed
<1>23. ASSUME Cancel
      PROVE  Typed'
  <2>1. EventType' /\ MoneyType' /\ closed' \in [Delegate -> BOOLEAN]
    BY <1>23, DrainType DEF Cancel
  <2> QED BY <2>1, <1>1, <1>23 DEF Cancel, Typed, ControlType, PlainType, RunType, Task
<1>24. ASSUME CallerAbort
      PROVE  Typed'
  BY <1>1, <1>24 DEF CallerAbort, Typed, ControlType, EventType, MoneyType, PlainType, RunType, Task
<1>25. ASSUME DeadlineElapses
      PROVE  Typed'
  BY <1>1, <1>25 DEF DeadlineElapses, Typed, ControlType, EventType, MoneyType, PlainType, RunType, Task
<1>26. ASSUME TimeoutFires
      PROVE  Typed'
  BY <1>1, <1>26 DEF TimeoutFires, Typed, ControlType, EventType, MoneyType, PlainType, RunType, Task
<1>27. ASSUME TimeoutDrain
      PROVE  Typed'
  <2>1. EventType' /\ MoneyType' /\ closed' \in [Delegate -> BOOLEAN]
    BY <1>27, DrainType DEF TimeoutDrain
  <2> QED BY <2>1, <1>1, <1>27 DEF TimeoutDrain, Typed, ControlType, PlainType, RunType, Task
<1>28. ASSUME Finished
      PROVE  Typed'
  BY <1>1, <1>28 DEF Finished, vars, Typed, ControlType, EventType, MoneyType, PlainType, RunType, Task
<1>29. ASSUME UNCHANGED vars
      PROVE  Typed'
  BY <1>1, <1>29 DEF vars, Typed, ControlType, EventType, MoneyType, PlainType, RunType, Task
<1> QED
  BY <1>3, <1>4, <1>5, <1>6, <1>7, <1>8, <1>9, <1>10, <1>11, <1>12, <1>13, <1>14, <1>15, <1>16, <1>17, <1>18, <1>19, <1>20, <1>21, <1>22, <1>23, <1>24, <1>25, <1>26, <1>27, <1>28, <1>29
  DEF Next, TaskStep, ChildStep, ParentStep

-----------------------------------------------------------------------------
(* The semaphore and the launch loop                                       *)

CoreInv == LaunchInv /\ SlotsInv /\ QueueInv /\ NoOvertaking

\* The delegates of a wave are finitely many.
LEMMA DelegateFinite == IsFiniteSet(Delegate)
BY ConstantsAssumption, FS_Interval DEF Delegate

\* Launching and the semaphore start out consistent.
LEMMA CoreInit == Init => CoreInv
<1> SUFFICES ASSUME NEW w \in Delegate, InitFor(w)  PROVE CoreInv
  BY DEF Init
<1>1. \A i \in Delegate : pc[i] = "launch"
  BY DEF InitFor
<1>2. LaunchInv
  BY <1>1, ConstantsAssumption DEF InitFor, LaunchInv, Launching, Task, Delegate
<1>3. SlotsInv
  <2>1. Holders = {}
    BY <1>1 DEF Holders, Holding
  <2> QED BY <2>1, FS_EmptySet, ConstantsAssumption DEF SlotsInv, InitFor
<1>4. QueueInv
  BY <1>1 DEF QueueInv, InitFor
<1>5. NoOvertaking
  BY <1>1, ConstantsAssumption DEF NoOvertaking, InitFor, Task, Delegate
<1> QED BY <1>2, <1>3, <1>4, <1>5 DEF CoreInv

\* A task moves on while it holds its slot.
LEMMA HoldStep ==
  ASSUME TypeOK, CoreInv, NEW i \in Task, NEW to \in Holding, pc[i] \in Holding,
         pc' = [pc EXCEPT ![i] = to], thread \in {0, i}, thread' \in {0, i},
         UNCHANGED <<width, limit, slots>>
  PROVE  CoreInv'
<1>1. i \in Delegate /\ pc \in [Delegate -> PcValues]
  BY TaskIsDelegate DEF TypeOK
<1>2. /\ pc'[i] \in Holding
      /\ \A j \in Delegate : j # i => pc'[j] = pc[j]
      /\ width' = width /\ limit' = limit /\ inFlight' = inFlight /\ waiters' = waiters
  BY <1>1 DEF slots
<1>3. LaunchInv'
  <2>1. \A j \in Delegate : j > width => pc'[j] = "launch"
    <3>1. \A j \in Delegate : j > width => j # i
      BY <1>1, ConstantsAssumption DEF Task, Delegate, TypeOK
    <3> QED BY <1>2, <3>1 DEF CoreInv, LaunchInv
  <2>2. \A j \in Task : pc[j] \notin Launching /\ pc'[j] \notin Launching
    BY <1>1, <1>2, TaskIsDelegate DEF CoreInv, LaunchInv, Launching, Holding
  <2>3. thread' \in Delegate => pc'[thread'] \notin Launching
    BY <1>1, <1>2, <2>2, ConstantsAssumption DEF Delegate
  <2> QED BY <1>1, <1>2, <2>1, <2>2, <2>3 DEF LaunchInv, Task
<1>4. SlotsInv'
  <2>1. Holders' = Holders
    BY <1>1, <1>2 DEF Holders
  <2> QED BY <1>2, <2>1 DEF CoreInv, SlotsInv
<1>5. QueueInv'
  BY <1>1, <1>2 DEF CoreInv, QueueInv, Holding
<1>6. NoOvertaking'
  BY <1>1, <1>2, TaskIsDelegate DEF CoreInv, NoOvertaking, Holding, Task
<1> QED BY <1>3, <1>4, <1>5, <1>6 DEF CoreInv

\* A task releases its slot, or hands it to the oldest waiter.
LEMMA ReleaseStep ==
  ASSUME TypeOK, CoreInv, NEW i \in Task, pc[i] \in Holding, Release(i),
         thread \in {0, i}, thread' = 0, UNCHANGED <<width, limit>>
  PROVE  CoreInv'
<1>1. i \in Delegate /\ pc \in [Delegate -> PcValues] /\ waiters \in Seq(Delegate)
  BY TaskIsDelegate DEF TypeOK
<1>2. IsFiniteSet(Holders) /\ i \in Holders
  BY <1>1, DelegateFinite, FS_Subset DEF Holders
<1>3. CASE waiters = <<>>
  <2>1. /\ pc' = [pc EXCEPT ![i] = "done"]
        /\ inFlight' = inFlight - 1
        /\ waiters' = waiters
    BY <1>3 DEF Release
  <2>2. LaunchInv'
    <3>1. /\ pc'[i] = "done"
          /\ \A j \in Delegate : j # i => pc'[j] = pc[j]
      BY <1>1, <2>1
    <3>2. \A j \in Delegate : j > width => j # i
      BY <1>1, ConstantsAssumption DEF Task, Delegate, TypeOK
    <3>3. \A j \in Delegate : j > width => pc'[j] = "launch"
      BY <3>1, <3>2 DEF CoreInv, LaunchInv
    <3>4. \A j \in Task : pc[j] \notin Launching
      BY <1>1 DEF CoreInv, LaunchInv, Launching, Holding
    <3>5. \A j \in Task : pc'[j] \notin Launching
      BY <3>1, <3>4, TaskIsDelegate DEF Launching
    <3> QED BY <3>3, <3>5 DEF LaunchInv, Task
  <2>3. SlotsInv'
    <3>1. Holders' = Holders \ {i}
      BY <1>1, <2>1 DEF Holders, Holding
    <3>2. Cardinality(Holders') = Cardinality(Holders) - 1
      BY <3>1, <1>2, FS_RemoveElement
    <3>3. inFlight \in Nat /\ limit \in Nat /\ limit' = limit
      BY ConstantsAssumption DEF TypeOK
    <3> QED BY <1>3, <2>1, <3>2, <3>3 DEF CoreInv, SlotsInv
  <2>4. QueueInv'
    BY <1>1, <1>3, <2>1 DEF CoreInv, QueueInv, Holding
  <2>5. NoOvertaking'
    BY <1>1, <2>1, TaskIsDelegate DEF CoreInv, NoOvertaking, Holding, Task
  <2> QED BY <2>2, <2>3, <2>4, <2>5 DEF CoreInv
<1>4. CASE waiters # <<>>
  <2> DEFINE h == Head(waiters)
  <2>1. /\ pc' = [pc EXCEPT ![i] = "done", ![h] = "granted"]
        /\ inFlight' = inFlight
        /\ waiters' = Tail(waiters)
    BY <1>4 DEF Release
  <2>2. /\ Len(waiters) \in Nat \ {0}
        /\ DOMAIN waiters = 1..Len(waiters)
        /\ h = waiters[1]
        /\ h \in Delegate
        /\ DOMAIN waiters' = 1..(Len(waiters) - 1)
        /\ \A k \in 1..(Len(waiters) - 1) : waiters'[k] = waiters[k + 1]
    BY <1>1, <1>4, <2>1
  <2>3. pc[h] = "waiting"
    BY <2>2 DEF CoreInv, QueueInv
  <2>4. h # i
    BY <2>3 DEF Holding
  <2>5. h \in Task
    BY <2>2, <2>3, ConstantsAssumption DEF CoreInv, LaunchInv, Task, Delegate, TypeOK
  <2>6. /\ pc'[i] = "done" /\ pc'[h] = "granted"
        /\ \A j \in Delegate : j # i /\ j # h => pc'[j] = pc[j]
    BY <1>1, <2>1, <2>2, <2>4
  <2> HIDE DEF h
  <2>7. LaunchInv'
    <3>1. \A j \in Delegate : j > width => j # i /\ j # h
      BY <1>1, <2>5, ConstantsAssumption, SMTT(30) DEF Task, Delegate, TypeOK
    <3>2. \A j \in Delegate : j > width => pc'[j] = "launch"
      BY <2>6, <3>1 DEF CoreInv, LaunchInv
    <3>3. \A j \in Task : pc[j] \notin Launching
      BY <1>1 DEF CoreInv, LaunchInv, Launching, Holding
    <3>4. \A j \in Task : pc'[j] \notin Launching
      BY <2>6, <3>3, TaskIsDelegate DEF Launching
    <3> QED BY <3>2, <3>4 DEF LaunchInv, Task
  <2>8. SlotsInv'
    <3>1. h \notin Holders /\ h \notin Holders \ {i}
      BY <2>3 DEF Holders, Holding
    <3>2. Holders' = (Holders \ {i}) \cup {h}
      BY <1>1, <2>2, <2>6 DEF Holders, Holding
    <3>3. Cardinality(Holders \ {i}) = Cardinality(Holders) - 1 /\ IsFiniteSet(Holders \ {i})
      BY <1>2, FS_RemoveElement
    <3>4. Cardinality(Holders') = Cardinality(Holders) - 1 + 1
      BY <3>1, <3>2, <3>3, FS_AddElement
    <3>5. Cardinality(Holders) \in Nat /\ inFlight \in Nat
      BY <1>2, FS_CardinalityType DEF TypeOK
    <3> QED BY <1>4, <2>1, <3>4, <3>5 DEF CoreInv, SlotsInv
  <2>9. \A k \in DOMAIN waiters : waiters[k] = h => k = 1
    <3> SUFFICES ASSUME NEW k \in DOMAIN waiters, waiters[k] = h, k # 1  PROVE FALSE
      OBVIOUS
    <3>1. 1 \in DOMAIN waiters /\ 1 < k
      BY <2>2
    <3>2. h < h
      BY <3>1, <2>2 DEF CoreInv, QueueInv
    <3> QED BY <3>2, <2>2, ConstantsAssumption DEF Delegate
  <2>10. QueueInv'
    <3>1. \A j \in Delegate : pc'[j] = "waiting" => \E k \in DOMAIN waiters' : waiters'[k] = j
      <4> SUFFICES ASSUME NEW j \in Delegate, pc'[j] = "waiting"
                   PROVE  \E k \in DOMAIN waiters' : waiters'[k] = j
        OBVIOUS
      <4>1. pc[j] = "waiting" /\ j # h
        BY <2>6
      <4>2. PICK k \in DOMAIN waiters : waiters[k] = j
        BY <4>1 DEF CoreInv, QueueInv
      <4>3. k # 1 /\ k - 1 \in DOMAIN waiters' /\ waiters'[k - 1] = waiters[k - 1 + 1]
        BY <2>2, <4>1, <4>2
      <4> QED BY <4>2, <4>3, <2>2
    <3>2. \A j \in Delegate : (\E k \in DOMAIN waiters' : waiters'[k] = j) => pc'[j] = "waiting"
      <4> SUFFICES ASSUME NEW j \in Delegate, NEW k \in DOMAIN waiters', waiters'[k] = j
                   PROVE  pc'[j] = "waiting"
        OBVIOUS
      <4>1. k + 1 \in DOMAIN waiters /\ waiters[k + 1] = j /\ k + 1 # 1
        BY <2>2
      <4>2. pc[j] = "waiting" /\ j # h
        BY <4>1, <2>9 DEF CoreInv, QueueInv
      <4> QED BY <4>2, <2>6 DEF Holding
    <3>3. \A k, l \in DOMAIN waiters' : k < l => waiters'[k] < waiters'[l]
      BY <2>2 DEF CoreInv, QueueInv
    <3> QED BY <3>1, <3>2, <3>3 DEF QueueInv
  <2>11. NoOvertaking'
    <3> SUFFICES ASSUME NEW j \in Task, NEW l \in Task, j < l, pc'[j] = "waiting"
                 PROVE  pc'[l] \in {"launch", "announced", "waiting"}
      BY DEF NoOvertaking, Task
    <3>1. j \in Delegate /\ l \in Delegate
      BY TaskIsDelegate
    <3>2. pc[j] = "waiting" /\ j # h
      BY <2>6, <3>1
    <3>3. pc[l] \in {"launch", "announced", "waiting"}
      BY <3>2 DEF CoreInv, NoOvertaking
    <3>4. l # i
      BY <3>3 DEF Holding
    <3>5. l # h
      <4>1. PICK k \in DOMAIN waiters : waiters[k] = j
        BY <3>1, <3>2 DEF CoreInv, QueueInv
      <4>2. k # 1 /\ 1 < k /\ 1 \in DOMAIN waiters
        BY <2>2, <3>2, <4>1
      <4>3. h < j
        BY <4>1, <4>2, <2>2 DEF CoreInv, QueueInv
      <4> QED BY <4>3, <2>2, <3>1, ConstantsAssumption DEF Delegate
    <3> QED BY <3>1, <3>3, <3>4, <3>5, <2>6
  <2> QED BY <2>7, <2>8, <2>10, <2>11 DEF CoreInv
<1> QED BY <1>3, <1>4

\* The launch loop announces that a task has to queue.
LEMMA AnnounceStep ==
  ASSUME TypeOK, CoreInv, NEW i \in Task, thread = i, thread' = i,
         pc[i] = "launch", pc' = [pc EXCEPT ![i] = "announced"],
         UNCHANGED <<width, limit, slots>>
  PROVE  CoreInv'
<1>1. i \in Delegate /\ pc \in [Delegate -> PcValues] /\ i # 0
  BY TaskIsDelegate, ConstantsAssumption DEF TypeOK, Delegate
<1>2. /\ pc'[i] = "announced"
      /\ \A j \in Delegate : j # i => pc'[j] = pc[j]
      /\ width' = width /\ limit' = limit /\ inFlight' = inFlight /\ waiters' = waiters
  BY <1>1 DEF slots
<1>3. LaunchInv'
  <2>1. \A j \in Delegate : j > width => j # i
    BY <1>1, ConstantsAssumption DEF Task, Delegate, TypeOK
  <2>2. \A j \in Delegate : j > width => pc'[j] = "launch"
    BY <1>2, <2>1 DEF CoreInv, LaunchInv
  <2>3. \A j \in Task : /\ j < i => pc[j] \notin Launching /\ j # i
                        /\ j > i => pc[j] = "launch" /\ j # i
    BY <1>1, ConstantsAssumption DEF CoreInv, LaunchInv, Launching, Task, Delegate
  <2>4. \A j \in Task : /\ j < i => pc'[j] \notin Launching
                        /\ j > i => pc'[j] = "launch"
    BY <1>2, <2>3, TaskIsDelegate
  <2> QED BY <1>1, <1>2, <2>2, <2>4 DEF LaunchInv, Launching, Task
<1>4. SlotsInv'
  <2>1. Holders' = Holders
    BY <1>1, <1>2 DEF Holders, Holding
  <2> QED BY <1>2, <2>1 DEF CoreInv, SlotsInv
<1>5. QueueInv'
  BY <1>1, <1>2 DEF CoreInv, QueueInv
<1>6. NoOvertaking'
  BY <1>1, <1>2, TaskIsDelegate DEF CoreInv, NoOvertaking, Task
<1> QED BY <1>3, <1>4, <1>5, <1>6 DEF CoreInv

\* The launch loop calls acquire() for a task and goes on to the next one.
LEMMA AcquireStep ==
  ASSUME TypeOK, CoreInv, NEW i \in Task, AcquireSlot(i)
  PROVE  CoreInv'
<1>1. /\ i \in Delegate /\ i # 0 /\ width \in Delegate
      /\ pc \in [Delegate -> PcValues] /\ waiters \in Seq(Delegate)
  <2>1. i \in Delegate
    BY TaskIsDelegate
  <2>2. i # 0
    BY <2>1, ConstantsAssumption DEF Delegate
  <2> QED BY <2>1, <2>2 DEF TypeOK
<1>2. /\ thread = i /\ pc[i] \in Launching /\ Acquire(i) /\ UNCHANGED <<width, limit>>
      /\ thread' = IF i < width THEN i + 1 ELSE 0
  BY DEF AcquireSlot, Launching, config
<1>3. \A j \in Task : /\ j < i => pc[j] \notin Launching
                      /\ j > i => pc[j] = "launch"
  BY <1>1, <1>2 DEF CoreInv, LaunchInv
<1>4. /\ pc'[i] \in {"granted", "waiting"}
      /\ \A j \in Delegate : j # i => pc'[j] = pc[j]
  BY <1>1, <1>2 DEF Acquire
<1>5. LaunchInv'
  <2>1. \A j \in Delegate : j > width => pc'[j] = "launch" /\ pc[j] = "launch" /\ j # i
    BY <1>1, <1>4, ConstantsAssumption DEF CoreInv, LaunchInv, Task, Delegate
  <2>2. \A j \in Task : /\ j < i + 1 => pc'[j] \notin Launching
                        /\ j > i => pc'[j] = "launch"
    <3> SUFFICES ASSUME NEW j \in Task
                 PROVE  /\ j < i + 1 => pc'[j] \notin Launching
                        /\ j > i => pc'[j] = "launch"
      OBVIOUS
    <3>1. j \in Delegate /\ j \in Nat /\ i \in Nat
      BY <1>1, TaskIsDelegate, ConstantsAssumption DEF Delegate
    <3>2. CASE j = i
      BY <1>4, <3>1, <3>2 DEF Launching
    <3>3. CASE j # i
      BY <1>3, <1>4, <3>1, <3>3
    <3> QED BY <3>2, <3>3
  <2>3. CASE i < width
    <3>1. thread' = i + 1 /\ i + 1 \in Task /\ i + 1 > i /\ i + 1 # 0
      BY <1>1, <1>2, <2>3, ConstantsAssumption DEF Task, Delegate
    <3>2. pc'[thread'] = "launch"
      BY <2>2, <3>1
    <3>3. \A j \in Task : /\ j < thread' => pc'[j] \notin Launching
                          /\ j > thread' => pc'[j] = "launch"
      BY <1>1, <2>2, <3>1, ConstantsAssumption DEF Task, Delegate
    <3> QED BY <1>2, <2>1, <3>1, <3>2, <3>3 DEF LaunchInv, Launching, Task
  <2>4. CASE ~(i < width)
    <3>1. thread' = 0
      BY <1>2, <2>4
    <3>2. \A j \in Task : pc'[j] \notin Launching
      BY <1>1, <2>2, <2>4, ConstantsAssumption DEF Task, Delegate
    <3> QED BY <1>2, <2>1, <3>1, <3>2 DEF LaunchInv, Task
  <2> QED BY <2>3, <2>4
<1>6. IsFiniteSet(Holders) /\ i \notin Holders
  BY <1>1, <1>2, DelegateFinite, FS_Subset DEF Holders, Holding, Launching
<1>7. limit \in Nat /\ limit' = limit /\ inFlight \in Nat
  BY <1>2, ConstantsAssumption DEF TypeOK
<1>8. CASE inFlight < limit
  <2>1. /\ pc' = [pc EXCEPT ![i] = "granted"]
        /\ inFlight' = inFlight + 1 /\ waiters' = waiters
    BY <1>2, <1>8 DEF Acquire
  <2>2. waiters = <<>>
    BY <1>7, <1>8 DEF CoreInv, SlotsInv
  <2>3. \A j \in Delegate : pc[j] # "waiting"
    BY <2>2 DEF CoreInv, QueueInv
  <2>4. SlotsInv'
    <3>1. Holders' = Holders \cup {i}
      BY <1>1, <2>1 DEF Holders, Holding
    <3>2. Cardinality(Holders') = Cardinality(Holders) + 1
      BY <3>1, <1>6, FS_AddElement
    <3> QED BY <1>7, <1>8, <2>1, <2>2, <3>2 DEF CoreInv, SlotsInv
  <2>5. \A j \in Delegate : pc'[j] # "waiting"
    BY <1>1, <2>1, <2>3
  <2>6. QueueInv' /\ NoOvertaking'
    BY <1>2, <2>1, <2>2, <2>5, TaskIsDelegate DEF QueueInv, NoOvertaking, Task
  <2> QED BY <1>5, <2>4, <2>6 DEF CoreInv
<1>9. CASE ~(inFlight < limit)
  <2>1. /\ pc' = [pc EXCEPT ![i] = "waiting"]
        /\ inFlight' = inFlight /\ waiters' = Append(waiters, i)
    BY <1>2, <1>9 DEF Acquire
  <2>2. /\ Len(waiters) \in Nat
        /\ DOMAIN waiters = 1..Len(waiters)
        /\ DOMAIN waiters' = 1..(Len(waiters) + 1)
        /\ waiters'[Len(waiters) + 1] = i
        /\ \A k \in 1..Len(waiters) : waiters'[k] = waiters[k] /\ waiters[k] \in Delegate
    BY <1>1, <2>1
  <2>3. SlotsInv'
    <3>1. Holders' = Holders
      BY <1>1, <1>6, <2>1 DEF Holders, Holding
    <3> QED BY <1>7, <1>9, <2>1, <3>1 DEF CoreInv, SlotsInv
  <2>4. \A k \in 1..Len(waiters) : waiters[k] < i
    <3> SUFFICES ASSUME NEW k \in 1..Len(waiters)  PROVE waiters[k] < i
      OBVIOUS
    <3>1. waiters[k] \in Delegate /\ pc[waiters[k]] = "waiting"
      BY <2>2 DEF CoreInv, QueueInv
    <3>2. waiters[k] \in Task
      BY <1>1, <3>1, ConstantsAssumption DEF CoreInv, LaunchInv, Task, Delegate
    <3>3. waiters[k] # i /\ ~(waiters[k] > i)
      BY <1>2, <1>3, <3>1, <3>2 DEF Launching
    <3> QED BY <1>1, <3>1, <3>3, ConstantsAssumption DEF Delegate
  <2>5. QueueInv'
    <3>1. \A j \in Delegate : pc'[j] = "waiting" => \E k \in DOMAIN waiters' : waiters'[k] = j
      <4> SUFFICES ASSUME NEW j \in Delegate, pc'[j] = "waiting"
                   PROVE  \E k \in DOMAIN waiters' : waiters'[k] = j
        OBVIOUS
      <4>1. CASE j = i
        BY <2>2, <4>1
      <4>2. CASE j # i
        <5>1. PICK k \in DOMAIN waiters : waiters[k] = j
          BY <1>4, <4>2 DEF CoreInv, QueueInv
        <5> QED BY <2>2, <5>1
      <4> QED BY <4>1, <4>2
    <3>2. \A k \in DOMAIN waiters' : pc'[waiters'[k]] = "waiting"
      <4> SUFFICES ASSUME NEW k \in DOMAIN waiters'  PROVE pc'[waiters'[k]] = "waiting"
        OBVIOUS
      <4>1. CASE k = Len(waiters) + 1
        BY <1>1, <2>1, <2>2, <4>1
      <4>2. CASE k \in 1..Len(waiters)
        <5>1. waiters'[k] = waiters[k] /\ waiters[k] \in Delegate /\ pc[waiters[k]] = "waiting"
          BY <2>2, <4>2 DEF CoreInv, QueueInv
        <5> QED BY <1>1, <2>1, <5>1
      <4> QED BY <2>2, <4>1, <4>2
    <3>3. \A k, l \in DOMAIN waiters' : k < l => waiters'[k] < waiters'[l]
      BY <2>2, <2>4 DEF CoreInv, QueueInv
    <3> QED BY <3>1, <3>2, <3>3 DEF QueueInv
  <2>6. NoOvertaking'
    <3> SUFFICES ASSUME NEW j \in Task, NEW l \in Task, j < l, pc'[j] = "waiting"
                 PROVE  pc'[l] \in {"launch", "announced", "waiting"}
      BY <1>2 DEF NoOvertaking, Task
    <3>1. j \in Delegate /\ l \in Delegate
      BY TaskIsDelegate
    <3>2. CASE l = i
      BY <1>1, <2>1, <3>2
    <3>3. CASE l # i /\ j = i
      BY <1>3, <1>4, <3>1, <3>3
    <3>4. CASE l # i /\ j # i
      BY <1>4, <3>1, <3>4 DEF CoreInv, NoOvertaking
    <3> QED BY <3>2, <3>3, <3>4
  <2> QED BY <1>5, <2>3, <2>5, <2>6 DEF CoreInv
<1> QED BY <1>8, <1>9

\* Steps that touch neither a task's place nor the semaphore.
LEMMA IdleStep ==
  ASSUME CoreInv, UNCHANGED <<width, limit, pc, thread, slots>>
  PROVE  CoreInv'
<1>1. /\ width' = width /\ limit' = limit /\ pc' = pc /\ thread' = thread
      /\ inFlight' = inFlight /\ waiters' = waiters
  BY DEF slots
<1>2. Holders' = Holders
  BY <1>1 DEF Holders
<1> QED BY <1>1, <1>2 DEF CoreInv, LaunchInv, SlotsInv, QueueInv, NoOvertaking, Task

\* Every step keeps launching and the semaphore consistent.
LEMMA CoreStep ==
  ASSUME TypeOK, CoreInv, [Next]_vars
  PROVE  CoreInv'
<1>1. ASSUME NEW i \in Task, AnnounceQueued(i)  PROVE CoreInv'
  BY <1>1, AnnounceStep DEF AnnounceQueued, Step, config
<1>2. ASSUME NEW i \in Task, AcquireSlot(i)  PROVE CoreInv'
  BY <1>2, AcquireStep
<1>3. ASSUME NEW i \in Task, SkipClosed(i) \/ FinishSkip(i) \/ Deliver(i) \/ HandleThrow(i)
      PROVE  CoreInv'
  <2>1. pc[i] \in Holding /\ Release(i) /\ thread \in {0, i} /\ thread' = 0 /\ UNCHANGED <<width, limit>>
    BY <1>3 DEF SkipClosed, FinishSkip, Deliver, HandleThrow, Holding, config
  <2> QED BY <2>1, ReleaseStep
<1>4. ASSUME NEW i \in Task,
             \/ SkipSibling(i) \/ Refuse(i) \/ Start(i) \/ RunChild(i) \/ ChildFinal(i)
             \/ CatchClosed(i) \/ CatchOpen(i) \/ FinishFail(i)
             \/ Complete(i) \/ FinishComplete(i) \/ FinishAborted(i)
      PROVE  CoreInv'
  <2>1. PICK from \in Holding, to \in Holding, held \in BOOLEAN : Step(i, from, to, held)
    BY <1>4 DEF SkipSibling, Refuse, Start, RunChild, ChildFinal, CatchClosed, CatchOpen,
                FinishFail, Complete, FinishComplete, FinishAborted, Holding
  <2>2. thread \in {0, i} /\ UNCHANGED <<width, limit, slots>>
    BY <1>4 DEF SkipSibling, Refuse, Start, RunChild, ChildFinal, CatchClosed, CatchOpen,
                FinishFail, Complete, FinishComplete, FinishAborted, config
  <2> QED BY <2>1, <2>2, HoldStep DEF Step
<1>5. ASSUME NEW i \in Task, ChildAnswer(i) \/ ChildTurn(i)  PROVE CoreInv'
  BY <1>5, IdleStep DEF ChildAnswer, ChildTurn, config
<1>6. CASE ParentStep \/ Finished \/ UNCHANGED vars
  BY <1>6, IdleStep
  DEF ParentStep, Settle, Cancel, CallerAbort, DeadlineElapses, TimeoutFires,
      TimeoutDrain, Finished, vars, config
<1> QED
  BY <1>1, <1>2, <1>3, <1>4, <1>5, <1>6 DEF Next, TaskStep, ChildStep

\* At every moment, for any number of delegates and slots and whatever fails or
\* is cancelled, the semaphore counts its holders, stays within the limit,
\* loses no waiter and serves them in order.
THEOREM CoreInvariant == Spec => [](TypeOK /\ CoreInv)
<1>1. Init => TypeOK /\ CoreInv
  BY TypeInit, CoreInit
<1>2. TypeOK /\ CoreInv /\ [Next]_vars => (TypeOK /\ CoreInv)'
  BY TypeStep, CoreStep DEF CoreInv
<1> QED BY <1>1, <1>2, PTL DEF Spec

\* Every variable stays in its domain.
THEOREM TypeCorrect == Spec => []TypeOK
BY CoreInvariant, PTL

\* The wave never runs more children than it has slots, and a child waits only
\* while all are taken.
THEOREM SlotsCorrect == Spec => []SlotsInv
<1>1. TypeOK /\ CoreInv => SlotsInv
  BY DEF CoreInv
<1> QED BY CoreInvariant, <1>1, PTL

\* The queue of the semaphore holds exactly the waiting tasks, in order.
THEOREM QueueCorrect == Spec => []QueueInv
<1>1. TypeOK /\ CoreInv => QueueInv
  BY DEF CoreInv
<1> QED BY CoreInvariant, <1>1, PTL

\* No delegate overtakes one that was queued before it.
THEOREM NoOvertakingCorrect == Spec => []NoOvertaking
<1>1. TypeOK /\ CoreInv => NoOvertaking
  BY DEF CoreInv
<1> QED BY CoreInvariant, <1>1, PTL

-----------------------------------------------------------------------------
(* Costs and event logs                                                    *)

\* What is emitted stays emitted when the log grows.
LEMMA EmittedMono ==
  ASSUME NEW es, NEW K, NEW L, K \subseteq L, Emitted(es, K)
  PROVE  Emitted(es, L)
BY DEF Emitted

\* What an emit adds to the logs.
LEMMA EmitEffect ==
  ASSUME TypeOK, NEW i \in Task, NEW e \in LogEvents, Emit(i, e), NEW K, NEW j \in Task
  PROVE  Emitted(log'[j], K) <=> Emitted(log[j], K) \/ (j = i /\ e \in K)
<1>1. i \in Delegate /\ j \in Delegate /\ log \in [Delegate -> Seq(LogEvents)]
  BY TaskIsDelegate DEF TypeOK
<1>2. CASE j = i
  <2>1. log'[j] = Append(log[j], e) /\ log[j] \in Seq(LogEvents)
    BY <1>1, <1>2 DEF Emit
  <2> QED BY <1>2, <2>1, EmittedAppend
<1>3. CASE j # i
  BY <1>1, <1>3 DEF Emit
<1> QED BY <1>2, <1>3

\* What a drain adds to the logs and to the cost.
LEMMA DrainEffect ==
  ASSUME TypeOK, NEW p \in BOOLEAN, Drain(p), NEW K, NEW j \in Task
  PROVE  /\ Emitted(log'[j], K) <=>
              Emitted(log[j], K) \/ (~closed[j] /\ DrainEvent(j) \in K)
         /\ charged'[j] = charged[j] + IF closed[j] THEN 0 ELSE costed[j]
<1>1. j \in Delegate /\ log \in [Delegate -> Seq(LogEvents)] /\ charged \in [Delegate -> Nat]
  BY TaskIsDelegate DEF TypeOK
<1>2. DrainEvent(j) \in LogEvents
  BY DEF DrainEvent, LogEvents, TerminalEvents
<1>3. log'[j] = IF closed[j] THEN log[j] ELSE Append(log[j], DrainEvent(j))
  BY <1>1 DEF Drain
<1>4. Emitted(log'[j], K) <=> Emitted(log[j], K) \/ (~closed[j] /\ DrainEvent(j) \in K)
  BY <1>1, <1>2, <1>3, EmittedAppend
<1>5. charged'[j] = charged[j] + IF closed[j] THEN 0 ELSE costed[j]
  BY <1>1 DEF Drain
<1> QED BY <1>4, <1>5

\* A step that emits nothing and moves no money keeps the ledger, unless it
\* takes a task back to an earlier part of its code.
LEMMA QuietStep ==
  ASSUME LedgerInv, UNCHANGED <<width, money, log>>,
         abort' = abort \/ abort' # "none",
         \A j \in Task : /\ pc'[j] \in Unstarted => pc[j] \in Unstarted
                         /\ pc'[j] \in Unreported => pc[j] \in Unreported
                         /\ pc[j] \in {"skipping", "done"} => pc'[j] \in {"skipping", "done"}
  PROVE  LedgerInv'
<1> SUFFICES ASSUME NEW j \in Task  PROVE TaskLedger(j)'
  BY DEF LedgerInv, Task
<1>1. /\ spend' = spend /\ costed' = costed /\ charged' = charged /\ log' = log
      /\ TaskLedger(j)
  BY DEF money, LedgerInv
<1> QED BY <1>1 DEF TaskLedger

\* Where a release takes the tasks.
LEMMA ReleaseEffect ==
  ASSUME TypeOK, CoreInv, NEW i \in Task, Release(i), NEW j \in Task
  PROVE  \/ pc'[j] = pc[j]
         \/ j = i /\ pc'[j] = "done"
         \/ pc[j] = "waiting" /\ pc'[j] = "granted"
<1>1. /\ i \in Delegate /\ j \in Delegate
      /\ pc \in [Delegate -> PcValues] /\ waiters \in Seq(Delegate)
  BY TaskIsDelegate DEF TypeOK
<1>2. CASE waiters = <<>>
  BY <1>1, <1>2 DEF Release
<1>3. CASE waiters # <<>>
  <2>1. Head(waiters) = waiters[1] /\ 1 \in DOMAIN waiters /\ waiters[1] \in Delegate
    BY <1>1, <1>3
  <2>2. pc[Head(waiters)] = "waiting"
    BY <2>1 DEF CoreInv, QueueInv
  <2> QED BY <1>1, <1>3, <2>1, <2>2 DEF Release
<1> QED BY <1>2, <1>3

\* No child has a cost or an event at first.
LEMMA LedgerInit == Init => LedgerInv
<1> SUFFICES ASSUME NEW w \in Delegate, InitFor(w), NEW j \in Task  PROVE TaskLedger(j)
  BY DEF Init, LedgerInv
<1>1. j \in Delegate
  BY TypeInit, TaskIsDelegate DEF Init
<1>2. \A K : ~Emitted(log[j], K)
  BY <1>1 DEF InitFor, Emitted
<1>3. spend[j] = 0 /\ costed[j] = 0 /\ charged[j] = 0
  BY <1>1 DEF InitFor
<1> QED BY <1>2, <1>3 DEF TaskLedger

\* Steps of a task that emit nothing.
LEMMA SilentLedger ==
  ASSUME TypeOK, CoreInv, LedgerInv, NEW i \in Task,
         \/ AcquireSlot(i) \/ SkipClosed(i) \/ FinishSkip(i) \/ Refuse(i) \/ RunChild(i)
         \/ CatchClosed(i) \/ FinishFail(i) \/ FinishComplete(i) \/ Deliver(i) \/ HandleThrow(i)
  PROVE  LedgerInv'
<1>1. i \in Delegate /\ pc \in [Delegate -> PcValues] /\ (\A j \in Task : j \in Delegate)
  BY TaskIsDelegate DEF TypeOK
<1>2. UNCHANGED <<width, money, log>> /\ abort' = abort
  BY DEF AcquireSlot, SkipClosed, FinishSkip, Refuse, RunChild, CatchClosed, FinishFail,
         FinishComplete, Deliver, HandleThrow, config, events, parent
<1>3. CASE AcquireSlot(i)
  <2>1. pc[i] \in {"launch", "announced"} /\ pc' \in {[pc EXCEPT ![i] = "granted"], [pc EXCEPT ![i] = "waiting"]}
    BY <1>3 DEF AcquireSlot, Acquire
  <2> QED BY <1>1, <1>2, <2>1, QuietStep DEF Unstarted, Unreported, Queued
<1>4. CASE SkipClosed(i) \/ FinishSkip(i) \/ Deliver(i) \/ HandleThrow(i)
  <2>1. Release(i)
    BY <1>4 DEF SkipClosed, FinishSkip, Deliver, HandleThrow
  <2>2. \A j \in Task : \/ pc'[j] = pc[j]
                        \/ pc'[j] = "done"
                        \/ pc[j] = "waiting" /\ pc'[j] = "granted"
    BY <2>1, ReleaseEffect
  <2> QED BY <1>2, <2>2, QuietStep DEF Unstarted, Unreported, Queued
<1>5. CASE Refuse(i) \/ RunChild(i) \/ CatchClosed(i) \/ FinishFail(i) \/ FinishComplete(i)
  <2>1. PICK from \in {"granted", "starting", "running", "failing", "completing"},
             to \in {"running", "threw", "returned"} :
             pc[i] = from /\ pc' = [pc EXCEPT ![i] = to] /\ (to = "running" => from = "starting")
    BY <1>5 DEF Refuse, RunChild, CatchClosed, FinishFail, FinishComplete, Step
  <2> QED BY <1>1, <1>2, <2>1, QuietStep DEF Unstarted, Unreported, Queued
<1> QED BY <1>3, <1>4, <1>5

\* Steps of a task that emit an event other than a child's outcome.
LEMMA NoticeLedger ==
  ASSUME TypeOK, LedgerInv, NEW i \in Task,
         AnnounceQueued(i) \/ SkipSibling(i) \/ Start(i) \/ FinishAborted(i)
  PROVE  LedgerInv'
<1> SUFFICES ASSUME NEW j \in Task  PROVE TaskLedger(j)'
  BY DEF LedgerInv, Task, AnnounceQueued, SkipSibling, Start, FinishAborted, config
<1>1. i \in Delegate /\ j \in Delegate /\ pc \in [Delegate -> PcValues]
  BY TaskIsDelegate DEF TypeOK
<1>2. PICK e \in {"queued", "sibling", "started", "parentAborted"} :
        /\ Emit(i, e)
        /\ e = "sibling" => pc[i] = "granted" /\ pc' = [pc EXCEPT ![i] = "skipping"]
        /\ e # "sibling" => \E to \in {"announced", "starting", "threw"} :
             /\ pc' = [pc EXCEPT ![i] = to]
             /\ to # "threw" => pc[i] \in {"launch", "granted"}
             /\ to = "threw" => pc[i] = "completing" /\ abort # "none"
  BY DEF AnnounceQueued, SkipSibling, Start, FinishAborted, Step
<1>3. e \in LogEvents
  BY DEF LogEvents, TerminalEvents
<1>4. /\ spend' = spend /\ costed' = costed /\ charged' = charged /\ abort' = abort
      /\ TaskLedger(j)
  BY DEF AnnounceQueued, SkipSibling, Start, FinishAborted, money, parent, LedgerInv
<1>5. /\ Emitted(log'[j], {"sibling"}) <=> Emitted(log[j], {"sibling"}) \/ (j = i /\ e = "sibling")
      /\ Emitted(log'[j], {"completed"}) <=> Emitted(log[j], {"completed"})
      /\ Emitted(log'[j], {"failed"}) <=> Emitted(log[j], {"failed"})
      /\ Emitted(log'[j], TerminalEvents) <=> Emitted(log[j], TerminalEvents) \/ (j = i /\ e = "sibling")
  BY <1>2, <1>3, EmitEffect, SMTT(30) DEF TerminalEvents
<1>6. CASE j # i
  BY <1>1, <1>2, <1>4, <1>5, <1>6 DEF TaskLedger
<1>7. CASE j = i /\ e = "sibling"
  BY <1>1, <1>2, <1>4, <1>5, <1>7 DEF TaskLedger, Unstarted, Unreported, Queued
<1>8. CASE j = i /\ e # "sibling"
  BY <1>1, <1>2, <1>4, <1>5, <1>8 DEF TaskLedger, Unstarted, Unreported, Queued
<1> QED BY <1>6, <1>7, <1>8

\* The child engine spends and reports.
LEMMA ChildLedger ==
  ASSUME TypeOK, LedgerInv, NEW i \in Task, ChildStep(i)
  PROVE  LedgerInv'
<1> SUFFICES ASSUME NEW j \in Task  PROVE TaskLedger(j)'
  BY DEF LedgerInv, Task, ChildStep, ChildAnswer, ChildTurn, ChildFinal, config
<1>1. /\ i \in Delegate /\ j \in Delegate /\ pc \in [Delegate -> PcValues]
      /\ spend \in [Delegate -> Nat] /\ costed \in [Delegate -> Nat]
  BY TaskIsDelegate DEF TypeOK
<1>2. /\ pc[i] = "running" /\ abort = "none" /\ abort' = abort /\ log' = log
      /\ charged' = charged /\ pc' \in {pc, [pc EXCEPT ![i] = "finished"]}
  BY DEF ChildStep, ChildAnswer, ChildTurn, ChildFinal, Step, events, parent
<1>3. \A k \in Delegate : k # i => spend'[k] = spend[k] /\ costed'[k] = costed[k]
  BY <1>1 DEF ChildStep, ChildAnswer, ChildTurn, ChildFinal
<1>4. TaskLedger(j) /\ TaskLedger(i)
  BY DEF LedgerInv
<1>5. ~Emitted(log[i], TerminalEvents)
  BY <1>2, <1>4 DEF TaskLedger, Unreported
<1>6. /\ ~Emitted(log[i], {"sibling"}) /\ ~Emitted(log[i], {"completed"})
      /\ ~Emitted(log[i], {"failed"})
  BY <1>5, EmittedMono DEF TerminalEvents
<1>7. CASE j = i
  BY <1>1, <1>2, <1>4, <1>5, <1>6, <1>7 DEF TaskLedger, Unstarted, Queued
<1>8. CASE j # i
  BY <1>1, <1>2, <1>3, <1>4, <1>8 DEF TaskLedger
<1> QED BY <1>7, <1>8

\* A child's outcome is charged and reported.
LEMMA OutcomeLedger ==
  ASSUME TypeOK, LedgerInv, NEW i \in Task, CatchOpen(i) \/ Complete(i)
  PROVE  LedgerInv'
<1> SUFFICES ASSUME NEW j \in Task  PROVE TaskLedger(j)'
  BY DEF LedgerInv, Task, CatchOpen, Complete, config
<1>1. /\ i \in Delegate /\ j \in Delegate /\ pc \in [Delegate -> PcValues]
      /\ charged \in [Delegate -> Nat] /\ spend \in [Delegate -> Nat] /\ costed \in [Delegate -> Nat]
      /\ abort \in {"none", "cancelled", "timedOut"}
  BY TaskIsDelegate DEF TypeOK
<1>2. PICK e \in {"completed", "failed", "aborted"} :
        /\ Emit(i, e)
        /\ e = "completed" => /\ Charge(i, spend[i]) /\ pc[i] = "finished"
                              /\ pc' = [pc EXCEPT ![i] = "completing"]
        /\ e # "completed" => /\ Charge(i, costed[i]) /\ pc[i] = "running"
                              /\ pc' = [pc EXCEPT ![i] = "failing"]
        /\ e = "aborted" => abort # "none"
  <2>1. CASE Complete(i)
    BY <2>1 DEF Complete, Step
  <2>2. CASE CatchOpen(i)
    <3>1. PICK x \in ChildErrors : Emit(i, IF x \in RealErrors THEN "failed" ELSE "aborted")
      BY <2>2 DEF CatchOpen
    <3>2. x \notin RealErrors => abort # "none"
      BY DEF ChildErrors, RealErrors
    <3> QED BY <2>2, <3>1, <3>2 DEF CatchOpen, Step
  <2> QED BY <2>1, <2>2
<1>3. e \in LogEvents
  BY DEF LogEvents, TerminalEvents
<1>4. /\ spend' = spend /\ costed' = costed /\ abort' = abort
      /\ TaskLedger(j) /\ TaskLedger(i)
  BY DEF CatchOpen, Complete, parent, LedgerInv
<1>5. /\ Emitted(log'[j], {"sibling"}) <=> Emitted(log[j], {"sibling"})
      /\ Emitted(log'[j], {"completed"}) <=> Emitted(log[j], {"completed"}) \/ (j = i /\ e = "completed")
      /\ Emitted(log'[j], {"failed"}) <=> Emitted(log[j], {"failed"}) \/ (j = i /\ e = "failed")
      /\ j # i => (Emitted(log'[j], TerminalEvents) <=> Emitted(log[j], TerminalEvents))
  BY <1>2, <1>3, EmitEffect DEF TerminalEvents
<1>6. CASE j # i
  BY <1>1, <1>2, <1>4, <1>5, <1>6 DEF TaskLedger, Charge
<1>7. CASE j = i
  <2>1. /\ pc'[i] \in {"completing", "failing"}
        /\ charged'[i] = charged[i] + IF e = "completed" THEN spend[i] ELSE costed[i]
    BY <1>1, <1>2 DEF Charge
  <2>2. abort = "none" => /\ ~Emitted(log[i], {"completed"}) /\ ~Emitted(log[i], {"failed"})
                          /\ ~Emitted(log[i], {"sibling"}) /\ charged[i] = 0
    <3>1. abort = "none" => ~Emitted(log[i], TerminalEvents)
      BY <1>2, <1>4 DEF TaskLedger, Unreported
    <3>2. abort = "none" => /\ ~Emitted(log[i], {"completed"}) /\ ~Emitted(log[i], {"failed"})
                            /\ ~Emitted(log[i], {"sibling"})
      BY <3>1, EmittedMono DEF TerminalEvents
    <3> QED BY <1>4, <3>2 DEF TaskLedger
  <2> QED BY <1>1, <1>2, <1>4, <1>5, <1>7, <2>1, <2>2 DEF TaskLedger, Unstarted, Unreported, Queued
<1> QED BY <1>6, <1>7

\* The parent's abort drains the open children.
LEMMA DrainLedger ==
  ASSUME TypeOK, LedgerInv, RanInv, Cancel \/ TimeoutDrain
  PROVE  LedgerInv'
<1> SUFFICES ASSUME NEW j \in Task  PROVE TaskLedger(j)'
  BY DEF LedgerInv, Task, Cancel, TimeoutDrain, config
<1>1. PICK p \in BOOLEAN : Drain(p)
  BY DEF Cancel, TimeoutDrain
<1>2. /\ spend' = spend /\ costed' = costed /\ pc' = pc /\ abort' # "none"
      /\ TaskLedger(j) /\ TaskRan(j)
  BY DEF Cancel, TimeoutDrain, LedgerInv, RanInv
<1>3. /\ Emitted(log'[j], {"sibling"}) <=>
           Emitted(log[j], {"sibling"}) \/ (~closed[j] /\ DrainEvent(j) \in {"sibling"})
      /\ charged'[j] = charged[j] + IF closed[j] THEN 0 ELSE costed[j]
  BY <1>1, DrainEffect
<1>4. j \in Delegate /\ pc[j] \in PcValues
  BY TaskIsDelegate DEF TypeOK
<1>5. ~closed[j] /\ DrainEvent(j) = "sibling" => spend[j] = 0 /\ costed[j] = 0 /\ charged[j] = 0
  <2>1. DrainEvent(j) = "sibling" => pc[j] \in Unstarted \cup {"returned", "threw", "done"}
    BY <1>4 DEF DrainEvent, Started, Unstarted, Queued, PcValues
  <2> QED BY <1>2, <2>1 DEF TaskLedger, TaskRan
<1> QED BY <1>2, <1>3, <1>5 DEF TaskLedger

\* Every step keeps each child's cost, events and place in step.
LEMMA LedgerStep ==
  ASSUME TypeOK, CoreInv, LedgerInv, RanInv, [Next]_vars
  PROVE  LedgerInv'
<1>1. ASSUME NEW i \in Task, TaskStep(i)  PROVE LedgerInv'
  BY <1>1, SilentLedger, NoticeLedger, OutcomeLedger DEF TaskStep
<1>2. ASSUME NEW i \in Task, ChildStep(i)  PROVE LedgerInv'
  BY <1>2, ChildLedger
<1>3. CASE Cancel \/ TimeoutDrain
  BY <1>3, DrainLedger
<1>4. CASE Settle \/ CallerAbort \/ DeadlineElapses \/ TimeoutFires \/ UNCHANGED vars
  BY <1>4, QuietStep
  DEF Settle, CallerAbort, DeadlineElapses, TimeoutFires, vars, config, events, parent
<1> QED
  BY <1>1, <1>2, <1>3, <1>4 DEF Next, ParentStep, Finished

\* Only the start of a child reports it started.
LEMMA OnlyStartStarts ==
  ASSUME TypeOK, [Next]_vars, NEW j \in Task, Emitted(log'[j], {"started"})
  PROVE  Emitted(log[j], {"started"}) \/ Start(j)
<1>1. ASSUME NEW i \in Task, Start(i), j # i  PROVE Emitted(log[j], {"started"})
  <2>1. Emit(i, "started") /\ "started" \in LogEvents
    BY <1>1 DEF Start, LogEvents
  <2> QED BY <1>1, <2>1, EmitEffect
<1>2. ASSUME NEW i \in Task, NEW e \in LogEvents, Emit(i, e), e # "started"
      PROVE  Emitted(log[j], {"started"})
  BY <1>2, EmitEffect
<1>3. ASSUME NEW i \in Task,
             \/ AnnounceQueued(i) \/ SkipSibling(i) \/ FinishAborted(i)
             \/ Complete(i) \/ CatchOpen(i)
      PROVE  Emitted(log[j], {"started"})
  <2>1. PICK e \in LogEvents : Emit(i, e) /\ e # "started"
    BY <1>3 DEF AnnounceQueued, SkipSibling, FinishAborted, Complete, CatchOpen,
                LogEvents, TerminalEvents
  <2> QED BY <1>2, <2>1
<1>4. ASSUME NEW p \in BOOLEAN, Drain(p)  PROVE Emitted(log[j], {"started"})
  <2>1. DrainEvent(j) \notin {"started"}
    BY DEF DrainEvent
  <2> QED BY <1>4, <2>1, DrainEffect
<1>5. CASE Cancel \/ TimeoutDrain
  BY <1>4, <1>5 DEF Cancel, TimeoutDrain
<1>6. CASE UNCHANGED log
  BY <1>6
<1>7. ASSUME NEW i \in Task,
             \/ AcquireSlot(i) \/ SkipClosed(i) \/ FinishSkip(i) \/ Refuse(i) \/ RunChild(i)
             \/ CatchClosed(i) \/ FinishFail(i) \/ FinishComplete(i) \/ Deliver(i)
             \/ HandleThrow(i) \/ ChildStep(i)
      PROVE  UNCHANGED log
  BY <1>7 DEF AcquireSlot, SkipClosed, FinishSkip, Refuse, RunChild, CatchClosed, FinishFail,
              FinishComplete, Deliver, HandleThrow, ChildStep, ChildAnswer, ChildTurn,
              ChildFinal, events
<1>8. ASSUME Settle \/ CallerAbort \/ DeadlineElapses \/ TimeoutFires \/ UNCHANGED vars
      PROVE  UNCHANGED log
  BY <1>8 DEF Settle, CallerAbort, DeadlineElapses, TimeoutFires, vars, events
<1> QED
  BY <1>1, <1>3, <1>5, <1>6, <1>7, <1>8 DEF Next, TaskStep, ParentStep, Finished

\* Once a task has handled a sibling's failure no further child is started.
THEOREM NoStartCorrect == Spec => NoStartAfterFailure
<1>1. TypeOK /\ [Next]_vars =>
        \A i \in Task : firstFailure # 0 /\ ~Emitted(log[i], {"started"})
                          => ~Emitted(log'[i], {"started"})
  BY OnlyStartStarts DEF Start
<1>2. TypeOK /\ [Next]_vars =>
        [\A i \in Task : firstFailure # 0 /\ ~Emitted(log[i], {"started"})
                           => ~Emitted(log'[i], {"started"})]_vars
  BY <1>1
<1> QED BY TypeCorrect, <1>2, PTL DEF Spec, NoStartAfterFailure

-----------------------------------------------------------------------------
(* Prompt, abort mode and reports: the follow-up prompt and abort mode go  *)
(* by what the event log says, and a stream whose subscribers do not       *)
(* cancel from inside a callback implements SubRunLifecycle.               *)


-----------------------------------------------------------------------------
(* What one step does to one task                                          *)

\* release() ends its task and may wake one that waits.
LEMMA ReleaseMoves ==
  ASSUME TypeOK, CoreInv, NEW i \in Task, pc[i] \in Holding, Release(i), NEW j \in Delegate
  PROVE  /\ j = i => pc'[j] = "done"
         /\ j # i => pc'[j] = pc[j] \/ (pc[j] = "waiting" /\ pc'[j] = "granted")
<1>1. /\ i \in Delegate /\ pc[i] # "waiting"
      /\ pc \in [Delegate -> PcValues] /\ waiters \in Seq(Delegate)
  BY TaskIsDelegate DEF TypeOK, Holding
<1>2. CASE waiters = <<>>
  BY <1>1, <1>2 DEF Release
<1>3. CASE waiters # <<>>
  <2>1. Head(waiters) = waiters[1] /\ 1 \in DOMAIN waiters /\ waiters[1] \in Delegate
    BY <1>1, <1>3
  <2>2. pc[Head(waiters)] = "waiting"
    BY <2>1 DEF CoreInv, QueueInv
  <2> QED BY <1>1, <1>3, <2>1, <2>2 DEF Release
<1> QED BY <1>2, <1>3

\* What a task leaves alone: everything about the others but a wake-up.
Untouched(j) ==
  /\ pc'[j] = pc[j] \/ (pc[j] = "waiting" /\ pc'[j] = "granted")
  /\ closed'[j] = closed[j] /\ error'[j] = error[j] /\ outcome'[j] = outcome[j]
  /\ log'[j] = log[j] /\ published'[j] = published[j]
  /\ j \in failure' <=> j \in failure

\* A task and its child change nothing about the other tasks, except that the
\* end of a task may wake the one that waited longest.
LEMMA OtherTask ==
  ASSUME TypeOK, CoreInv, NEW i \in Task, TaskStep(i) \/ ChildStep(i),
         NEW j \in Delegate, j # i
  PROVE  Untouched(j)
<1>1. /\ pc \in [Delegate -> PcValues] /\ closed \in [Delegate -> BOOLEAN]
      /\ error \in [Delegate -> {"none", "typed", "validation", "timeout", "cancelled"}]
      /\ outcome \in [Delegate -> {"none", "result", "failure", "skipped", "rethrown"}]
      /\ log \in [Delegate -> Seq(LogEvents)] /\ published \in [Delegate -> Seq(LogEvents)]
  BY DEF TypeOK
<1>2. CASE SkipClosed(i) \/ FinishSkip(i) \/ Deliver(i) \/ HandleThrow(i)
  <2>1. Release(i) /\ pc[i] \in Holding
    BY <1>2 DEF SkipClosed, FinishSkip, Deliver, HandleThrow, Holding
  <2>2. pc'[j] = pc[j] \/ (pc[j] = "waiting" /\ pc'[j] = "granted")
    BY <2>1, ReleaseMoves
  <2>3. closed'[j] = closed[j] /\ outcome'[j] = outcome[j]
    BY <1>1, <1>2 DEF SkipClosed, FinishSkip, Deliver, HandleThrow
  <2>4. error' = error /\ log' = log /\ published' = published /\ failure' = failure
    BY <1>2 DEF SkipClosed, FinishSkip, Deliver, HandleThrow, events
  <2> QED BY <2>2, <2>3, <2>4 DEF Untouched
<1>3. CASE AcquireSlot(i)
  BY <1>1, <1>3 DEF AcquireSlot, Acquire, Untouched, events
<1>4. CASE AnnounceQueued(i) \/ SkipSibling(i) \/ Start(i) \/ Complete(i)
  BY <1>1, <1>4 DEF AnnounceQueued, SkipSibling, Start, Complete, Emit, Step, Untouched
<1>5. CASE Refuse(i) \/ RunChild(i) \/ FinishComplete(i) \/ FinishFail(i) \/ CatchClosed(i)
  BY <1>1, <1>5
  DEF Refuse, RunChild, FinishComplete, FinishFail, CatchClosed, Step, Untouched, events
<1>6. CASE CatchOpen(i)
  <2>1. PICK e \in ChildErrors :
          /\ error' = [error EXCEPT ![i] = e]
          /\ Emit(i, IF e \in RealErrors THEN "failed" ELSE "aborted")
    BY <1>6 DEF CatchOpen
  <2> QED BY <1>1, <1>6, <2>1 DEF CatchOpen, Emit, Step, Untouched
<1>7. CASE FinishAborted(i)
  BY <1>1, <1>7 DEF FinishAborted, Emit, Step, Untouched
<1>8. CASE ChildStep(i)
  BY <1>1, <1>8 DEF ChildStep, ChildAnswer, ChildTurn, ChildFinal, Step, Untouched, events
<1> QED BY <1>2, <1>3, <1>4, <1>5, <1>6, <1>7, <1>8 DEF TaskStep

\* What the steps of tasks and children never change.
LEMMA TaskFrame ==
  ASSUME NEW i \in Task, TaskStep(i) \/ ChildStep(i)
  PROVE  UNCHANGED <<config, parent, verdict>>
BY DEF TaskStep, ChildStep, AnnounceQueued, AcquireSlot, SkipClosed, SkipSibling, FinishSkip,
       Refuse, Start, RunChild, CatchClosed, CatchOpen, FinishFail, Complete, FinishComplete,
       FinishAborted, Deliver, HandleThrow, ChildAnswer, ChildTurn, ChildFinal

-----------------------------------------------------------------------------
(* Who ran                                                                 *)

\* No child has run or been reported at first.
LEMMA RanInit == Init => RanInv
<1> SUFFICES ASSUME NEW w \in Delegate, InitFor(w), NEW j \in Task  PROVE TaskRan(j)
  BY DEF Init, RanInv
<1>1. j \in Delegate
  BY TypeInit, TaskIsDelegate DEF Init
<1>2. pc[j] = "launch" /\ \A K : ~Emitted(log[j], K)
  BY <1>1 DEF InitFor, Emitted
<1> QED BY <1>2 DEF TaskRan, Started

\* A task and its child move no money of others.
LEMMA OtherMoney ==
  ASSUME TypeOK, NEW i \in Task, TaskStep(i) \/ ChildStep(i), NEW j \in Delegate, j # i
  PROVE  spend'[j] = spend[j] /\ costed'[j] = costed[j] /\ charged'[j] = charged[j]
<1>1. /\ spend \in [Delegate -> Nat] /\ costed \in [Delegate -> Nat]
      /\ charged \in [Delegate -> Nat]
  BY DEF TypeOK
<1>2. CASE ChildStep(i)
  BY <1>1, <1>2 DEF ChildStep, ChildAnswer, ChildTurn, ChildFinal
<1>3. CASE Complete(i) \/ CatchOpen(i)
  BY <1>1, <1>3 DEF Complete, CatchOpen, Charge
<1>4. CASE \/ AnnounceQueued(i) \/ AcquireSlot(i) \/ SkipClosed(i) \/ SkipSibling(i)
           \/ FinishSkip(i) \/ Refuse(i) \/ Start(i) \/ RunChild(i) \/ CatchClosed(i)
           \/ FinishFail(i) \/ FinishComplete(i) \/ FinishAborted(i) \/ Deliver(i)
           \/ HandleThrow(i)
  BY <1>4 DEF AnnounceQueued, AcquireSlot, SkipClosed, SkipSibling, FinishSkip, Refuse, Start,
     RunChild, CatchClosed, FinishFail, FinishComplete, FinishAborted, Deliver, HandleThrow,
     money
<1> QED BY <1>2, <1>3, <1>4 DEF TaskStep

\* What a task's own step makes of who ran.
LEMMA OwnRan ==
  ASSUME TypeOK, CoreInv, LedgerInv, RanInv, NEW i \in Task, TaskStep(i) \/ ChildStep(i)
  PROVE  TaskRan(i)'
<1>1. /\ i \in Delegate /\ pc \in [Delegate -> PcValues]
      /\ closed \in [Delegate -> BOOLEAN]
      /\ TaskRan(i) /\ TaskLedger(i)
  BY TaskIsDelegate DEF TypeOK, RanInv, LedgerInv
<1>2. CASE SkipClosed(i) \/ FinishSkip(i) \/ Deliver(i) \/ HandleThrow(i)
  <2>1. Release(i) /\ pc[i] \in Holding /\ log' = log /\ UNCHANGED money
    BY <1>2 DEF SkipClosed, FinishSkip, Deliver, HandleThrow, Holding, events
  <2>2. pc'[i] = "done"
    BY <2>1, <1>1, ReleaseMoves
  <2>3. CASE SkipClosed(i) \/ Deliver(i)
    <3>1. pc[i] \in {"granted", "returned"} /\ closed[i] /\ closed'[i]
      BY <1>1, <2>3 DEF SkipClosed, Deliver, TaskRan
    <3> QED BY <1>1, <2>1, <2>2, <3>1 DEF TaskRan, Started, Unstarted, Queued
  <2>4. CASE FinishSkip(i)
    <3>1. closed'[i]
      BY <1>1, <2>4 DEF FinishSkip
    <3> QED BY <1>1, <2>1, <2>2, <3>1 DEF TaskRan, Started, Unstarted, Queued
  <2>5. CASE HandleThrow(i)
    <3>1. pc[i] = "threw" /\ closed' = closed
      BY <2>5 DEF HandleThrow
    <3> QED BY <1>1, <2>1, <2>2, <3>1 DEF TaskRan, Started, Unstarted, Queued, money
  <2> QED BY <1>2, <2>3, <2>4, <2>5
<1>3. CASE AcquireSlot(i)
  <2>1. /\ pc[i] \in {"launch", "announced"} /\ pc'[i] \in {"granted", "waiting"}
        /\ log' = log /\ closed' = closed
    BY <1>1, <1>3 DEF AcquireSlot, Acquire, events
  <2> QED BY <1>1, <2>1 DEF TaskRan, Started, Unstarted, Queued
<1>4. CASE AnnounceQueued(i) \/ Start(i) \/ FinishAborted(i)
  <2>1. PICK e \in {"queued", "started", "parentAborted"} :
          /\ Emit(i, e)
          /\ Start(i) => e = "started"
    BY <1>4 DEF AnnounceQueued, Start, FinishAborted
  <2>2. e \in LogEvents /\ e \notin Ran /\ e # "sibling"
    BY <2>1 DEF LogEvents, TerminalEvents, Ran
  <2>3. /\ Emitted(log'[i], Ran) <=> Emitted(log[i], Ran)
        /\ Emitted(log'[i], {"sibling"}) <=> Emitted(log[i], {"sibling"})
        /\ Emitted(log'[i], {"started"}) <=> Emitted(log[i], {"started"}) \/ e = "started"
    BY <2>1, <2>2, EmitEffect
  <2>4. CASE AnnounceQueued(i)
    <3>1. pc[i] = "launch" /\ pc'[i] = "announced" /\ closed' = closed
      BY <1>1, <2>4 DEF AnnounceQueued, Step
    <3> QED BY <1>1, <2>3, <3>1 DEF TaskRan, Started, Unstarted, Queued
  <2>5. CASE Start(i)
    <3>1. pc[i] = "granted" /\ pc'[i] = "starting" /\ closed' = closed
      BY <1>1, <2>5 DEF Start, Step
    <3> QED BY <1>1, <2>1, <2>3, <2>5, <3>1 DEF TaskRan, Started, Unstarted, Queued
  <2>6. CASE FinishAborted(i)
    <3>1. pc[i] = "completing" /\ pc'[i] = "threw" /\ closed'[i]
      BY <1>1, <2>6 DEF FinishAborted, Step
    <3> QED BY <1>1, <2>3, <3>1 DEF TaskRan, Started, Unstarted, Queued
  <2> QED BY <1>4, <2>4, <2>5, <2>6
<1>5. CASE SkipSibling(i)
  <2>1. /\ Emit(i, "sibling") /\ "sibling" \in LogEvents /\ "sibling" \notin Ran
        /\ pc[i] = "granted" /\ pc'[i] = "skipping"
    BY <1>1, <1>5 DEF SkipSibling, Step, LogEvents, TerminalEvents, Ran
  <2>2. /\ Emitted(log'[i], Ran) <=> Emitted(log[i], Ran)
        /\ Emitted(log'[i], {"started"}) <=> Emitted(log[i], {"started"})
    BY <2>1, EmitEffect
  <2> QED BY <1>1, <2>1, <2>2 DEF TaskRan, Started, Unstarted, Queued
<1>6. CASE Complete(i) \/ CatchOpen(i)
  <2>1. PICK e \in Ran : Emit(i, e)
    <3>1. CASE Complete(i)
      BY <3>1 DEF Complete, Ran
    <3>2. CASE CatchOpen(i)
      BY <3>2 DEF CatchOpen, Ran
    <3> QED BY <1>6, <3>1, <3>2
  <2>2. e \in LogEvents /\ e # "sibling" /\ e # "started"
    BY <2>1 DEF LogEvents, TerminalEvents, Ran
  <2>3. /\ Emitted(log'[i], {"sibling"}) <=> Emitted(log[i], {"sibling"})
        /\ Emitted(log'[i], {"started"}) <=> Emitted(log[i], {"started"})
    BY <2>1, <2>2, EmitEffect
  <2>4. /\ pc[i] \in {"finished", "running"} /\ (pc[i] = "running" => ~closed[i])
        /\ pc'[i] \in {"completing", "failing"}
    BY <1>1, <1>6 DEF Complete, CatchOpen, Step
  <2>5. ~Emitted(log[i], {"sibling"}) /\ Emitted(log[i], {"started"})
    BY <1>1, <2>4 DEF TaskRan, Started
  <2> QED BY <2>3, <2>4, <2>5 DEF TaskRan, Started, Unstarted, Queued
<1>7. CASE Refuse(i) \/ RunChild(i)
  <2>1. log' = log /\ closed' = closed /\ UNCHANGED money
    BY <1>7 DEF Refuse, RunChild, events
  <2>2. \/ pc[i] = "granted" /\ pc'[i] = "threw"
        \/ pc[i] = "starting" /\ pc'[i] = "running"
    BY <1>1, <1>7 DEF Refuse, RunChild, Step
  <2> QED BY <1>1, <2>1, <2>2 DEF TaskRan, TaskLedger, Started, Unstarted, Queued, money
<1>8. CASE ChildStep(i)
  <2>1. /\ log' = log /\ closed' = closed /\ abort = "none" /\ pc[i] = "running"
        /\ pc'[i] \in {"running", "finished"}
    BY <1>1, <1>8 DEF ChildStep, ChildAnswer, ChildTurn, ChildFinal, Step, events
  <2>2. ~Emitted(log[i], {"sibling"})
    BY <1>1, <2>1 DEF TaskLedger
  <2> QED BY <1>1, <2>1, <2>2 DEF TaskRan, Started, Unstarted, Queued
<1>9. CASE CatchClosed(i) \/ FinishFail(i) \/ FinishComplete(i)
  <2>1. /\ log' = log /\ closed'[i] /\ pc[i] \in {"running", "failing", "completing"}
        /\ pc'[i] \in {"threw", "returned"}
    BY <1>1, <1>9 DEF CatchClosed, FinishFail, FinishComplete, Step, events
  <2> QED BY <1>1, <2>1 DEF TaskRan, Started, Unstarted, Queued
<1> QED BY <1>2, <1>3, <1>4, <1>5, <1>6, <1>7, <1>8, <1>9 DEF TaskStep

\* A drain tells of a child that it is aborted only if it was started, and of one
\* that is not started - refused ones among them - that it never will be.
LEMMA DrainRan ==
  ASSUME TypeOK, RanInv, LedgerInv, Cancel \/ TimeoutDrain
  PROVE  RanInv'
<1> SUFFICES ASSUME NEW j \in Task  PROVE TaskRan(j)'
  BY DEF RanInv, Task, Cancel, TimeoutDrain, config
<1>1. PICK p \in BOOLEAN : Drain(p)
  BY DEF Cancel, TimeoutDrain
<1>2. /\ pc' = pc /\ spend' = spend /\ costed' = costed /\ TaskRan(j)
      /\ j \in Delegate /\ pc[j] \in PcValues
  BY TaskIsDelegate DEF Cancel, TimeoutDrain, RanInv, TypeOK
<1>3. closed'[j]
  BY <1>1, <1>2 DEF Drain
<1>4. \A K : Emitted(log'[j], K) <=>
               Emitted(log[j], K) \/ (~closed[j] /\ DrainEvent(j) \in K)
  BY <1>1, DrainEffect
<1>5. CASE closed[j]
  <2>1. \A K : Emitted(log'[j], K) <=> Emitted(log[j], K)
    BY <1>4, <1>5
  <2> QED BY <1>2, <1>3, <1>5, <2>1 DEF TaskRan, Started
<1>6. CASE ~closed[j] /\ Started(j)
  <2>1. DrainEvent(j) = "aborted"
    BY <1>6 DEF DrainEvent
  <2>2. /\ Emitted(log'[j], {"sibling"}) <=> Emitted(log[j], {"sibling"})
        /\ Emitted(log'[j], {"started"}) <=> Emitted(log[j], {"started"})
    BY <1>4, <2>1
  <2>3. ~Emitted(log[j], {"sibling"}) /\ Emitted(log[j], {"started"})
    BY <1>2, <1>6 DEF TaskRan, Started
  <2> QED BY <1>2, <1>3, <1>6, <2>2, <2>3 DEF TaskRan, Started, Unstarted, Queued
<1>7. CASE ~closed[j] /\ ~Started(j)
  <2>1. DrainEvent(j) = "sibling" /\ "sibling" \notin Ran
    BY <1>7 DEF DrainEvent, Ran
  <2>2. /\ Emitted(log'[j], Ran) <=> Emitted(log[j], Ran)
        /\ Emitted(log'[j], {"started"}) <=> Emitted(log[j], {"started"})
    BY <1>4, <2>1
  <2>3. ~Emitted(log[j], Ran)
    BY <1>2, <1>7 DEF TaskRan, Started, Unstarted, Queued, PcValues
  <2> QED BY <1>2, <1>3, <1>7, <2>2, <2>3 DEF TaskRan, Started
<1> QED BY <1>5, <1>6, <1>7

\* Every step keeps what is told of a child true of it.
LEMMA RanStep ==
  ASSUME TypeOK, CoreInv, LedgerInv, RanInv, [Next]_vars
  PROVE  RanInv'
<1>1. ASSUME NEW i \in Task, TaskStep(i) \/ ChildStep(i)  PROVE RanInv'
  <2>1. Task' = Task
    BY <1>1, TaskFrame DEF Task, config
  <2>2. ASSUME NEW j \in Task, j # i  PROVE TaskRan(j)'
    <3>1. /\ Untouched(j) /\ TaskRan(j)
          /\ spend'[j] = spend[j] /\ costed'[j] = costed[j] /\ charged'[j] = charged[j]
      BY <1>1, <2>2, OtherTask, OtherMoney, TaskIsDelegate DEF RanInv
    <3> QED BY <3>1 DEF Untouched, TaskRan, Started, Unstarted, Queued
  <2>3. TaskRan(i)'
    BY <1>1, OwnRan
  <2> QED BY <2>1, <2>2, <2>3 DEF RanInv
<1>2. CASE Cancel \/ TimeoutDrain
  BY <1>2, DrainRan
<1>3. CASE Settle \/ CallerAbort \/ DeadlineElapses \/ TimeoutFires \/ UNCHANGED vars
  <2>1. /\ pc' = pc /\ width' = width /\ closed' = closed /\ log' = log /\ UNCHANGED money
    BY <1>3 DEF Settle, CallerAbort, DeadlineElapses, TimeoutFires, vars, config, events
  <2> QED BY <2>1 DEF RanInv, TaskRan, Started, Task, money
<1> QED BY <1>1, <1>2, <1>3 DEF Next, ParentStep, Finished

\* IInv is inductive and holds initially.
THEOREM Invariant == Spec => []IInv
<1>1. Init => IInv
  BY TypeInit, CoreInit, LedgerInit, RanInit DEF IInv, CoreInv
<1>2. IInv /\ [Next]_vars => IInv'
  BY TypeStep, CoreStep, LedgerStep, RanStep DEF IInv, CoreInv
<1> QED BY <1>1, <1>2, PTL DEF Spec

\* While the parent is not aborted, its totalCost holds one contribution per
\* closed child: its spend, its last reported cost, or nothing.
THEOREM CostRollUpCorrect == Spec => []CostRollUp
<1>1. IInv => CostRollUp
  BY DEF IInv, LedgerInv, TaskLedger, CostRollUp
<1> QED BY Invariant, <1>1, PTL

\* Whatever order a task, a sibling and the drain report in: sibling-failed is told
\* of children that never ran and cost nothing, any other end of children that
\* were reported started, and never both of one child.
THEOREM ReasonCorrect == Spec => []ReasonTellsWhoRan
<1>1. IInv => ReasonTellsWhoRan
  <2> SUFFICES ASSUME IInv, NEW i \in Task
               PROVE  /\ Emitted(log[i], {"sibling"}) =>
                           ~Emitted(log[i], Ran) /\ spend[i] = 0 /\ charged[i] = 0
                      /\ Emitted(log[i], Ran) => Emitted(log[i], {"started"})
    BY DEF ReasonTellsWhoRan
  <2>1. TaskLedger(i) /\ TaskRan(i)
    BY DEF IInv, LedgerInv, RanInv
  <2> QED BY <2>1 DEF TaskLedger, TaskRan
<1> QED BY Invariant, <1>1, PTL

-----------------------------------------------------------------------------
(* Failures, outcomes and the verdict                                      *)

\* A failure is recorded for exactly the children whose failure is reported,
\* and the report comes first.
TaskFailure(i) ==
  /\ i \in failure => Emitted(log[i], {"failed"}) /\ pc[i] \in {"threw", "done"}
  /\ Emitted(log[i], {"failed"}) =>
       i \in failure \/ (pc[i] = "failing" /\ error[i] \in RealErrors)
  /\ pc[i] = "failing" /\ error[i] \in RealErrors => Emitted(log[i], {"failed"})

FailureInv == \A i \in Task : TaskFailure(i)

\* The wave ends when every task has, and what it decided stays justified.
VerdictInv ==
  /\ wave # "open" => \A i \in Task : pc[i] = "done"
  /\ wave = "aborted" => trigger \in failure
  /\ wave = "replan" => outcome[1] # "rethrown" /\ (policy = "continue" \/ failure = {})

\* Until the parent aborts, where a task stands and what it pushed on
\* dispatchResults is what its event log says.
TaskStory(i) ==
  /\ outcome[i] = "none" <=> pc[i] # "done"
  /\ outcome[i] = "rethrown" => width = 1
  /\ abort = "none" =>
       /\ closed[i] => pc[i] \in {"returned", "threw", "done"}
       /\ Emitted(log[i], {"completed"}) <=>
            \/ pc[i] \in {"completing", "returned"}
            \/ pc[i] = "done" /\ outcome[i] = "result"
       /\ Emitted(log[i], {"sibling"}) <=>
            \/ pc[i] = "skipping"
            \/ pc[i] = "done" /\ outcome[i] = "skipped"

StoryInv == \A i \in Task : TaskStory(i)

OutcomeInv == FailureInv /\ VerdictInv /\ StoryInv

\* Nothing has been reported, recorded or decided at first.
LEMMA OutcomeInit == Init => OutcomeInv
<1> SUFFICES ASSUME NEW w \in Delegate, InitFor(w)  PROVE OutcomeInv
  BY DEF Init
<1>1. TypeOK
  BY TypeInit DEF Init
<1>2. \A i \in Task : i \in Delegate
  BY <1>1, TaskIsDelegate
<1>3. \A i \in Task : \A K : ~Emitted(log[i], K)
  BY <1>2 DEF InitFor, Emitted
<1>4. /\ failure = {} /\ wave = "open" /\ abort = "none"
      /\ \A i \in Task : pc[i] = "launch" /\ ~closed[i] /\ outcome[i] = "none"
  BY <1>2 DEF InitFor
<1> QED BY <1>3, <1>4 DEF OutcomeInv, FailureInv, TaskFailure, VerdictInv, StoryInv, TaskStory

\* A task's own step keeps the record of its failure in step with its log.
LEMMA OwnFailure ==
  ASSUME TypeOK, CoreInv, FailureInv, NEW i \in Task, TaskStep(i) \/ ChildStep(i)
  PROVE  TaskFailure(i)'
<1>1. /\ i \in Delegate /\ pc \in [Delegate -> PcValues]
      /\ error \in [Delegate -> {"none", "typed", "validation", "timeout", "cancelled"}]
      /\ TaskFailure(i)
  BY TaskIsDelegate DEF TypeOK, FailureInv
<1>2. CASE SkipClosed(i) \/ FinishSkip(i) \/ Deliver(i) \/ HandleThrow(i)
  <2>1. Release(i) /\ pc[i] \in Holding /\ pc[i] # "failing"
    BY <1>2 DEF SkipClosed, FinishSkip, Deliver, HandleThrow, Holding
  <2>2. pc'[i] = "done" /\ log' = log /\ failure' = failure
    BY <1>1, <1>2, <2>1, ReleaseMoves DEF SkipClosed, FinishSkip, Deliver, HandleThrow, events
  <2> QED BY <1>1, <2>1, <2>2 DEF TaskFailure
<1>3. CASE AcquireSlot(i)
  BY <1>1, <1>3 DEF AcquireSlot, Acquire, TaskFailure, events
<1>4. CASE AnnounceQueued(i) \/ SkipSibling(i) \/ Start(i) \/ Complete(i) \/ FinishAborted(i)
  <2>1. PICK e \in LogEvents \ {"failed"} : Emit(i, e)
    BY <1>4 DEF AnnounceQueued, SkipSibling, Start, Complete, FinishAborted, LogEvents,
                TerminalEvents
  <2>2. Emitted(log'[i], {"failed"}) <=> Emitted(log[i], {"failed"})
    BY <2>1, EmitEffect
  <2>3. /\ pc[i] \notin {"failing", "threw", "done"} /\ pc'[i] # "failing"
        /\ failure' = failure
    BY <1>1, <1>4 DEF AnnounceQueued, SkipSibling, Start, Complete, FinishAborted, Step
  <2> QED BY <1>1, <2>2, <2>3 DEF TaskFailure
<1>5. CASE Refuse(i) \/ RunChild(i) \/ FinishComplete(i) \/ CatchClosed(i) \/ ChildStep(i)
  <2>1. /\ pc[i] \notin {"failing", "threw", "done"} /\ pc'[i] # "failing"
        /\ failure' = failure /\ log' = log
    BY <1>1, <1>5 DEF Refuse, RunChild, FinishComplete, CatchClosed, ChildStep, ChildAnswer,
                      ChildTurn, ChildFinal, Step, events
  <2> QED BY <1>1, <2>1 DEF TaskFailure
<1>6. CASE FinishFail(i)
  <2>1. /\ pc[i] = "failing" /\ pc'[i] = "threw" /\ log' = log
        /\ i \in failure' <=> i \in failure \/ error[i] \in RealErrors
    BY <1>1, <1>6 DEF FinishFail, Step, events
  <2> QED BY <1>1, <2>1 DEF TaskFailure
<1>7. CASE CatchOpen(i)
  <2>1. PICK x \in ChildErrors :
          /\ error' = [error EXCEPT ![i] = x]
          /\ Emit(i, IF x \in RealErrors THEN "failed" ELSE "aborted")
    BY <1>7 DEF CatchOpen
  <2>2. PICK e \in LogEvents : Emit(i, e) /\ (e = "failed" <=> x \in RealErrors)
    BY <2>1 DEF LogEvents, TerminalEvents
  <2>3. Emitted(log'[i], {"failed"}) <=> Emitted(log[i], {"failed"}) \/ x \in RealErrors
    BY <2>2, EmitEffect
  <2>4. pc[i] = "running" /\ pc'[i] = "failing" /\ error'[i] = x /\ failure' = failure
    BY <1>1, <1>7, <2>1 DEF CatchOpen, Step
  <2> QED BY <1>1, <2>3, <2>4 DEF TaskFailure
<1> QED BY <1>2, <1>3, <1>4, <1>5, <1>6, <1>7 DEF TaskStep

\* What an abort's drain reports is never the failure of a child.
LEMMA DrainFailure ==
  ASSUME TypeOK, FailureInv, Cancel \/ TimeoutDrain
  PROVE  FailureInv'
<1>1. PICK p \in BOOLEAN : Drain(p)
  BY DEF Cancel, TimeoutDrain
<1>2. pc' = pc /\ error' = error /\ failure' = failure /\ width' = width
  BY DEF Cancel, TimeoutDrain, config
<1>3. \A i \in Task : Emitted(log'[i], {"failed"}) <=> Emitted(log[i], {"failed"})
  <2>1. \A i \in Task : DrainEvent(i) \notin {"failed"}
    BY DEF DrainEvent
  <2> QED BY <1>1, <2>1, DrainEffect
<1> QED BY <1>2, <1>3 DEF FailureInv, TaskFailure, Task

\* Every step records the failures it reports.
LEMMA FailureStep ==
  ASSUME TypeOK, CoreInv, FailureInv, [Next]_vars
  PROVE  FailureInv'
<1>1. ASSUME NEW i \in Task, TaskStep(i) \/ ChildStep(i)  PROVE FailureInv'
  <2>1. Task' = Task /\ i \in Delegate
    BY <1>1, TaskFrame, TaskIsDelegate DEF Task, config
  <2>2. ASSUME NEW j \in Task, j # i  PROVE TaskFailure(j)'
    <3>1. Untouched(j) /\ TaskFailure(j)
      BY <1>1, <2>2, OtherTask, TaskIsDelegate DEF FailureInv
    <3> QED BY <3>1 DEF Untouched, TaskFailure
  <2>3. TaskFailure(i)'
    BY <1>1, OwnFailure
  <2> QED BY <2>1, <2>2, <2>3 DEF FailureInv
<1>2. CASE Cancel \/ TimeoutDrain
  BY <1>2, DrainFailure
<1>3. CASE Settle \/ CallerAbort \/ DeadlineElapses \/ TimeoutFires \/ UNCHANGED vars
  <2>1. pc' = pc /\ error' = error /\ failure' = failure /\ width' = width /\ log' = log
    BY <1>3 DEF Settle, CallerAbort, DeadlineElapses, TimeoutFires, vars, config, events
  <2> QED BY <2>1 DEF FailureInv, TaskFailure, Task
<1> QED BY <1>1, <1>2, <1>3 DEF Next, ParentStep, Finished

\* A task that is done takes no step, nor does its child.
LEMMA DoneIsDone ==
  ASSUME NEW i \in Task, TaskStep(i) \/ ChildStep(i)
  PROVE  pc[i] # "done"
BY DEF TaskStep, ChildStep, AnnounceQueued, AcquireSlot, SkipClosed, SkipSibling, FinishSkip,
       Refuse, Start, RunChild, CatchClosed, CatchOpen, FinishFail, Complete, FinishComplete,
       FinishAborted, Deliver, HandleThrow, ChildAnswer, ChildTurn, ChildFinal, Step

\* Every step keeps the verdict justified by the failures recorded.
LEMMA VerdictStep ==
  ASSUME TypeOK, VerdictInv, [Next]_vars
  PROVE  VerdictInv'
<1>1. ASSUME NEW i \in Task, TaskStep(i) \/ ChildStep(i)  PROVE VerdictInv'
  <2>1. wave = "open" /\ wave' = wave
    BY <1>1, DoneIsDone, TaskFrame DEF VerdictInv, verdict
  <2> QED BY <2>1 DEF VerdictInv
<1>2. CASE Settle
  <2>1. /\ pc' = pc /\ outcome' = outcome /\ failure' = failure /\ width' = width
        /\ policy' = policy /\ \A i \in Task : pc[i] = "done"
    BY <1>2 DEF Settle, config
  <2>2. wave' = "aborted" => trigger' \in failure
    BY <1>2 DEF Settle
  <2>3. wave' = "replan" => outcome[1] # "rethrown" /\ (policy = "continue" \/ failure = {})
    BY <1>2 DEF Settle, TypeOK
  <2> QED BY <2>1, <2>2, <2>3 DEF VerdictInv, Task
<1>3. CASE Cancel \/ TimeoutDrain \/ CallerAbort \/ DeadlineElapses \/ TimeoutFires \/ UNCHANGED vars
  <2>1. /\ pc' = pc /\ outcome' = outcome /\ failure' = failure /\ width' = width
        /\ policy' = policy /\ wave' = wave /\ trigger' = trigger
    BY <1>3 DEF Cancel, TimeoutDrain, CallerAbort, DeadlineElapses, TimeoutFires, vars, config,
                verdict
  <2> QED BY <2>1 DEF VerdictInv, Task
<1> QED BY <1>1, <1>2, <1>3 DEF Next, ParentStep, Finished

\* A task's own step moves it, its outcome and its log together.
LEMMA OwnStory ==
  ASSUME TypeOK, CoreInv, StoryInv, NEW i \in Task, TaskStep(i) \/ ChildStep(i)
  PROVE  TaskStory(i)'
<1>1. /\ i \in Delegate /\ pc \in [Delegate -> PcValues]
      /\ closed \in [Delegate -> BOOLEAN]
      /\ outcome \in [Delegate -> {"none", "result", "failure", "skipped", "rethrown"}]
      /\ TaskStory(i)
  BY TaskIsDelegate DEF TypeOK, StoryInv
<1>2. width' = width /\ abort' = abort
  BY TaskFrame DEF config, parent
<1>3. CASE SkipClosed(i) \/ FinishSkip(i) \/ Deliver(i) \/ HandleThrow(i)
  <2>1. Release(i) /\ pc[i] \in Holding
    BY <1>3 DEF SkipClosed, FinishSkip, Deliver, HandleThrow, Holding
  <2>2. pc'[i] = "done" /\ log' = log
    BY <2>1, <1>1, <1>3, ReleaseMoves DEF SkipClosed, FinishSkip, Deliver, HandleThrow, events
  <2>3. CASE SkipClosed(i)
    BY <1>1, <1>2, <2>2, <2>3 DEF SkipClosed, TaskStory
  <2>4. CASE FinishSkip(i)
    <3>1. pc[i] = "skipping" /\ outcome'[i] = "skipped"
      BY <1>1, <2>4 DEF FinishSkip
    <3> QED BY <1>1, <1>2, <2>2, <3>1 DEF TaskStory
  <2>5. CASE Deliver(i)
    <3>1. pc[i] = "returned" /\ outcome'[i] = "result"
      BY <1>1, <2>5 DEF Deliver
    <3> QED BY <1>1, <1>2, <2>2, <3>1 DEF TaskStory
  <2>6. CASE HandleThrow(i)
    <3>1. /\ pc[i] = "threw"
          /\ outcome'[i] = IF Rethrows(i) THEN "rethrown" ELSE "failure"
      BY <1>1, <2>6 DEF HandleThrow
    <3> QED BY <1>1, <1>2, <2>2, <3>1 DEF TaskStory, Rethrows
  <2> QED BY <1>3, <2>3, <2>4, <2>5, <2>6
<1>4. CASE AcquireSlot(i)
  BY <1>1, <1>2, <1>4 DEF AcquireSlot, Acquire, TaskStory, events
<1>5. CASE AnnounceQueued(i) \/ Start(i) \/ FinishAborted(i) \/ CatchOpen(i)
  <2>1. PICK e \in LogEvents \ {"completed", "sibling"} : Emit(i, e)
    <3>1. CASE CatchOpen(i)
      BY <3>1 DEF CatchOpen, LogEvents, TerminalEvents
    <3>2. CASE AnnounceQueued(i) \/ Start(i) \/ FinishAborted(i)
      BY <3>2 DEF AnnounceQueued, Start, FinishAborted, LogEvents, TerminalEvents
    <3> QED BY <1>5, <3>1, <3>2
  <2>2. /\ Emitted(log'[i], {"completed"}) <=> Emitted(log[i], {"completed"})
        /\ Emitted(log'[i], {"sibling"}) <=> Emitted(log[i], {"sibling"})
    BY <2>1, EmitEffect
  <2>3. CASE FinishAborted(i)
    BY <1>1, <1>2, <2>2, <2>3 DEF FinishAborted, Step, TaskStory
  <2>4. CASE AnnounceQueued(i) \/ Start(i)
    BY <1>1, <1>2, <2>2, <2>4 DEF AnnounceQueued, Start, Step, TaskStory
  <2>5. CASE CatchOpen(i)
    BY <1>1, <1>2, <2>2, <2>5 DEF CatchOpen, Step, TaskStory
  <2> QED BY <1>5, <2>3, <2>4, <2>5
<1>6. CASE SkipSibling(i)
  <2>1. Emit(i, "sibling") /\ "sibling" \in LogEvents
    BY <1>6 DEF SkipSibling, LogEvents, TerminalEvents
  <2>2. /\ Emitted(log'[i], {"completed"}) <=> Emitted(log[i], {"completed"})
        /\ Emitted(log'[i], {"sibling"})
    BY <2>1, EmitEffect
  <2> QED BY <1>1, <1>2, <1>6, <2>2 DEF SkipSibling, Step, TaskStory
<1>7. CASE Complete(i)
  <2>1. Emit(i, "completed") /\ "completed" \in LogEvents
    BY <1>7 DEF Complete, LogEvents, TerminalEvents
  <2>2. /\ Emitted(log'[i], {"completed"})
        /\ Emitted(log'[i], {"sibling"}) <=> Emitted(log[i], {"sibling"})
    BY <2>1, EmitEffect
  <2> QED BY <1>1, <1>2, <1>7, <2>2 DEF Complete, Step, TaskStory
<1>8. CASE Refuse(i) \/ RunChild(i) \/ ChildStep(i)
  <2>1. log' = log /\ closed' = closed /\ outcome' = outcome
    BY <1>8 DEF Refuse, RunChild, ChildStep, ChildAnswer, ChildTurn, ChildFinal, events
  <2>2. /\ pc[i] \in {"granted", "starting", "running"}
        /\ pc'[i] \in {"threw", "running", "finished"}
    BY <1>1, <1>8 DEF Refuse, RunChild, ChildStep, ChildAnswer, ChildTurn, ChildFinal, Step
  <2> QED BY <1>1, <1>2, <2>1, <2>2 DEF TaskStory
<1>9. CASE CatchClosed(i) \/ FinishFail(i) \/ FinishComplete(i)
  <2>1. log' = log /\ outcome' = outcome
    BY <1>9 DEF CatchClosed, FinishFail, FinishComplete, events
  <2>2. CASE CatchClosed(i)
    <3>1. pc[i] = "running" /\ closed[i] /\ pc'[i] = "threw"
      BY <1>1, <2>2 DEF CatchClosed, Step
    <3> QED BY <1>1, <1>2, <2>1, <3>1 DEF TaskStory
  <2>3. CASE FinishFail(i)
    <3>1. pc[i] = "failing" /\ pc'[i] = "threw"
      BY <1>1, <2>3 DEF FinishFail, Step
    <3> QED BY <1>1, <1>2, <2>1, <3>1 DEF TaskStory
  <2>4. CASE FinishComplete(i)
    <3>1. pc[i] = "completing" /\ pc'[i] = "returned"
      BY <1>1, <2>4 DEF FinishComplete, Step
    <3> QED BY <1>1, <1>2, <2>1, <3>1 DEF TaskStory
  <2> QED BY <1>9, <2>2, <2>3, <2>4
<1> QED BY <1>3, <1>4, <1>5, <1>6, <1>7, <1>8, <1>9 DEF TaskStep

\* Every step keeps what a task pushed and what its log says in step.
LEMMA StoryStep ==
  ASSUME TypeOK, CoreInv, StoryInv, [Next]_vars
  PROVE  StoryInv'
<1>1. ASSUME NEW i \in Task, TaskStep(i) \/ ChildStep(i)  PROVE StoryInv'
  <2>1. Task' = Task /\ width' = width /\ abort' = abort
    BY <1>1, TaskFrame DEF Task, config, parent
  <2>2. ASSUME NEW j \in Task, j # i  PROVE TaskStory(j)'
    <3>1. Untouched(j) /\ TaskStory(j)
      BY <1>1, <2>2, OtherTask, TaskIsDelegate DEF StoryInv
    <3> QED BY <2>1, <3>1 DEF Untouched, TaskStory
  <2>3. TaskStory(i)'
    BY <1>1, OwnStory
  <2> QED BY <2>1, <2>2, <2>3 DEF StoryInv
<1>2. CASE Cancel \/ TimeoutDrain \/ CallerAbort \/ TimeoutFires
  <2>1. abort' # "none" /\ pc' = pc /\ outcome' = outcome /\ width' = width
    BY <1>2 DEF Cancel, TimeoutDrain, CallerAbort, TimeoutFires, config
  <2> QED BY <2>1 DEF StoryInv, TaskStory, Task
<1>3. CASE Settle \/ DeadlineElapses \/ UNCHANGED vars
  <2>1. /\ pc' = pc /\ outcome' = outcome /\ width' = width /\ closed' = closed
        /\ log' = log /\ abort' = abort
    BY <1>3 DEF Settle, DeadlineElapses, vars, config, events, parent
  <2> QED BY <2>1 DEF StoryInv, TaskStory, Task
<1> QED BY <1>1, <1>2, <1>3 DEF Next, ParentStep, Finished

\* The invariant behind the prompt and abort mode.
THEOREM OutcomeInvariant == Spec => [](TypeOK /\ CoreInv /\ OutcomeInv)
<1>1. Init => TypeOK /\ CoreInv /\ OutcomeInv
  BY TypeInit, CoreInit, OutcomeInit
<1>2. TypeOK /\ CoreInv /\ OutcomeInv /\ [Next]_vars => (TypeOK /\ CoreInv /\ OutcomeInv)'
  BY TypeStep, CoreStep, FailureStep, VerdictStep, StoryStep DEF CoreInv, OutcomeInv
<1> QED BY <1>1, <1>2, PTL DEF Spec

\* Abort mode takes no follow-up plan turn after a reported failure, and what
\* it rethrows is a failure a sub-run-failed event reported.
THEOREM AbortModeCorrect == Spec => []AbortModeStops
<1>1. TypeOK /\ CoreInv /\ OutcomeInv => AbortModeStops
  <2> SUFFICES ASSUME TypeOK, CoreInv, OutcomeInv, policy = "abort", wave # "open",
                      NEW i \in Task, Emitted(log[i], {"failed"})
               PROVE  /\ wave \in {"aborted", "rethrown"}
                      /\ wave = "aborted" => Emitted(log[trigger], {"failed"})
    BY DEF AbortModeStops
  <2>1. i \in failure
    BY DEF OutcomeInv, VerdictInv, FailureInv, TaskFailure
  <2>2. wave \in {"aborted", "rethrown"}
    BY <2>1 DEF OutcomeInv, VerdictInv, TypeOK
  <2>3. wave = "aborted" => Emitted(log[trigger], {"failed"})
    BY DEF OutcomeInv, VerdictInv, FailureInv, TaskFailure, TypeOK
  <2> QED BY <2>2, <2>3
<1> QED BY OutcomeInvariant, <1>1, PTL

\* The follow-up prompt accounts for every delegate as the event log does:
\* results for the completed, the roster for the really failed, no slot leaked.
THEOREM PromptCorrect == Spec => []PromptMatchesEvents
<1>1. TypeOK /\ CoreInv /\ OutcomeInv => PromptMatchesEvents
  <2> SUFFICES ASSUME TypeOK, CoreInv, OutcomeInv, wave = "replan", abort = "none"
               PROVE  /\ inFlight = 0
                      /\ \A i \in Task :
                           /\ outcome[i] = "result"  <=> Emitted(log[i], {"completed"})
                           /\ outcome[i] = "skipped" <=> Emitted(log[i], {"sibling"})
                           /\ outcome[i] \in {"result", "skipped", "failure"}
                      /\ failure = {i \in Task : Emitted(log[i], {"failed"})}
    BY DEF PromptMatchesEvents
  <2>1. \A i \in Task : i \in Delegate /\ pc[i] = "done" /\ TaskStory(i) /\ TaskFailure(i)
    BY TaskIsDelegate DEF OutcomeInv, VerdictInv, StoryInv, FailureInv
  <2>2. Holders = {}
    <3>1. \A i \in Delegate : pc[i] \notin Holding
      <4>1. \A i \in Delegate : i \in Task \/ i > width
        BY ConstantsAssumption DEF TypeOK, Delegate, Task
      <4> QED BY <2>1, <4>1 DEF Holding, CoreInv, LaunchInv
    <3> QED BY <3>1 DEF Holders
  <2>3. inFlight = 0
    BY <2>2, FS_EmptySet DEF CoreInv, SlotsInv
  <2>4. ASSUME NEW i \in Task
        PROVE  /\ outcome[i] = "result"  <=> Emitted(log[i], {"completed"})
               /\ outcome[i] = "skipped" <=> Emitted(log[i], {"sibling"})
    BY <2>1 DEF TaskStory
  <2>5. ASSUME NEW i \in Task  PROVE outcome[i] \in {"result", "skipped", "failure"}
    <3>1. outcome[i] # "rethrown"
      <4>1. outcome[i] = "rethrown" => i = 1
        BY <2>1, ConstantsAssumption DEF TaskStory, Task, TypeOK, Delegate
      <4> QED BY <4>1 DEF OutcomeInv, VerdictInv
    <3>2. outcome[i] # "none"
      BY <2>1 DEF TaskStory
    <3> QED BY <2>1, <3>1, <3>2 DEF TypeOK
  <2>6. failure = {i \in Task : Emitted(log[i], {"failed"})}
    BY <2>1 DEF TaskFailure, TypeOK
  <2> QED BY <2>3, <2>4, <2>5, <2>6
<1> QED BY OutcomeInvariant, <1>1, PTL

-----------------------------------------------------------------------------
(* What a stream reports                                                   *)

\* How one more event changes what has been reported about a child.
After(s, e) ==
  IF e = "completed" \/ s = "completed" THEN "completed"
  ELSE IF e \in FailedEvents \/ s = "failed" THEN "failed"
  ELSE IF e = "started" \/ s = "running" THEN "running"
  ELSE IF e = "queued" \/ s = "queued" THEN "queued"
  ELSE "idle"

\* A report is read off the events one by one.
LEMMA StatusAppend ==
  ASSUME NEW es \in Seq(LogEvents), NEW e \in LogEvents
  PROVE  StatusOf(Append(es, e)) = After(StatusOf(es), e)
<1>1. \A K : Emitted(Append(es, e), K) <=> Emitted(es, K) \/ e \in K
  BY EmittedAppend
<1>2. /\ Emitted(Append(es, e), {"completed"}) <=> Emitted(es, {"completed"}) \/ e = "completed"
      /\ Emitted(Append(es, e), FailedEvents) <=> Emitted(es, FailedEvents) \/ e \in FailedEvents
      /\ Emitted(Append(es, e), {"started"}) <=> Emitted(es, {"started"}) \/ e = "started"
      /\ Emitted(Append(es, e), {"queued"}) <=> Emitted(es, {"queued"}) \/ e = "queued"
  BY <1>1
<1> QED BY <1>2 DEF StatusOf, After

\* Nothing is reported before the first event.
LEMMA StatusEmpty == StatusOf(<<>>) = "idle"
BY DEF StatusOf, Emitted

\* What the subscribers of the stream see of each child.
Reports == [j \in Delegate |-> StatusOf(published[j])]

\* While the handle publishes, an emit is one more event of one child.
LEMMA PublishEffect ==
  ASSUME TypeOK, NEW i \in Task, NEW e \in LogEvents, Emit(i, e), handle = "running"
  PROVE  /\ StatusOf(published'[i]) = After(StatusOf(published[i]), e)
         /\ Reports' = [Reports EXCEPT ![i] = After(StatusOf(published[i]), e)]
<1>1. i \in Delegate /\ published \in [Delegate -> Seq(LogEvents)]
  BY TaskIsDelegate DEF TypeOK
<1>2. published' = [published EXCEPT ![i] = Append(@, e)]
  BY DEF Emit
<1>3. StatusOf(published'[i]) = After(StatusOf(published[i]), e)
  BY <1>1, <1>2, StatusAppend
<1>4. \A j \in Delegate : j # i => published'[j] = published[j]
  BY <1>1, <1>2
<1> QED BY <1>1, <1>3, <1>4 DEF Reports

\* Segments that call a subscriber hold the thread.
InSegment == {"announced", "skipping", "starting", "completing", "failing"}

\* What a stream that still publishes has reported about a child, told by where
\* its task stands.
TaskReport(i) ==
  /\ pc[i] \in InSegment => thread = i
  /\ handle = "running" =>
       LET s == StatusOf(published[i])
       IN  /\ pc[i] = "launch" => s = "idle"
           /\ pc[i] \in {"announced", "waiting", "granted"} => s \in {"idle", "queued"}
           /\ pc[i] \in {"starting", "running", "finished"} => s = "running"
           /\ pc[i] \in {"completing", "returned"} => s = "completed"
           /\ pc[i] \in {"skipping", "failing"} => s = "failed"
           /\ pc[i] \in {"threw", "done"} =>
                s \in IF closed[i] THEN {"completed", "failed"} ELSE {"idle", "queued"}
           /\ pc[i] = "returned" => closed[i]
           /\ closed[i] => pc[i] \in {"returned", "threw", "done"}

ReportInv == \A i \in Delegate : TaskReport(i)

\* Nothing is reported at first.
LEMMA ReportInit == Init => ReportInv
<1> SUFFICES ASSUME NEW w \in Delegate, InitFor(w), NEW j \in Delegate  PROVE TaskReport(j)
  BY DEF Init, ReportInv
<1>1. pc[j] = "launch" /\ ~closed[j] /\ StatusOf(published[j]) = "idle"
  BY StatusEmpty DEF InitFor
<1> QED BY <1>1 DEF TaskReport, InSegment

\* Only the task that holds the thread, or any when none does, takes a step;
\* it keeps the thread where it calls a subscriber.
LEMMA ThreadStep ==
  ASSUME TypeOK, CoreInv, NEW i \in Task, TaskStep(i) \/ ChildStep(i)
  PROVE  /\ thread \in {0, i}
         /\ pc'[i] \in InSegment => thread' = i
<1>1. i \in Delegate /\ pc \in [Delegate -> PcValues]
  BY TaskIsDelegate DEF TypeOK
<1>2. CASE SkipClosed(i) \/ FinishSkip(i) \/ Deliver(i) \/ HandleThrow(i)
  <2>1. Release(i) /\ pc[i] \in Holding
    BY <1>2 DEF SkipClosed, FinishSkip, Deliver, HandleThrow, Holding
  <2>2. pc'[i] = "done"
    BY <2>1, <1>1, ReleaseMoves
  <2> QED BY <1>2, <2>2 DEF SkipClosed, FinishSkip, Deliver, HandleThrow, InSegment
<1>3. CASE AcquireSlot(i)
  BY <1>1, <1>3 DEF AcquireSlot, Acquire, InSegment
<1>4. CASE AnnounceQueued(i) \/ SkipSibling(i) \/ Start(i) \/ Complete(i) \/ CatchOpen(i)
  BY <1>4 DEF AnnounceQueued, SkipSibling, Start, Complete, CatchOpen, Step
<1>5. CASE Refuse(i) \/ RunChild(i) \/ FinishComplete(i) \/ FinishFail(i) \/ CatchClosed(i)
           \/ FinishAborted(i)
  BY <1>1, <1>5 DEF Refuse, RunChild, FinishComplete, FinishFail, CatchClosed, FinishAborted,
                    Step, InSegment
<1>6. CASE ChildStep(i)
  BY <1>1, <1>6 DEF ChildStep, ChildAnswer, ChildTurn, ChildFinal, Step, InSegment
<1> QED BY <1>2, <1>3, <1>4, <1>5, <1>6 DEF TaskStep

\* A task's own step reports what its new place in the code says.
LEMMA OwnReport ==
  ASSUME TypeOK, CoreInv, ReportInv, NEW i \in Task, TaskStep(i) \/ ChildStep(i)
  PROVE  TaskReport(i)'
<1>1. /\ i \in Delegate /\ pc \in [Delegate -> PcValues]
      /\ closed \in [Delegate -> BOOLEAN]
      /\ TaskReport(i)
  BY TaskIsDelegate DEF TypeOK, ReportInv
<1>2. handle' = handle /\ (pc'[i] \in InSegment => thread' = i)
  BY TaskFrame, ThreadStep DEF parent
<1>3. CASE handle # "running"
  BY <1>2, <1>3 DEF TaskReport
<1>4. CASE handle = "running"
  <2> DEFINE s == StatusOf(published[i])
             t == StatusOf(published'[i])
  <2>1. /\ pc[i] = "launch" => s = "idle"
        /\ pc[i] \in {"announced", "waiting", "granted"} => s \in {"idle", "queued"}
        /\ pc[i] \in {"starting", "running", "finished"} => s = "running"
        /\ pc[i] \in {"completing", "returned"} => s = "completed"
        /\ pc[i] \in {"skipping", "failing"} => s = "failed"
        /\ pc[i] \in {"threw", "done"} =>
             s \in IF closed[i] THEN {"completed", "failed"} ELSE {"idle", "queued"}
        /\ pc[i] = "returned" => closed[i]
        /\ closed[i] => pc[i] \in {"returned", "threw", "done"}
    BY <1>1, <1>4 DEF TaskReport
  <2> SUFFICES
        /\ pc'[i] = "launch" => t = "idle"
        /\ pc'[i] \in {"announced", "waiting", "granted"} => t \in {"idle", "queued"}
        /\ pc'[i] \in {"starting", "running", "finished"} => t = "running"
        /\ pc'[i] \in {"completing", "returned"} => t = "completed"
        /\ pc'[i] \in {"skipping", "failing"} => t = "failed"
        /\ pc'[i] \in {"threw", "done"} =>
             t \in IF closed'[i] THEN {"completed", "failed"} ELSE {"idle", "queued"}
        /\ pc'[i] = "returned" => closed'[i]
        /\ closed'[i] => pc'[i] \in {"returned", "threw", "done"}
    BY <1>2 DEF TaskReport
  <2>2. published' = published => t = s
    OBVIOUS
  <2>3. \A e \in LogEvents : Emit(i, e) => t = After(s, e)
    BY <1>4, PublishEffect
  <2> HIDE DEF s, t
  <2>4. CASE SkipClosed(i) \/ FinishSkip(i) \/ Deliver(i) \/ HandleThrow(i)
    <3>1. Release(i) /\ pc[i] \in Holding
      BY <2>4 DEF SkipClosed, FinishSkip, Deliver, HandleThrow, Holding
    <3>2. pc'[i] = "done" /\ t = s
      BY <3>1, <1>1, <2>2, <2>4, ReleaseMoves
      DEF SkipClosed, FinishSkip, Deliver, HandleThrow, events
    <3>3. CASE SkipClosed(i)
      BY <2>1, <3>3 DEF SkipClosed
    <3>4. CASE FinishSkip(i)
      <4>1. closed'[i] /\ s = "failed"
        BY <1>1, <2>1, <3>4 DEF FinishSkip
      <4> QED BY <3>2, <4>1
    <3>5. CASE Deliver(i) \/ HandleThrow(i)
      <4>1. closed' = closed /\ pc[i] \in {"returned", "threw"} /\ (pc[i] = "returned" => closed[i])
        BY <2>1, <3>5 DEF Deliver, HandleThrow
      <4>2. s \in IF closed[i] THEN {"completed", "failed"} ELSE {"idle", "queued"}
        BY <2>1, <4>1
      <4> QED BY <3>2, <4>1, <4>2
    <3> QED BY <2>4, <3>3, <3>4, <3>5
  <2>5. CASE AcquireSlot(i)
    <3>1. /\ pc[i] \in {"launch", "announced"} /\ pc'[i] \in {"waiting", "granted"}
          /\ closed' = closed /\ t = s
      BY <1>1, <2>2, <2>5 DEF AcquireSlot, Acquire, events
    <3> QED BY <2>1, <3>1
  <2>6. CASE AnnounceQueued(i)
    <3>1. /\ pc[i] = "launch" /\ pc'[i] = "announced" /\ closed' = closed
          /\ Emit(i, "queued") /\ "queued" \in LogEvents
      BY <1>1, <2>6 DEF AnnounceQueued, Step, LogEvents
    <3> QED BY <2>1, <2>3, <3>1 DEF After, FailedEvents, TerminalEvents
  <2>7. CASE SkipSibling(i)
    <3>1. /\ pc[i] = "granted" /\ pc'[i] = "skipping" /\ closed' = closed
          /\ Emit(i, "sibling") /\ "sibling" \in LogEvents
      BY <1>1, <2>7 DEF SkipSibling, Step, LogEvents, TerminalEvents
    <3> QED BY <2>1, <2>3, <3>1 DEF After, FailedEvents, TerminalEvents
  <2>8. CASE Start(i)
    <3>1. /\ pc[i] = "granted" /\ pc'[i] = "starting" /\ closed' = closed
          /\ Emit(i, "started") /\ "started" \in LogEvents
      BY <1>1, <2>8 DEF Start, Step, LogEvents
    <3> QED BY <2>1, <2>3, <3>1 DEF After, FailedEvents, TerminalEvents
  <2>9. CASE Complete(i)
    <3>1. /\ pc[i] = "finished" /\ pc'[i] = "completing" /\ closed' = closed
          /\ Emit(i, "completed") /\ "completed" \in LogEvents
      BY <1>1, <2>9 DEF Complete, Step, LogEvents, TerminalEvents
    <3> QED BY <2>1, <2>3, <3>1 DEF After, FailedEvents, TerminalEvents
  <2>10. CASE CatchOpen(i)
    <3>1. PICK e \in {"failed", "aborted"} : Emit(i, e)
      BY <2>10 DEF CatchOpen
    <3>2. /\ pc[i] = "running" /\ pc'[i] = "failing" /\ closed' = closed
          /\ e \in LogEvents /\ e \in FailedEvents /\ e # "completed"
      BY <1>1, <2>10 DEF CatchOpen, Step, LogEvents, FailedEvents, TerminalEvents
    <3> QED BY <2>1, <2>3, <3>1, <3>2 DEF After
  <2>11. CASE FinishAborted(i)
    <3>1. /\ pc[i] = "completing" /\ pc'[i] = "threw" /\ closed'[i]
          /\ Emit(i, "parentAborted") /\ "parentAborted" \in LogEvents
      BY <1>1, <2>11 DEF FinishAborted, Step, LogEvents
    <3> QED BY <2>1, <2>3, <3>1 DEF After
  <2>12. CASE Refuse(i) \/ RunChild(i) \/ ChildStep(i)
    <3>1. t = s /\ closed' = closed
      BY <2>2, <2>12 DEF Refuse, RunChild, ChildStep, ChildAnswer, ChildTurn, ChildFinal, events
    <3>2. \/ pc[i] = "granted" /\ pc'[i] = "threw"
          \/ pc[i] \in {"starting", "running"} /\ pc'[i] \in {"running", "finished"}
      BY <1>1, <2>12 DEF Refuse, RunChild, ChildStep, ChildAnswer, ChildTurn, ChildFinal, Step
    <3> QED BY <2>1, <3>1, <3>2
  <2>13. CASE CatchClosed(i)
    BY <2>1, <2>13 DEF CatchClosed, Step
  <2>14. CASE FinishFail(i) \/ FinishComplete(i)
    <3>1. t = s /\ closed'[i]
      BY <1>1, <2>2, <2>14 DEF FinishFail, FinishComplete, events
    <3>2. \/ pc[i] = "failing" /\ pc'[i] = "threw"
          \/ pc[i] = "completing" /\ pc'[i] = "returned"
      BY <1>1, <2>14 DEF FinishFail, FinishComplete, Step
    <3> QED BY <2>1, <3>1, <3>2
  <2> QED
    BY <2>4, <2>5, <2>6, <2>7, <2>8, <2>9, <2>10, <2>11, <2>12, <2>13, <2>14 DEF TaskStep
<1> QED BY <1>3, <1>4

\* Every step keeps the reports where the tasks stand, as long as subscribers
\* do not cancel inside a callback.
LEMMA ReportStep ==
  ASSUME TypeOK, CoreInv, ReportInv, ~CallbackCancels, [Next]_vars
  PROVE  ReportInv'
<1>1. ASSUME NEW i \in Task, TaskStep(i) \/ ChildStep(i)  PROVE ReportInv'
  <2>1. handle' = handle
    BY <1>1, TaskFrame DEF parent
  <2>2. ASSUME NEW j \in Delegate, j # i  PROVE TaskReport(j)'
    <3>1. Untouched(j) /\ TaskReport(j)
      BY <1>1, <2>2, OtherTask DEF ReportInv
    <3>2. pc[j] \notin InSegment
      BY <1>1, <2>2, <3>1, ThreadStep, ConstantsAssumption DEF TaskReport, Delegate
    <3>3. pc'[j] \notin InSegment
      BY <3>1, <3>2 DEF Untouched, InSegment
    <3> QED BY <2>1, <3>1, <3>3 DEF Untouched, TaskReport
  <2>3. TaskReport(i)'
    BY <1>1, OwnReport
  <2> QED BY <2>2, <2>3 DEF ReportInv
<1>2. CASE Cancel \/ TimeoutDrain
  <2>1. handle' = "closed" /\ pc' = pc /\ thread' = thread
    BY <1>2 DEF Cancel, TimeoutDrain
  <2> QED BY <2>1 DEF ReportInv, TaskReport
<1>3. CASE Settle \/ CallerAbort \/ DeadlineElapses \/ TimeoutFires \/ UNCHANGED vars
  <2>1. /\ pc' = pc /\ thread' = thread /\ closed' = closed /\ published' = published
        /\ handle' = handle
    BY <1>3 DEF Settle, CallerAbort, DeadlineElapses, TimeoutFires, vars, events, parent
  <2> QED BY <2>1 DEF ReportInv, TaskReport
<1> QED BY <1>1, <1>2, <1>3 DEF Next, ParentStep, Finished

-----------------------------------------------------------------------------
(* DelegateWave implements SubRunLifecycle                                 *)

\* The wave's initial states are initial states of the lifecycle.
LEMMA LifecycleInit == Init => Lifecycle!Init
<1> SUFFICES ASSUME NEW w \in Delegate, InitFor(w)  PROVE Lifecycle!Init
  BY DEF Init
<1>1. Task \in SUBSET Delegate
  BY ConstantsAssumption DEF InitFor, Task, Delegate
<1>2. [i \in Delegate |-> StatusOf(published[i])] = [c \in Delegate |-> "idle"]
  BY StatusEmpty DEF InitFor
<1>3. limit \in 1..MaxConcurrent /\ (handle = "running") = TRUE
  BY DEF InitFor
<1> QED BY <1>1, <1>2, <1>3 DEF Lifecycle!Init

\* A child is started only while fewer than the limit are reported running.
LEMMA SlotForStart ==
  ASSUME TypeOK, CoreInv, ReportInv, handle = "running",
         NEW i \in Task, pc[i] = "granted"
  PROVE  Cardinality({c \in Delegate : Reports[c] = "running"}) < limit
<1> DEFINE R == {c \in Delegate : Reports[c] = "running"}
<1>1. i \in Delegate /\ i \in Holders
  BY TaskIsDelegate DEF Holders, Holding
<1>2. R \subseteq Holders \ {i}
  <2> SUFFICES ASSUME NEW c \in Delegate, StatusOf(published[c]) = "running"
               PROVE  c \in Holders /\ c # i
    BY DEF Reports
  <2>1. TaskReport(c) /\ TaskReport(i) /\ pc[c] \in PcValues
    BY <1>1 DEF ReportInv, TypeOK
  <2> QED BY <2>1, <1>1 DEF TaskReport, Holders, Holding, PcValues
<1>3. IsFiniteSet(Holders)
  BY DelegateFinite, FS_Subset DEF Holders
<1>4. IsFiniteSet(Holders \ {i}) /\ Cardinality(Holders \ {i}) = Cardinality(Holders) - 1
  BY <1>1, <1>3, FS_RemoveElement
<1>5. Cardinality(R) <= Cardinality(Holders \ {i})
  BY <1>2, <1>4, FS_Subset
<1>6. Cardinality(Holders) \in Nat /\ Cardinality(Holders) <= limit /\ limit \in Nat
  BY <1>3, FS_CardinalityType, ConstantsAssumption DEF CoreInv, SlotsInv, TypeOK
<1>7. Cardinality(R) \in Nat
  BY <1>2, <1>4, FS_Subset, FS_CardinalityType
<1> QED BY <1>4, <1>5, <1>6, <1>7

\* What the lifecycle sees of a step that reports nothing.
LEMMA Stutter ==
  ASSUME UNCHANGED <<width, limit, handle>>, Reports' = Reports
  PROVE  UNCHANGED Lifecycle!vars
<1>1. Task' = Task /\ (handle = "running")' = (handle = "running")
  BY DEF Task
<1>2. [i \in Delegate |-> StatusOf(published[i])]' = [i \in Delegate |-> StatusOf(published[i])]
  BY DEF Reports
<1> QED BY <1>1, <1>2 DEF Lifecycle!vars

\* A report about one child of the turn, as the lifecycle states it.
LEMMA OneReport ==
  ASSUME UNCHANGED <<width, limit, handle>>, handle = "running",
         NEW c \in Delegate, NEW s, Reports' = [Reports EXCEPT ![c] = s]
  PROVE  Lifecycle!Report(c, s)
<1>1. Task' = Task /\ (handle = "running")' = (handle = "running") /\ (handle = "running")
  BY DEF Task
<1>2. [i \in Delegate |-> StatusOf(published[i])]'
        = [[i \in Delegate |-> StatusOf(published[i])] EXCEPT ![c] = s]
  BY DEF Reports
<1> QED BY <1>1, <1>2 DEF Lifecycle!Report

\* The lifecycle counts as this module does.
LEMMA SameCardinality == \A S : Lifecycle!Cardinality(S) = Cardinality(S)
BY DEF Lifecycle!Cardinality, Cardinality

\* A step of a task or of its child is one report about the child, or none.
LEMMA TaskRefines ==
  ASSUME TypeOK, CoreInv, ReportInv, NEW i \in Task, TaskStep(i) \/ ChildStep(i)
  PROVE  Lifecycle!Next \/ UNCHANGED Lifecycle!vars
<1>1. i \in Delegate /\ TaskReport(i) /\ pc \in [Delegate -> PcValues]
  BY TaskIsDelegate DEF ReportInv, TypeOK
<1>2. UNCHANGED <<width, limit, handle>>
  BY TaskFrame DEF config, parent
<1>3. CASE published' = published
  BY <1>2, <1>3, Stutter DEF Reports
<1> SUFFICES ASSUME published' # published  PROVE Lifecycle!Next \/ UNCHANGED Lifecycle!vars
  BY <1>3
<1> DEFINE s == StatusOf(published[i])
<1>4. Reports[i] = s
  BY <1>1 DEF Reports
<1>5. \A e \in LogEvents : Emit(i, e) =>
        handle = "running" /\ Reports' = [Reports EXCEPT ![i] = After(s, e)]
  BY PublishEffect DEF Emit
<1>6. CASE AnnounceQueued(i)
  <2>1. Emit(i, "queued") /\ "queued" \in LogEvents /\ pc[i] = "launch"
    BY <1>6 DEF AnnounceQueued, Step, LogEvents
  <2>2. s = "idle" /\ After(s, "queued") = "queued"
    BY <1>1, <1>5, <2>1 DEF TaskReport, After, FailedEvents, TerminalEvents
  <2>3. Lifecycle!Report(i, "queued")
    BY <1>1, <1>2, <1>5, <2>1, <2>2, OneReport
  <2>4. Lifecycle!Queue(i)
    BY <1>1, <2>2, <2>3 DEF Lifecycle!Queue
  <2> QED BY <2>4 DEF Lifecycle!Next
<1>7. CASE SkipSibling(i)
  <2>1. Emit(i, "sibling") /\ "sibling" \in LogEvents /\ pc[i] = "granted"
    BY <1>7 DEF SkipSibling, Step, LogEvents, TerminalEvents
  <2>2. s \in {"idle", "queued"} /\ After(s, "sibling") = "failed"
    BY <1>1, <1>5, <2>1 DEF TaskReport, After, FailedEvents, TerminalEvents
  <2>3. Lifecycle!Report(i, "failed")
    BY <1>1, <1>2, <1>5, <2>1, <2>2, OneReport
  <2>4. Lifecycle!Fail(i)
    BY <1>1, <2>2, <2>3 DEF Lifecycle!Fail, Lifecycle!Terminal
  <2> QED BY <2>4 DEF Lifecycle!Next
<1>8. CASE Start(i)
  <2>1. Emit(i, "started") /\ "started" \in LogEvents /\ pc[i] = "granted"
    BY <1>8 DEF Start, Step, LogEvents
  <2>2. s \in {"idle", "queued"} /\ After(s, "started") = "running"
    BY <1>1, <1>5, <2>1 DEF TaskReport, After, FailedEvents, TerminalEvents
  <2>3. Lifecycle!Report(i, "running")
    BY <1>1, <1>2, <1>5, <2>1, <2>2, OneReport
  <2>4. Cardinality({c \in Delegate : Reports[c] = "running"}) < limit
    BY <1>5, <2>1, SlotForStart
  <2>5. Lifecycle!Running = {c \in Delegate : Reports[c] = "running"}
    BY Zenon DEF Lifecycle!Running, Reports
  <2>6. Lifecycle!Cardinality(Lifecycle!Running) < limit
    BY <2>4, <2>5, SameCardinality
  <2>7. Lifecycle!Start(i)
    BY <1>1, <2>2, <2>3, <2>6 DEF Lifecycle!Start
  <2> QED BY <2>7 DEF Lifecycle!Next
<1>9. CASE Complete(i)
  <2>1. Emit(i, "completed") /\ "completed" \in LogEvents /\ pc[i] = "finished"
    BY <1>9 DEF Complete, Step, LogEvents, TerminalEvents
  <2>2. s = "running" /\ After(s, "completed") = "completed"
    BY <1>1, <1>5, <2>1 DEF TaskReport, After
  <2>3. Lifecycle!Report(i, "completed")
    BY <1>1, <1>2, <1>5, <2>1, <2>2, OneReport
  <2>4. Lifecycle!Complete(i)
    BY <1>1, <2>2, <2>3 DEF Lifecycle!Complete
  <2> QED BY <2>4 DEF Lifecycle!Next
<1>10. CASE CatchOpen(i)
  <2>1. PICK e \in {"failed", "aborted"} : Emit(i, e)
    BY <1>10 DEF CatchOpen
  <2>2. e \in LogEvents /\ e \in FailedEvents /\ e # "completed" /\ pc[i] = "running"
    BY <1>10 DEF CatchOpen, Step, LogEvents, FailedEvents, TerminalEvents
  <2>3. s = "running" /\ After(s, e) = "failed"
    BY <1>1, <1>5, <2>1, <2>2 DEF TaskReport, After
  <2>4. Lifecycle!Report(i, "failed")
    BY <1>1, <1>2, <1>5, <2>1, <2>2, <2>3, OneReport
  <2>5. Lifecycle!Fail(i)
    BY <1>1, <2>3, <2>4 DEF Lifecycle!Fail, Lifecycle!Terminal
  <2> QED BY <2>5 DEF Lifecycle!Next
<1>11. CASE FinishAborted(i)
  <2>1. Emit(i, "parentAborted") /\ "parentAborted" \in LogEvents /\ pc[i] = "completing"
    BY <1>11 DEF FinishAborted, Step, LogEvents
  <2>2. s = "completed" /\ After(s, "parentAborted") = "completed"
    BY <1>1, <1>5, <2>1 DEF TaskReport, After
  <2>3. Reports' = Reports
    BY <1>1, <1>4, <1>5, <2>1, <2>2 DEF Reports
  <2> QED BY <1>2, <2>3, Stutter
<1>12. CASE \/ AcquireSlot(i) \/ SkipClosed(i) \/ FinishSkip(i) \/ Refuse(i) \/ RunChild(i)
            \/ CatchClosed(i) \/ FinishFail(i) \/ FinishComplete(i) \/ Deliver(i)
            \/ HandleThrow(i) \/ ChildStep(i)
  BY <1>12 DEF AcquireSlot, SkipClosed, FinishSkip, Refuse, RunChild, CatchClosed, FinishFail,
               FinishComplete, Deliver, HandleThrow, ChildStep, ChildAnswer, ChildTurn,
               ChildFinal, events
<1> QED
  BY <1>6, <1>7, <1>8, <1>9, <1>10, <1>11, <1>12 DEF TaskStep

\* cancel() between two segments reports every open child failed and closes.
LEMMA CancelRefines ==
  ASSUME TypeOK, CoreInv, ReportInv, ~CallbackCancels, Cancel
  PROVE  Lifecycle!Next
<1>1. /\ thread = 0 /\ handle = "running" /\ handle' = "closed" /\ Drain(TRUE)
      /\ width' = width /\ limit' = limit
  BY DEF Cancel, config
<1>2. /\ published \in [Delegate -> Seq(LogEvents)] /\ closed \in [Delegate -> BOOLEAN]
      /\ pc \in [Delegate -> PcValues]
  BY DEF TypeOK
<1>3. ASSUME NEW c \in Delegate
      PROVE  StatusOf(published'[c]) =
               IF c \in Task /\ StatusOf(published[c]) \notin {"completed", "failed"}
               THEN "failed" ELSE StatusOf(published[c])
  <2> DEFINE s == StatusOf(published[c])
  <2>1. TaskReport(c) /\ (c \in Task => pc[c] \notin Launching) /\ c # 0
    BY <1>1, <1>3, ConstantsAssumption DEF ReportInv, CoreInv, LaunchInv, Delegate
  <2>2. published'[c] = IF c \in Task /\ ~closed[c]
                        THEN Append(published[c], DrainEvent(c)) ELSE published[c]
    BY <1>1, <1>2 DEF Drain
  <2>3. CASE c \notin Task
    BY <2>2, <2>3
  <2>4. CASE c \in Task /\ closed[c]
    <3>1. s \in {"completed", "failed"}
      BY <1>1, <2>1, <2>4 DEF TaskReport
    <3> QED BY <2>2, <2>4, <3>1
  <2>5. CASE c \in Task /\ ~closed[c]
    <3>1. pc[c] \notin InSegment /\ pc[c] \in PcValues
      BY <1>1, <1>2, <2>1 DEF TaskReport
    <3>2. s \in {"idle", "queued", "running"}
      BY <1>1, <2>1, <2>5, <3>1 DEF TaskReport, InSegment, PcValues
    <3>3. DrainEvent(c) \in LogEvents /\ DrainEvent(c) \in FailedEvents
      BY DEF DrainEvent, LogEvents, FailedEvents, TerminalEvents
    <3>4. StatusOf(published'[c]) = After(s, DrainEvent(c))
      BY <1>2, <2>2, <2>5, <3>3, StatusAppend
    <3>5. After(s, DrainEvent(c)) = "failed"
      BY <3>2, <3>3 DEF After, FailedEvents
    <3> QED BY <2>5, <3>2, <3>4, <3>5
  <2> QED BY <2>3, <2>4, <2>5
<1>4. [c \in Delegate |-> StatusOf(published[c])]' =
        [c \in Delegate |->
           IF c \in Task /\ [j \in Delegate |-> StatusOf(published[j])][c]
                              \notin {"completed", "failed"}
           THEN "failed" ELSE [j \in Delegate |-> StatusOf(published[j])][c]]
  BY <1>3
<1>5. Lifecycle!Close
  BY <1>1, <1>4 DEF Lifecycle!Close, Lifecycle!Terminal, Task
<1> QED BY <1>5 DEF Lifecycle!Next

\* The stream's own timeout closes the handle and reports nothing.
LEMMA TimeoutRefines ==
  ASSUME TimeoutDrain
  PROVE  Lifecycle!Next
<1>1. /\ handle = "running" /\ handle' = "closed" /\ published' = published
      /\ width' = width /\ limit' = limit
  BY DEF TimeoutDrain, Drain, config
<1>2. Lifecycle!Close
  BY <1>1 DEF Lifecycle!Close, Task
<1> QED BY <1>2 DEF Lifecycle!Next

\* Every step is a step of the lifecycle or a stutter.
LEMMA LifecycleStep ==
  ASSUME TypeOK, CoreInv, ReportInv, ~CallbackCancels, [Next]_vars
  PROVE  [Lifecycle!Next]_(Lifecycle!vars)
<1>1. ASSUME NEW i \in Task, TaskStep(i) \/ ChildStep(i)
      PROVE  Lifecycle!Next \/ UNCHANGED Lifecycle!vars
  BY <1>1, TaskRefines
<1>2. CASE Cancel \/ TimeoutDrain
  BY <1>2, CancelRefines, TimeoutRefines
<1>3. CASE Settle \/ CallerAbort \/ DeadlineElapses \/ TimeoutFires \/ UNCHANGED vars
  <2>1. UNCHANGED <<width, limit, handle>> /\ published' = published
    BY <1>3 DEF Settle, CallerAbort, DeadlineElapses, TimeoutFires, vars, config, events, parent
  <2> QED BY <2>1, Stutter DEF Reports
<1> QED BY <1>1, <1>2, <1>3 DEF Next, ParentStep, Finished

\* What a stream reports about its delegates follows the sub-run lifecycle,
\* provided no subscriber calls cancel() from inside a callback.
THEOREM ReportsCorrect ==
  ASSUME ~CallbackCancels
  PROVE  Spec => ReportsLifecycle
<1>1. Init => TypeOK /\ CoreInv /\ ReportInv
  BY TypeInit, CoreInit, ReportInit
<1>2. TypeOK /\ CoreInv /\ ReportInv /\ [Next]_vars => (TypeOK /\ CoreInv /\ ReportInv)'
  BY TypeStep, CoreStep, ReportStep DEF CoreInv
<1>3. TypeOK /\ CoreInv /\ ReportInv /\ [Next]_vars => [Lifecycle!Next]_(Lifecycle!vars)
  BY LifecycleStep
<1> QED BY <1>1, <1>2, <1>3, LifecycleInit, PTL DEF Spec, ReportsLifecycle, Lifecycle!Spec
=============================================================================
