------------------------- MODULE CoordinatorRun_proofs -------------------------
(***************************************************************************)
(* Proofs about CoordinatorRun for any number of workers and delegates,    *)
(* any costs and any caps.  The inductive invariant IInv adds to the       *)
(* checked ones how many children each phase may have had (CountInv),      *)
(* where the trigger of abort mode comes from (TriggerInv), and that the   *)
(* regular end of a run has a final synthesis behind it (SynthesisInv).    *)
(* CallInv keeps a request and its provider call together, GivenUpInv says *)
(* how a run goes on that gave up on a child.  What the log and the        *)
(* transcript owe each other is TranscriptInv; that a result sums up its   *)
(* log, for the observers of CoordinatorTrace, is ResolvedInv.             *)
(***************************************************************************)
EXTENDS CoordinatorTrace, InductionLemmas, FiniteSetTheorems, TLAPS

EventRecord == [kind : Kinds, own : Nat, total : Nat]

\* The places of certain events in the log.
Events(K) == {k \in DOMAIN log : log[k].kind \in K}

ReportedChildren == Cardinality(Events(Children))

Planning == phase \in {"plan", "decide"} \/ (phase = "check" /\ after = "plan")

\* The loop guard counts a wave before it starts; each of its children reports once.
CountInv ==
  /\ phase = "wave" =>
       /\ dispatchCount + wave.width <= MaxDispatch
       /\ ReportedChildren + wave.open <= dispatchCount + wave.width
  /\ Planning => ReportedChildren <= dispatchCount
  /\ ReportedChildren <= MaxDispatch

\* In abort mode a failure that is reported has a trigger, or the run rejects.
TriggerInv ==
  /\ trigger # "none" => ~Planning /\ phase # "wave"
  /\ "plain" \in wave.failures => Events({"failed plain"}) # {}
  /\ trigger = "plain" => Events({"failed plain"}) # {}
  /\ policy = "abort" /\ Events({"failed"}) # {} =>
       \/ phase = "wave" /\ wave.failures # {}
       \/ phase = "over" /\ outcome = "rejected"
       \/ trigger # "none"

\* Every failure is followed by a synthesis.
Covered == \A k \in Events({"failed"}) : \E l \in Events({"synthesis"}) : l > k

\* A run that is not stopped ends after its synthesis, to which no child can be added.
SynthesisInv ==
  /\ after = "final" => phase \in {"check", "final", "returned", "over"} /\ Covered
  /\ phase \in {"final", "returned"} => stopped # "no" \/ after = "final"
  /\ outcome = "pending" <=> phase # "over"

\* The workers' turns are recorded once all of them have answered.
AnswersInv == phase = "record" => \A w \in Worker : answers[w] # <<>>

\* At most one request is out without its call; only workers ask one after another,
\* and while they are at work no cap has been reached.
CallInv ==
  /\ requested \in {issued, issued + 1}
  /\ Asking => phase \in {"plan", "work", "synthesis"}
  /\ phase \in {"plan", "synthesis"} => due = 0
  /\ phase = "work" => ~CapReached

\* A parent that gave up on a child is aborted, and past the wave it only throws.
GivenUpInv ==
  /\ wave.completing => phase = "wave"
  /\ wave.givenUp > 0 => aborted /\ phase \in {"wave", "check", "over"}

IInv ==
  /\ TypeOK /\ RunningTotals /\ NoSilentFailure
  /\ CountInv /\ TriggerInv /\ SynthesisInv /\ AnswersInv /\ CallInv /\ GivenUpInv

-----------------------------------------------------------------------------
(* The log                                                                 *)

LEMMA AppendedLog ==
  ASSUME NEW es \in Seq(EventRecord), NEW e \in EventRecord
  PROVE  /\ Append(es, e) \in Seq(EventRecord)
         /\ Len(Append(es, e)) = Len(es) + 1 /\ Len(es) \in Nat
         /\ DOMAIN es = 1..Len(es) /\ DOMAIN Append(es, e) = 1..(Len(es) + 1)
         /\ \A k \in 1..Len(es) : Append(es, e)[k] = es[k]
         /\ Append(es, e)[Len(es) + 1] = e
OBVIOUS

LEMMA EventsAreFinite ==
  ASSUME log \in Seq(EventRecord), NEW K
  PROVE  /\ Events(K) \subseteq 1..Len(log) /\ Len(log) \in Nat
         /\ IsFiniteSet(Events(K)) /\ Cardinality(Events(K)) \in Nat
<1>1. Events(K) \subseteq 1..Len(log) /\ Len(log) \in Nat
  BY DEF Events
<1>2. IsFiniteSet(1..Len(log))
  BY <1>1, FS_Interval
<1>3. IsFiniteSet(Events(K))
  BY <1>1, <1>2, FS_Subset
<1> QED
  BY <1>1, <1>3, FS_CardinalityType

\* What a recorded event adds to each set of events.
LEMMA EventsOfAppend ==
  ASSUME log \in Seq(EventRecord), NEW e \in EventRecord, log' = Append(log, e), NEW CONSTANT K
  PROVE  /\ Events(K)' = IF e.kind \in K THEN Events(K) \cup {Len(log) + 1} ELSE Events(K)
         /\ Len(log) + 1 \notin Events(K)
         /\ Cardinality(Events(K)') = Cardinality(Events(K)) + (IF e.kind \in K THEN 1 ELSE 0)
<1>1. /\ Len(log) \in Nat /\ DOMAIN log = 1..Len(log) /\ DOMAIN log' = 1..(Len(log) + 1)
      /\ \A k \in 1..Len(log) : log'[k] = log[k]
      /\ log'[Len(log) + 1] = e
  BY AppendedLog
<1>2. Len(log) + 1 \notin Events(K)
  BY <1>1 DEF Events
<1>3. Events(K)' = IF e.kind \in K THEN Events(K) \cup {Len(log) + 1} ELSE Events(K)
  BY <1>1 DEF Events
<1>4. IsFiniteSet(Events(K)) /\ Cardinality(Events(K)) \in Nat
  BY EventsAreFinite
<1>5. Cardinality(Events(K) \cup {Len(log) + 1}) = Cardinality(Events(K)) + 1
  BY <1>2, <1>4, FS_AddElement
<1> QED
  BY <1>2, <1>3, <1>4, <1>5

\* The last of some events follows the others.
LEMMA LastEvent ==
  ASSUME log \in Seq(EventRecord)
  PROVE  /\ LastFailure \in Nat
         /\ LastFailure = 0 <=> Events({"failed"}) = {}
         /\ \A k \in Events({"failed"}) : k <= LastFailure
<1> DEFINE failures == {k \in DOMAIN log : log[k].kind = "failed"}
<1>1. failures = Events({"failed"})
  BY DEF Events
<1>2. failures \subseteq 1..Len(log) /\ Len(log) \in Nat
  BY <1>1, EventsAreFinite
<1>3. LastFailure =
        IF failures = {} THEN 0 ELSE CHOOSE k \in failures : \A l \in failures : l <= k
  BY DEF LastFailure
<1> HIDE DEF failures
<1>4. failures # {} => \E k \in failures : \A l \in failures : l <= k
  BY <1>2, GreatestExists
<1> QED
  BY <1>1, <1>2, <1>3, <1>4

-----------------------------------------------------------------------------
(* Types, and the ledger                                                   *)

LEMMA CostsAreNumbers == \A cost \in Cost : cost \in Nat
BY ConstantsAssumption DEF Cost

LEMMA RecordType ==
  ASSUME TypeOK, NEW kind \in Kinds, NEW cost \in Nat, Record(kind, cost)
  PROVE  totalCost' \in Nat /\ log' \in Seq(EventRecord)
         /\ \E e \in EventRecord : e.kind = kind /\ log' = Append(log, e)
<1> DEFINE e == Event(kind, cost, totalCost + cost)
<1>1. totalCost + cost \in Nat /\ log \in Seq(EventRecord)
  BY DEF TypeOK, EventRecord
<1>2. e \in EventRecord /\ e.kind = kind
  BY <1>1 DEF Event, EventRecord
<1>3. log' = Append(log, e) /\ totalCost' = totalCost + cost
  BY DEF Record
<1> HIDE DEF e
<1> QED
  BY <1>1, <1>2, <1>3, AppendedLog

LEMMA RecordKinds ==
  /\ {"plan", "completed", "failed", "failed plain", "skipped", "worker", "synthesis", "final",
      "budget-stop"} \subseteq Kinds
  /\ \A kind \in {"plan", "worker", "synthesis", "final", "budget-stop"} : kind \notin Children
BY DEF Kinds, Turns, Children

LEMMA TranscriptType ==
  ASSUME TypeOK, NEW entry \in {"plan", "worker", "synthesis", "completed"}
  PROVE  Append(transcript, entry) \in Seq(Turns \cup {"completed"})
BY DEF TypeOK, Turns

\* A child of the wave reports.
ChildReports == ChildCompletes \/ ChildFails \/ ChildSkipped

\* The cost of a recorded worker is what its response told.
LEMMA WorkerCost ==
  ASSUME TypeOK, AnswersInv, RecordWorker
  PROVE  \E cost \in Nat : Record("worker", cost)
<1>1. /\ recorded' = recorded + 1 /\ recorded < Workers /\ recorded \in 0..Workers
      /\ Record("worker", answers[recorded'][1]) /\ phase = "record"
  BY DEF RecordWorker, TypeOK
<1>2. recorded' \in Worker
  BY <1>1, ConstantsAssumption DEF Worker
<1>3. answers[recorded'] \in Seq(Nat) /\ answers[recorded'] # <<>>
  BY <1>1, <1>2 DEF TypeOK, AnswersInv
<1>4. ASSUME NEW answer \in Seq(Nat), answer # <<>> PROVE answer[1] \in Nat
  BY <1>4
<1> QED
  BY <1>1, <1>3, <1>4

\* Each step records one event, a child's only if a child reports, or leaves the ledger
\* alone.
LEMMA LedgerSteps ==
  ASSUME TypeOK, AnswersInv, [Next]_vars
  PROVE  \/ UNCHANGED <<log, totalCost>>
         \/ \E kind \in Kinds, cost \in Nat :
              Record(kind, cost) /\ (kind \in Children => ChildReports)
<1>1. \A cost \in Cost : cost \in Nat
  BY CostsAreNumbers
<1>2. CASE Check
  <2>1. CASE log' = Append(log, Event("budget-stop", 0, totalCost)) /\ totalCost' = totalCost
    <3>1. totalCost + 0 = totalCost
      BY DEF TypeOK
    <3>2. Record("budget-stop", 0)
      BY <2>1, <3>1 DEF Record
    <3> QED
      BY <3>2, RecordKinds
  <2>2. CASE log' = log /\ totalCost' = totalCost
    BY <2>2
  <2> QED
    BY <1>2, <2>1, <2>2 DEF Check
<1>3. CASE PlanAnswers \/ SynthesisAnswers \/ SynthesisDelegates
  BY <1>1, <1>3, RecordKinds DEF PlanAnswers, SynthesisAnswers, SynthesisDelegates
<1>4. CASE ChildFails
  <2>1. PICK cost \in Cost, error \in ChildError :
          Record(IF error = "plain" THEN "failed plain" ELSE "failed", cost)
    BY <1>4 DEF ChildFails
  <2>2. (IF error = "plain" THEN "failed plain" ELSE "failed") \in Kinds /\ cost \in Nat
    BY <1>1, RecordKinds
  <2> QED
    BY <1>4, <2>1, <2>2 DEF ChildReports
<1>5. CASE ChildCompletes \/ ChildSkipped
  BY <1>1, <1>5, RecordKinds DEF ChildCompletes, ChildSkipped, ChildReports
<1>6. CASE RecordWorker
  BY <1>6, WorkerCost, RecordKinds
<1>7. CASE Final
  BY <1>7, RecordKinds DEF Final
<1>8. CASE Participate \/ Delegate \/ LoopGuard \/ ChildRefused \/ WaveRethrows \/ WaveTriggers
           \/ Replan \/ WorkersDone \/ WorkersRecorded \/ TurnFails \/ Resolve \/ AbortObserved
           \/ Abort \/ Finished \/ UNCHANGED vars \/ Call \/ KeepResult \/ GiveUp
           \/ \E w \in Worker : WorkerAnswers(w)
  <2>1. UNCHANGED <<log, totalCost>>
    BY <1>8 DEF Call, KeepResult, GiveUp, Participate, Delegate, LoopGuard, ChildRefused,
                WaveRethrows, WaveTriggers, Replan,
                WorkersDone, WorkersRecorded, TurnFails, Resolve, AbortObserved, Abort, Finished,
                WorkerAnswers, vars, ledger
  <2> QED
    BY <2>1
<1> QED
  BY <1>2, <1>3, <1>4, <1>5, <1>6, <1>7, <1>8 DEF Next, Progress, WaveStep

LEMMA RunningTotalsStep ==
  ASSUME TypeOK, AnswersInv, RunningTotals, [Next]_vars
  PROVE  RunningTotals'
<1>1. CASE UNCHANGED <<log, totalCost>>
  BY <1>1 DEF RunningTotals
<1>2. ASSUME NEW kind \in Kinds, NEW cost \in Nat, Record(kind, cost)
      PROVE  RunningTotals'
  <2> DEFINE e == Event(kind, cost, totalCost + cost)
  <2>1. log' = Append(log, e) /\ totalCost' = totalCost + cost
    BY <1>2 DEF Record
  <2>2. e \in EventRecord /\ e.own = cost /\ e.total = totalCost + cost
    BY DEF Event, EventRecord, TypeOK
  <2>3. log \in Seq(EventRecord)
    BY DEF TypeOK, EventRecord
  <2> HIDE DEF e
  <2>4. /\ Len(log) \in Nat /\ DOMAIN log = 1..Len(log) /\ DOMAIN log' = 1..(Len(log) + 1)
        /\ \A k \in 1..Len(log) : log'[k] = log[k]
        /\ log'[Len(log) + 1] = e /\ Len(log') = Len(log) + 1
    BY <2>1, <2>2, <2>3, AppendedLog
  <2>5. log = <<>> <=> Len(log) = 0
    BY <2>3
  <2>6. log' # <<>>
    BY <2>1, <2>2, <2>3
  <2>7. totalCost = IF Len(log) = 0 THEN 0 ELSE log[Len(log)].total
    BY <2>5 DEF RunningTotals
  <2>8. ASSUME NEW k \in DOMAIN log'
        PROVE  log'[k].total = (IF k = 1 THEN 0 ELSE log'[k - 1].total) + log'[k].own
    <3>1. CASE k \in 1..Len(log)
      <4>1. log'[k] = log[k] /\ (k # 1 => log'[k - 1] = log[k - 1])
        BY <2>4, <3>1
      <4> QED
        BY <2>4, <3>1, <4>1 DEF RunningTotals
    <3>2. CASE k = Len(log) + 1
      <4>1. log'[k] = e /\ (k # 1 => log'[k - 1] = log[Len(log)])
        BY <2>4, <3>2
      <4> QED
        BY <2>2, <2>4, <2>7, <3>2, <4>1
    <3> QED
      BY <2>4, <3>1, <3>2
  <2>9. totalCost' = log'[Len(log')].total
    BY <2>1, <2>2, <2>4
  <2> QED
    BY <2>6, <2>8, <2>9 DEF RunningTotals
<1> QED
  BY <1>1, <1>2, LedgerSteps

\* The log and the total keep their types.
LEMMA LedgerType ==
  ASSUME TypeOK, AnswersInv, [Next]_vars
  PROVE  totalCost' \in Nat /\ log' \in Seq(EventRecord)
<1>1. CASE UNCHANGED <<log, totalCost>>
  BY <1>1 DEF TypeOK, EventRecord
<1>2. ASSUME NEW kind \in Kinds, NEW cost \in Nat, Record(kind, cost)
      PROVE  totalCost' \in Nat /\ log' \in Seq(EventRecord)
  BY <1>2, RecordType
<1> QED
  BY <1>1, <1>2, LedgerSteps

\* Requests and calls are made in few places.
LEMMA CallSteps ==
  ASSUME [Next]_vars
  PROVE  UNCHANGED calls \/ Call \/ Check \/ Replan
BY DEF Next, Progress, WaveStep, PlanAnswers, Participate, Delegate, LoopGuard, ChildCompletes,
       KeepResult, GiveUp, ChildFails, ChildSkipped, ChildRefused, WaveRethrows, WaveTriggers,
       WorkerAnswers, WorkersDone, RecordWorker, WorkersRecorded, SynthesisAnswers,
       SynthesisDelegates, TurnFails, Final, Resolve, AbortObserved, Abort, Finished, vars

LEMMA CallsType ==
  ASSUME TypeOK, [Next]_vars
  PROVE  requested' \in Nat /\ issued' \in Nat /\ due' \in 0..Workers
<1>1. requested \in Nat /\ issued \in Nat /\ due \in 0..Workers /\ Workers \in Nat
  BY ConstantsAssumption DEF TypeOK
<1>2. CASE UNCHANGED calls
  BY <1>1, <1>2 DEF calls
<1>3. CASE Call
  BY <1>1, <1>3 DEF Call
<1>4. ASSUME NEW p, issued' = issued,
             requested' = IF CallsOf(p) = 0 THEN requested ELSE requested + 1,
             due' = IF CallsOf(p) = 0 THEN 0 ELSE CallsOf(p) - 1
      PROVE  requested' \in Nat /\ issued' \in Nat /\ due' \in 0..Workers
  <2>1. CallsOf(p) \in 0..1 \cup {Workers} /\ (CallsOf(p) = 1 => due' = 0)
    BY <1>4 DEF CallsOf
  <2> QED
    BY <1>1, <1>4, <2>1
<1>5. CASE Check
  BY <1>4, <1>5 DEF Check, Enter
<1>6. CASE Replan
  BY <1>4, <1>6 DEF Replan, Enter
<1> QED
  BY <1>2, <1>3, <1>5, <1>6, CallSteps

\* All but the ledger; the phases that a step may enter are among those there are.
LEMMA TypeStep ==
  ASSUME TypeOK, CountInv, AnswersInv, [Next]_vars
  PROVE  TypeOK'
<1>1. totalCost' \in Nat /\ log' \in Seq([kind : Kinds, own : Nat, total : Nat])
      /\ requested' \in Nat /\ issued' \in Nat /\ due' \in 0..Workers
  BY LedgerType, CallsType DEF EventRecord
<1>2. CASE UNCHANGED vars
  BY <1>2 DEF TypeOK, vars, config, ledger, loop, ending, work, calls
<1>3. CASE Check
  <2>1. stopped' \in {"no", "budget", "quality"} /\ phase' \in {after, "final"}
        /\ UNCHANGED <<policy, terminate, after, transcript, decision, dispatchCount, wave,
                       answers, recorded, trigger, outcome, aborted>>
    BY <1>3 DEF Check, StopVerdicts, config, loop, work
  <2> QED
    BY <1>1, <2>1 DEF TypeOK
<1>4. CASE PlanAnswers
  <2>1. /\ phase' = "decide" /\ decision' \in 0..MaxWidth
        /\ transcript' = Append(transcript, "plan")
        /\ UNCHANGED <<policy, terminate, after, dispatchCount, wave, answers, recorded, stopped,
                       trigger, outcome, aborted>>
    BY <1>4 DEF PlanAnswers, config, work, ending
  <2>2. transcript' \in Seq(Turns \cup {"completed"})
    BY <2>1, TranscriptType
  <2> QED
    BY <1>1, <2>1, <2>2 DEF TypeOK
<1>5. CASE Delegate
  <2>1. /\ phase' = "wave" /\ wave' = [NoWave EXCEPT !.width = decision, !.open = decision]
        /\ UNCHANGED <<policy, terminate, after, transcript, decision, dispatchCount, answers,
                       recorded, stopped, trigger, outcome, aborted>>
    BY <1>5 DEF Delegate, config, work, ending
  <2>2. wave' \in [width : 0..MaxWidth, open : 0..MaxWidth, failures : SUBSET ChildError,
                   refused : BOOLEAN, givenUp : Nat, completing : BOOLEAN]
    BY <2>1 DEF NoWave, TypeOK
  <2> QED
    BY <1>1, <2>1, <2>2 DEF TypeOK
<1>6. CASE ChildCompletes \/ ChildFails \/ ChildSkipped \/ ChildRefused
  <2>1. /\ UNCHANGED <<policy, terminate, phase, after, decision, dispatchCount, answers,
                       recorded, stopped, trigger, outcome, aborted>>
        /\ transcript' = transcript
        /\ wave.open > 0
        /\ \/ wave' = [wave EXCEPT !.open = @ - 1]
           \/ wave' = [wave EXCEPT !.open = @ - 1, !.completing = TRUE]
           \/ \E error \in ChildError :
                wave' = [wave EXCEPT !.open = @ - 1, !.failures = @ \cup {error}]
           \/ wave' = [wave EXCEPT !.open = @ - 1, !.refused = TRUE]
    BY <1>6 DEF ChildCompletes, ChildFails, ChildSkipped, ChildRefused, Settling, config, work,
                ending
  <2>2. transcript' \in Seq(Turns \cup {"completed"})
    BY <2>1 DEF TypeOK
  <2>3. wave.open - 1 \in 0..MaxWidth
    <3>1. wave.open \in 0..MaxWidth /\ wave.open > 0
      BY <2>1 DEF TypeOK
    <3> QED
      BY <3>1, ConstantsAssumption
  <2>4. wave' \in [width : 0..MaxWidth, open : 0..MaxWidth, failures : SUBSET ChildError,
                   refused : BOOLEAN, givenUp : Nat, completing : BOOLEAN]
    <3>1. wave \in [width : 0..MaxWidth, open : 0..MaxWidth, failures : SUBSET ChildError,
                    refused : BOOLEAN, givenUp : Nat, completing : BOOLEAN]
      BY DEF TypeOK
    <3>2. CASE \/ wave' = [wave EXCEPT !.open = @ - 1]
               \/ wave' = [wave EXCEPT !.open = @ - 1, !.completing = TRUE]
      BY <3>1, <3>2, <2>3
    <3>3. ASSUME NEW error \in ChildError,
                 wave' = [wave EXCEPT !.open = @ - 1, !.failures = @ \cup {error}]
          PROVE  wave' \in [width : 0..MaxWidth, open : 0..MaxWidth,
                            failures : SUBSET ChildError, refused : BOOLEAN,
                            givenUp : Nat, completing : BOOLEAN]
      BY <3>1, <3>3, <2>3
    <3>4. CASE wave' = [wave EXCEPT !.open = @ - 1, !.refused = TRUE]
      BY <3>1, <3>4, <2>3
    <3> QED
      BY <2>1, <3>2, <3>3, <3>4
  <2>5. UNCHANGED <<policy, terminate, phase, after, decision, dispatchCount, answers,
                    recorded, stopped, trigger, outcome, aborted>>
    BY <2>1
  <2> QED
    BY <1>1, <2>2, <2>4, <2>5 DEF TypeOK
<1>7. CASE Replan
  <2>1. /\ phase' = "plan"
        /\ dispatchCount' = dispatchCount + wave.width
        /\ UNCHANGED <<policy, terminate, after, transcript, decision, wave, answers, recorded,
                       stopped, trigger, outcome, aborted>>
    BY <1>7 DEF Replan, config, work, ending
  <2>2. dispatchCount' \in 0..MaxDispatch
    BY <1>7, <2>1, ConstantsAssumption DEF Replan, Settled, CountInv, TypeOK
  <2> QED
    BY <1>1, <2>1, <2>2 DEF TypeOK
<1>8. ASSUME NEW w \in Worker, WorkerAnswers(w) PROVE TypeOK'
  <2>1. PICK cost \in Cost : answers' = [answers EXCEPT ![w] = <<cost>>]
    BY <1>8 DEF WorkerAnswers
  <2>2. <<cost>> \in Seq(Nat)
    BY ConstantsAssumption DEF Cost
  <2>3. answers' \in [Worker -> Seq(Nat)]
    BY <2>1, <2>2 DEF TypeOK
  <2>4. UNCHANGED <<policy, terminate, phase, after, transcript, decision, dispatchCount, wave,
                    recorded, stopped, trigger, outcome, aborted>>
    BY <1>8 DEF WorkerAnswers, config, loop, ending
  <2> QED
    BY <1>1, <2>3, <2>4 DEF TypeOK
<1>9. CASE RecordWorker
  <2>1. /\ recorded < Workers /\ recorded' = recorded + 1
        /\ transcript' = Append(transcript, "worker")
        /\ UNCHANGED <<policy, terminate, phase, after, decision, dispatchCount, wave, answers,
                       stopped, trigger, outcome, aborted>>
    BY <1>9 DEF RecordWorker, config, loop, ending
  <2>2. transcript' \in Seq(Turns \cup {"completed"})
    BY <2>1, TranscriptType
  <2>3. recorded' \in 0..Workers
    BY <2>1, ConstantsAssumption DEF TypeOK
  <2> QED
    BY <1>1, <2>1, <2>2, <2>3 DEF TypeOK
<1>10. CASE SynthesisAnswers \/ SynthesisDelegates
  <2>1. /\ transcript' = Append(transcript, "synthesis")
        /\ phase' \in {"check", "over"} /\ after' \in {after, "final"}
        /\ outcome' \in {outcome, "rejected"}
        /\ UNCHANGED <<policy, terminate, decision, dispatchCount, wave, answers, recorded,
                       stopped, trigger, aborted>>
    BY <1>10 DEF SynthesisAnswers, SynthesisDelegates, Throw, config, loop, work, ending
  <2>2. transcript' \in Seq(Turns \cup {"completed"})
    BY <2>1, TranscriptType
  <2> QED
    BY <1>1, <2>1, <2>2 DEF TypeOK
<1>11. CASE WaveTriggers
  <2>1. /\ trigger' \in ChildError /\ phase' = "check" /\ after' = "work"
        /\ UNCHANGED <<policy, terminate, transcript, decision, dispatchCount, wave, answers,
                       recorded, stopped, outcome, aborted>>
    BY <1>11 DEF WaveTriggers, TypeOK, config, loop, work
  <2> QED
    BY <1>1, <2>1 DEF TypeOK
<1>12. CASE Participate \/ LoopGuard \/ WaveRethrows \/ WorkersDone \/ WorkersRecorded
            \/ TurnFails \/ Final \/ Resolve \/ AbortObserved \/ Abort
  <2>1. /\ phase' \in {phase, "check", "record", "returned", "over"}
        /\ after' \in {after, "work", "synthesis"}
        /\ outcome' \in {outcome, "resolved", "rejected"} /\ aborted' \in BOOLEAN
        /\ UNCHANGED <<policy, terminate, transcript, decision, dispatchCount, wave, answers,
                       recorded, stopped, trigger>>
    BY <1>12 DEF Participate, LoopGuard, WaveRethrows, WorkersDone, WorkersRecorded, TurnFails,
                 Final, Resolve, AbortObserved, Abort, Throw, TypeOK, config, ledger, loop, work, ending
  <2> QED
    BY <1>1, <2>1 DEF TypeOK
<1>13. CASE Finished
  BY <1>2, <1>13 DEF Finished
<1>14. CASE KeepResult \/ GiveUp
  <2>1. /\ UNCHANGED <<policy, terminate, phase, after, decision, dispatchCount, answers,
                       recorded, stopped, trigger, outcome, aborted>>
        /\ transcript' \in {transcript, Append(transcript, "completed")}
        /\ \/ wave' = [wave EXCEPT !.completing = FALSE]
           \/ wave' = [wave EXCEPT !.completing = FALSE, !.givenUp = @ + 1]
    BY <1>14 DEF KeepResult, GiveUp, config, work, ending
  <2>2. transcript' \in Seq(Turns \cup {"completed"})
    BY <2>1, TranscriptType DEF TypeOK
  <2>3. wave' \in [width : 0..MaxWidth, open : 0..MaxWidth, failures : SUBSET ChildError,
                   refused : BOOLEAN, givenUp : Nat, completing : BOOLEAN]
    <3>1. wave \in [width : 0..MaxWidth, open : 0..MaxWidth, failures : SUBSET ChildError,
                    refused : BOOLEAN, givenUp : Nat, completing : BOOLEAN]
      BY DEF TypeOK
    <3>2. CASE wave' = [wave EXCEPT !.completing = FALSE]
      BY <3>1, <3>2
    <3>3. CASE wave' = [wave EXCEPT !.completing = FALSE, !.givenUp = @ + 1]
      <4>1. wave.givenUp + 1 \in Nat
        BY <3>1
      <4> QED
        BY <3>1, <3>3, <4>1
    <3> QED
      BY <2>1, <3>2, <3>3
  <2>4. UNCHANGED <<policy, terminate, phase, after, decision, dispatchCount, answers, recorded,
                    stopped, trigger, outcome, aborted>>
    BY <2>1
  <2> QED
    BY <1>1, <2>2, <2>3, <2>4 DEF TypeOK
<1>15. CASE Call
  BY <1>1, <1>15 DEF TypeOK, Call, config, ledger, loop, work, ending
<1> QED
  BY <1>2, <1>3, <1>4, <1>5, <1>6, <1>7, <1>8, <1>9, <1>10, <1>11, <1>12, <1>13,
     <1>14, <1>15
  DEF Next, Progress, WaveStep

\* Recording begins when the last worker has answered, and none answers twice.
LEMMA AnswersStep ==
  ASSUME TypeOK, AnswersInv, [Next]_vars
  PROVE  AnswersInv'
<1>1. CASE WorkersDone
  BY <1>1 DEF WorkersDone, Outstanding, AnswersInv, work
<1>2. CASE \E w \in Worker : WorkerAnswers(w)
  BY <1>2 DEF WorkerAnswers, AnswersInv
<1>3. CASE RecordWorker
  BY <1>3 DEF RecordWorker, AnswersInv
<1>4. CASE UNCHANGED vars \/ Finished \/ Abort \/ Call
  BY <1>4 DEF Call, vars, Finished, Abort, AnswersInv, work
<1>5. CASE WaveStep
  <2>1. phase' = phase \/ phase' \in {"over", "check", "plan"}
    BY <1>5 DEF WaveStep, ChildCompletes, KeepResult, GiveUp, ChildFails, ChildSkipped,
                ChildRefused, WaveRethrows,
                WaveTriggers, Replan, Settling, Settled, Throw
  <2>2. answers' = answers
    BY <1>5 DEF WaveStep, ChildCompletes, KeepResult, GiveUp, ChildFails, ChildSkipped,
                ChildRefused,
                WaveRethrows, WaveTriggers, Replan, work
  <2> QED
    BY <2>1, <2>2 DEF AnswersInv
<1>6. CASE Check
  <2>1. phase' \in {after, "final"}
    BY <1>6 DEF Check
  <2> QED
    BY <2>1 DEF AnswersInv, TypeOK
<1>7. CASE PlanAnswers \/ Participate \/ Delegate \/ LoopGuard \/ WorkersRecorded
           \/ SynthesisAnswers \/ SynthesisDelegates \/ TurnFails \/ Final \/ Resolve
           \/ AbortObserved
  <2>1. phase' # "record"
    BY <1>7 DEF PlanAnswers, Participate, Delegate, LoopGuard, WorkersRecorded, SynthesisAnswers,
                SynthesisDelegates, TurnFails, Final, Resolve, AbortObserved, Throw
  <2> QED
    BY <2>1 DEF AnswersInv
<1> QED
  BY <1>1, <1>2, <1>3, <1>4, <1>5, <1>6, <1>7 DEF Next, Progress

-----------------------------------------------------------------------------
(* The children, the trigger and the end of the run                        *)

LEMMA RecordedEvents ==
  ASSUME TypeOK, NEW kind \in Kinds, NEW cost \in Nat, Record(kind, cost), NEW CONSTANT K
  PROVE  /\ Events(K)' = IF kind \in K THEN Events(K) \cup {Len(log) + 1} ELSE Events(K)
         /\ Cardinality(Events(K)') = Cardinality(Events(K)) + (IF kind \in K THEN 1 ELSE 0)
<1>1. PICK e \in EventRecord : e.kind = kind /\ log' = Append(log, e)
  BY RecordType
<1>2. log \in Seq(EventRecord)
  BY DEF TypeOK, EventRecord
<1> QED
  BY <1>1, <1>2, EventsOfAppend

\* No event is taken back.
LEMMA EventsGrow ==
  ASSUME TypeOK, AnswersInv, [Next]_vars, NEW CONSTANT K
  PROVE  Events(K) \subseteq Events(K)'
<1>1. CASE UNCHANGED <<log, totalCost>>
  BY <1>1 DEF Events
<1>2. ASSUME NEW kind \in Kinds, NEW cost \in Nat, Record(kind, cost)
      PROVE  Events(K) \subseteq Events(K)'
  BY <1>2, RecordedEvents
<1> QED
  BY <1>1, <1>2, LedgerSteps

\* Only a child that reports adds an event of a child.
LEMMA ChildEvents ==
  ASSUME TypeOK, AnswersInv, [Next]_vars, ~ChildReports, NEW CONSTANT K, K \subseteq Children
  PROVE  Events(K)' = Events(K)
<1>1. CASE UNCHANGED <<log, totalCost>>
  BY <1>1 DEF Events
<1>2. ASSUME NEW kind \in Kinds \ Children, NEW cost \in Nat, Record(kind, cost)
      PROVE  Events(K)' = Events(K)
  BY <1>2, RecordedEvents
<1> QED
  BY <1>1, <1>2, LedgerSteps

\* The other steps neither dispatch nor return to the plan loop.
LEMMA OtherSteps ==
  ASSUME TypeOK, [Next]_vars, ~ChildReports, ~ChildRefused, ~Delegate, ~Replan
  PROVE  /\ wave'.width = wave.width /\ wave'.open = wave.open /\ wave'.failures = wave.failures
         /\ dispatchCount' = dispatchCount
         /\ Planning' => Planning
         /\ phase' = "wave" => phase = "wave"
<1>1. CASE Check
  <2>1. phase = "check" /\ phase' \in {after, "final"} /\ UNCHANGED <<after, wave, dispatchCount>>
    BY <1>1 DEF Check, loop
  <2> QED
    BY <2>1 DEF TypeOK, Planning
<1>2. CASE PlanAnswers
  BY <1>2 DEF PlanAnswers, Planning
<1>3. CASE Participate \/ WaveTriggers \/ WorkersRecorded \/ SynthesisAnswers
  <2>1. /\ phase' = "check" /\ after' # "plan" /\ UNCHANGED <<wave, dispatchCount>>
    BY <1>3 DEF Participate, WaveTriggers, WorkersRecorded, SynthesisAnswers, loop
  <2> QED
    BY <2>1 DEF Planning
<1>4. CASE LoopGuard \/ WaveRethrows \/ WorkersDone \/ SynthesisDelegates \/ TurnFails \/ Final
           \/ Resolve \/ AbortObserved
  <2>1. phase' \in {"over", "record", "returned"} /\ UNCHANGED <<wave, dispatchCount>>
    BY <1>4 DEF LoopGuard, WaveRethrows, WorkersDone, SynthesisDelegates, TurnFails, Final,
                Resolve,
                AbortObserved, Throw, loop
  <2> QED
    BY <2>1 DEF Planning
<1>5. CASE RecordWorker \/ Call \/ Abort \/ Finished \/ UNCHANGED vars
           \/ \E w \in Worker : WorkerAnswers(w)
  <2>1. UNCHANGED <<phase, after, wave, dispatchCount>>
    BY <1>5 DEF RecordWorker, Call, Abort, Finished, WorkerAnswers, vars, loop
  <2> QED
    BY <2>1 DEF Planning
<1>6. CASE KeepResult \/ GiveUp
  <2>1. /\ UNCHANGED <<phase, after, dispatchCount>>
        /\ \/ wave' = [wave EXCEPT !.completing = FALSE]
           \/ wave' = [wave EXCEPT !.completing = FALSE, !.givenUp = @ + 1]
    BY <1>6 DEF KeepResult, GiveUp
  <2>2. UNCHANGED <<phase, after, dispatchCount>>
    BY <2>1
  <2>3. wave'.width = wave.width /\ wave'.open = wave.open /\ wave'.failures = wave.failures
    BY <2>1 DEF TypeOK
  <2> QED
    BY <2>2, <2>3 DEF Planning
<1> QED
  BY <1>1, <1>2, <1>3, <1>4, <1>5, <1>6 DEF Next, Progress, WaveStep, ChildReports

LEMMA CountStep ==
  ASSUME TypeOK, AnswersInv, CountInv, [Next]_vars
  PROVE  CountInv'
<1>1. /\ ReportedChildren \in Nat /\ dispatchCount \in Nat /\ wave.open \in Nat /\ wave.width \in Nat
      /\ decision \in Nat /\ MaxDispatch \in Nat
  <2>1. log \in Seq(EventRecord)
    BY DEF TypeOK, EventRecord
  <2>2. ReportedChildren \in Nat
    BY <2>1, EventsAreFinite DEF ReportedChildren
  <2> QED
    BY <2>2, ConstantsAssumption DEF TypeOK
<1>2. ~ChildReports => ReportedChildren' = ReportedChildren
  <2>1. Children \subseteq Children
    OBVIOUS
  <2> QED
    BY <2>1, ChildEvents DEF ReportedChildren
<1>3. CASE ChildReports
  <2>1. \E kind \in Children, cost \in Nat : Record(kind, cost)
    BY <1>3, CostsAreNumbers DEF ChildReports, ChildCompletes, ChildFails, ChildSkipped, Children
  <2>2. PICK kind \in Children, cost \in Nat : Record(kind, cost)
    BY <2>1
  <2>3. kind \in Kinds
    BY DEF Kinds
  <2>4. ReportedChildren' = ReportedChildren + 1
    BY <2>2, <2>3, RecordedEvents DEF ReportedChildren
  <2>5. /\ phase = "wave" /\ wave.open > 0 /\ UNCHANGED <<phase, dispatchCount>>
        /\ \/ wave' = [wave EXCEPT !.open = @ - 1]
           \/ wave' = [wave EXCEPT !.open = @ - 1, !.completing = TRUE]
           \/ \E error \in ChildError :
                wave' = [wave EXCEPT !.open = @ - 1, !.failures = @ \cup {error}]
    BY <1>3 DEF ChildReports, ChildCompletes, ChildFails, ChildSkipped, Settling
  <2>6. wave'.open = wave.open - 1 /\ wave'.width = wave.width
    BY <2>5 DEF TypeOK
  <2>7. phase' = "wave" /\ dispatchCount' = dispatchCount /\ phase = "wave" /\ wave.open > 0
    BY <2>5
  <2> QED
    BY <1>1, <2>4, <2>6, <2>7 DEF CountInv, Planning
<1>4. CASE ChildRefused
  <2>1. /\ phase = "wave" /\ wave.open > 0 /\ UNCHANGED <<phase, dispatchCount, log>>
        /\ wave' = [wave EXCEPT !.open = @ - 1, !.refused = TRUE]
    BY <1>4 DEF ChildRefused, Settling, ledger
  <2>2. wave'.open = wave.open - 1 /\ wave'.width = wave.width
    BY <2>1 DEF TypeOK
  <2>3. ReportedChildren' = ReportedChildren
    BY <2>1 DEF ReportedChildren, Events
  <2>4. phase' = "wave" /\ dispatchCount' = dispatchCount /\ phase = "wave" /\ wave.open > 0
    BY <2>1
  <2> QED
    BY <1>1, <2>2, <2>3, <2>4 DEF CountInv, Planning
<1>5. CASE Delegate
  <2>1. /\ phase = "decide" /\ phase' = "wave" /\ dispatchCount + decision <= MaxDispatch
        /\ wave' = [NoWave EXCEPT !.width = decision, !.open = decision]
        /\ dispatchCount' = dispatchCount /\ log' = log
    BY <1>5 DEF Delegate, ledger
  <2>2. wave'.open = decision /\ wave'.width = decision
    BY <2>1 DEF NoWave
  <2>3. ReportedChildren' = ReportedChildren
    BY <2>1 DEF ReportedChildren, Events
  <2>4. ReportedChildren <= dispatchCount
    BY <2>1 DEF CountInv, Planning
  <2>5. /\ phase' = "wave" /\ dispatchCount' = dispatchCount
        /\ dispatchCount + decision <= MaxDispatch
    BY <2>1
  <2> QED
    BY <1>1, <2>2, <2>3, <2>4, <2>5 DEF CountInv, Planning
<1>6. CASE Replan
  <2>1. /\ phase = "wave" /\ wave.open = 0 /\ phase' = "plan"
        /\ dispatchCount' = dispatchCount + wave.width /\ log' = log
    BY <1>6 DEF Replan, Settled, ledger
  <2>2. ReportedChildren' = ReportedChildren
    BY <2>1 DEF ReportedChildren, Events
  <2> QED
    BY <1>1, <2>1, <2>2 DEF CountInv, Planning
<1>7. ASSUME ~ChildReports, ~ChildRefused, ~Delegate, ~Replan
      PROVE  CountInv'
  <2>1. /\ wave'.width = wave.width /\ wave'.open = wave.open /\ dispatchCount' = dispatchCount
        /\ Planning' => Planning
        /\ phase' = "wave" => phase = "wave"
    BY <1>7, OtherSteps
  <2> QED
    BY <1>1, <1>2, <1>7, <2>1 DEF CountInv
<1> QED
  BY <1>3, <1>4, <1>5, <1>6, <1>7

LEMMA TriggerStep ==
  ASSUME TypeOK, AnswersInv, TriggerInv, SynthesisInv, [Next]_vars
  PROVE  TriggerInv'
<1>1. /\ Events({"failed"}) \subseteq Events({"failed"})'
      /\ Events({"failed plain"}) \subseteq Events({"failed plain"})'
      /\ ~ChildReports => /\ Events({"failed"})' = Events({"failed"})
                          /\ Events({"failed plain"})' = Events({"failed plain"})
  <2>1. {"failed"} \subseteq Children /\ {"failed plain"} \subseteq Children
    BY DEF Children
  <2>2. ~ChildReports => Events({"failed"})' = Events({"failed"})
    BY <2>1, ChildEvents
  <2>3. ~ChildReports => Events({"failed plain"})' = Events({"failed plain"})
    BY <2>1, ChildEvents
  <2> QED
    BY <2>2, <2>3, EventsGrow
<1>2. CASE ChildFails
  <2>1. PICK cost \in Cost, error \in ChildError :
          /\ Record(IF error = "plain" THEN "failed plain" ELSE "failed", cost)
          /\ wave' = [wave EXCEPT !.open = @ - 1, !.failures = @ \cup {error}]
    BY <1>2 DEF ChildFails
  <2>2. phase = "wave" /\ UNCHANGED <<policy, phase, after, trigger, outcome>>
    BY <1>2 DEF ChildFails, Settling, config, ending
  <2>3. wave'.failures = wave.failures \cup {error}
    BY <2>1 DEF TypeOK
  <2>4. error = "plain" => Events({"failed plain"})' # {}
    <3> SUFFICES ASSUME error = "plain" PROVE Events({"failed plain"})' # {}
      OBVIOUS
    <3>1. Record("failed plain", cost) /\ cost \in Nat /\ "failed plain" \in Kinds
      BY <2>1, CostsAreNumbers, RecordKinds
    <3>2. Events({"failed plain"})' = Events({"failed plain"}) \cup {Len(log) + 1}
      BY <3>1, RecordedEvents
    <3> QED
      BY <3>2
  <2>5. trigger = "none"
    BY <2>2 DEF TriggerInv
  <2>6. UNCHANGED <<policy, phase, after, trigger, outcome>> /\ phase = "wave"
    BY <2>2
  <2> QED
    BY <1>1, <2>3, <2>4, <2>5, <2>6 DEF TriggerInv
<1>3. CASE ChildCompletes \/ ChildSkipped
  <2>1. /\ phase = "wave" /\ UNCHANGED <<policy, phase, after, trigger, outcome>>
        /\ \/ wave' = [wave EXCEPT !.open = @ - 1]
           \/ wave' = [wave EXCEPT !.open = @ - 1, !.completing = TRUE]
        /\ \E kind \in {"completed", "skipped"}, cost \in Cost \cup {0} : Record(kind, cost)
    BY <1>3 DEF ChildCompletes, ChildSkipped, Settling, config, ending
  <2>2. wave'.failures = wave.failures
    BY <2>1 DEF TypeOK
  <2>3. PICK kind \in {"completed", "skipped"}, cost \in Cost \cup {0} : Record(kind, cost)
    BY <2>1
  <2>4. kind \in Kinds /\ cost \in Nat
    <3>1. kind \in Kinds
      BY RecordKinds
    <3>2. cost \in Nat
      BY CostsAreNumbers
    <3> QED
      BY <3>1, <3>2
  <2>5. Events({"failed"})' = Events({"failed"})
    BY <2>3, <2>4, RecordedEvents
  <2>6. UNCHANGED <<policy, phase, after, trigger, outcome>> /\ phase = "wave"
    BY <2>1
  <2> QED
    BY <1>1, <2>2, <2>5, <2>6 DEF TriggerInv, Planning
<1>4. ASSUME ~ChildReports PROVE TriggerInv'
  <2>1. /\ Events({"failed"})' = Events({"failed"})
        /\ Events({"failed plain"})' = Events({"failed plain"})
    BY <1>1, <1>4
  <2>2. CASE ChildRefused
    <3>1. /\ phase = "wave" /\ UNCHANGED <<policy, phase, after, trigger, outcome>>
          /\ wave' = [wave EXCEPT !.open = @ - 1, !.refused = TRUE]
      BY <2>2 DEF ChildRefused, Settling, config, ending
    <3>2. wave'.failures = wave.failures
      BY <3>1 DEF TypeOK
    <3>3. UNCHANGED <<policy, phase, after, trigger, outcome>> /\ phase = "wave"
      BY <3>1
    <3> QED
      BY <2>1, <3>2, <3>3 DEF TriggerInv, Planning
  <2>3. CASE Delegate
    <3>1. /\ phase = "decide" /\ phase' = "wave" /\ UNCHANGED <<policy, trigger, outcome>>
          /\ wave' = [NoWave EXCEPT !.width = decision, !.open = decision]
      BY <2>3 DEF Delegate, config, ending
    <3>2. wave'.failures = {}
      BY <3>1 DEF NoWave
    <3>3. trigger = "none" /\ ~(policy = "abort" /\ Events({"failed"}) # {})
      BY <3>1 DEF TriggerInv, Planning
    <3>4. trigger' = trigger /\ policy' = policy
      BY <3>1
    <3> QED
      BY <2>1, <3>2, <3>3, <3>4 DEF TriggerInv
  <2>4. CASE Replan
    <3>1. /\ phase = "wave" /\ phase' = "plan" /\ UNCHANGED <<policy, trigger, wave>>
          /\ policy = "continue" \/ wave.failures = {}
      BY <2>4 DEF Replan, Settled, config, ending
    <3> QED
      BY <2>1, <3>1 DEF TriggerInv
  <2>5. CASE WaveTriggers
    <3>1. /\ trigger' \in wave.failures /\ wave.failures \subseteq ChildError
          /\ phase' = "check" /\ after' = "work" /\ UNCHANGED <<policy, wave>>
      BY <2>5 DEF WaveTriggers, TypeOK, config, loop
    <3>2. trigger' # "none"
      BY <3>1 DEF ChildError
    <3> QED
      BY <2>1, <3>1, <3>2 DEF TriggerInv, Planning
  <2>6. ASSUME ~ChildRefused, ~Delegate, ~Replan, ~WaveTriggers
        PROVE  TriggerInv'
    <3>1. /\ wave'.failures = wave.failures /\ (Planning' => Planning)
          /\ (phase' = "wave" => phase = "wave")
      BY <1>4, <2>6, OtherSteps
    <3>2. /\ UNCHANGED <<policy, trigger>>
          /\ phase = "wave" => phase' = "wave" \/ (phase' = "over" /\ outcome' = "rejected")
          /\ phase = "over" => phase' = "over" /\ outcome' = outcome
      BY <1>4, <2>6
      DEF Next, Progress, WaveStep, ChildReports, Check, Call, KeepResult, GiveUp, PlanAnswers,
          Participate, LoopGuard,
          WaveRethrows, WorkerAnswers, WorkersDone, RecordWorker, WorkersRecorded, SynthesisAnswers,
          SynthesisDelegates, TurnFails, Final, Resolve, AbortObserved, Abort, Finished, Settled,
          Throw, vars, config, ending
    <3> QED
      BY <2>1, <3>1, <3>2 DEF TriggerInv
  <2> QED
    BY <2>2, <2>3, <2>4, <2>5, <2>6
<1> QED
  BY <1>2, <1>3, <1>4 DEF ChildReports

LEMMA SynthesisStep ==
  ASSUME TypeOK, AnswersInv, SynthesisInv, [Next]_vars
  PROVE  SynthesisInv'
<1>1. CASE SynthesisAnswers
  <2>1. /\ phase' = "check" /\ after' = "final" /\ phase = "synthesis" /\ outcome' = outcome
        /\ \E cost \in Cost : Record("synthesis", cost)
    BY <1>1 DEF SynthesisAnswers, ending
  <2>2. PICK cost \in Cost : Record("synthesis", cost)
    BY <2>1
  <2>3. cost \in Nat /\ "synthesis" \in Kinds
    BY CostsAreNumbers, RecordKinds
  <2>4. Events({"synthesis"})' = Events({"synthesis"}) \cup {Len(log) + 1}
    BY <2>2, <2>3, RecordedEvents
  <2>5. Events({"failed"})' = Events({"failed"})
    BY <2>2, <2>3, RecordedEvents
  <2>6. Events({"failed"}) \subseteq 1..Len(log) /\ Len(log) \in Nat
    BY EventsAreFinite DEF TypeOK, EventRecord
  <2>7. \A k \in Events({"failed"}) : Len(log) + 1 > k
    BY <2>6
  <2>8. Covered'
    BY <2>4, <2>5, <2>7 DEF Covered
  <2> QED
    BY <2>1, <2>8 DEF SynthesisInv
<1>2. ASSUME ~SynthesisAnswers PROVE SynthesisInv'
  <2>1. /\ after' = "final" => after = "final"
        /\ after = "final" => ~ChildReports
        /\ phase' \in {"final", "returned"} =>
             \/ phase = "check" /\ (stopped' # "no" \/ phase' = after) /\ after' = after
             \/ phase \in {"final", "returned"} /\ UNCHANGED <<after, stopped>>
        /\ (outcome' = "pending" <=> phase' # "over")
    <3>1. CASE Check
      <4>1. /\ phase = "check" /\ after' = after /\ outcome' = outcome
            /\ (phase' = after \/ (phase' = "final" /\ stopped' # "no"))
        BY <1>2, <3>1 DEF Check
      <4> QED
        BY <4>1 DEF SynthesisInv, TypeOK, ChildReports, ChildCompletes, ChildFails, ChildSkipped,
                    Settling
    <3>2. CASE ChildReports \/ ChildRefused
      <4>1. phase = "wave" /\ UNCHANGED <<phase, after, outcome>>
        BY <3>2 DEF ChildReports, ChildCompletes, ChildFails, ChildSkipped, ChildRefused,
                    Settling,
                    ending
      <4> QED
        BY <4>1 DEF SynthesisInv
    <3>3. CASE LoopGuard \/ WaveRethrows \/ SynthesisDelegates \/ TurnFails \/ Resolve \/ AbortObserved
      <4>1. /\ phase' = "over" /\ after' = after /\ outcome' # "pending"
            /\ phase # "wave" \/ ~ChildReports
        BY <3>3 DEF LoopGuard, WaveRethrows, SynthesisDelegates, TurnFails, Resolve,
                    AbortObserved,
                    Throw, Settled, ChildReports, ChildCompletes, ChildFails, ChildSkipped, Settling
      <4> QED
        BY <4>1 DEF ChildReports, ChildCompletes, ChildFails, ChildSkipped, Settling
    <3>4. CASE PlanAnswers \/ Participate \/ Delegate \/ Replan \/ WaveTriggers \/ WorkersDone
               \/ WorkersRecorded
      <4>1. /\ phase \in {"plan", "decide", "wave", "work", "record"}
            /\ phase' \in {"decide", "check", "wave", "plan", "record"}
            /\ after' \in {after, "work", "synthesis"} /\ outcome' = outcome
        BY <3>4 DEF PlanAnswers, Participate, Delegate, Replan, WaveTriggers, WorkersDone,
                    WorkersRecorded, Settled, ending
      <4> QED
        BY <4>1 DEF SynthesisInv
    <3>5. CASE Final
      <4>1. phase = "final" /\ phase' = "returned" /\ UNCHANGED <<after, stopped, outcome>>
        BY <3>5 DEF Final, ending
      <4>2. ~ChildReports
        BY <4>1 DEF ChildReports, ChildCompletes, ChildFails, ChildSkipped, Settling
      <4> QED
        BY <4>1, <4>2 DEF SynthesisInv
    <3>6. CASE RecordWorker \/ Call \/ KeepResult \/ GiveUp \/ Abort \/ Finished
               \/ UNCHANGED vars \/ \E w \in Worker : WorkerAnswers(w)
      <4>1. UNCHANGED <<phase, after, stopped, outcome>>
        BY <3>6 DEF RecordWorker, Call, KeepResult, GiveUp, Abort, Finished, WorkerAnswers,
                    vars, ending
      <4>2. after = "final" => ~ChildReports
        BY DEF SynthesisInv, ChildReports, ChildCompletes, ChildFails, ChildSkipped, Settling
      <4> QED
        BY <4>1, <4>2 DEF SynthesisInv
    <3> QED
      BY <1>2, <3>1, <3>2, <3>3, <3>4, <3>5, <3>6 DEF Next, Progress, WaveStep, ChildReports
  <2>2. after = "final" => Covered'
    <3> SUFFICES ASSUME after = "final" PROVE Covered'
      OBVIOUS
    <3>1. Events({"failed"})' = Events({"failed"})
      <4>1. ~ChildReports /\ {"failed"} \subseteq Children
        BY <2>1 DEF Children
      <4> QED
        BY <4>1, ChildEvents
    <3>2. Events({"synthesis"}) \subseteq Events({"synthesis"})'
      BY EventsGrow
    <3> QED
      BY <3>1, <3>2 DEF SynthesisInv, Covered
  <2>3. after = "final" => phase' \in {"check", "final", "returned", "over"}
    <3> SUFFICES ASSUME after = "final" PROVE phase' \in {"check", "final", "returned", "over"}
      OBVIOUS
    <3>1. phase \in {"check", "final", "returned", "over"}
      BY DEF SynthesisInv
    <3> QED
      BY <3>1
      DEF Next, Progress, WaveStep, Check, Call, KeepResult, GiveUp, PlanAnswers, Participate,
          Delegate, LoopGuard,
          ChildCompletes, ChildFails, ChildSkipped, ChildRefused, WaveRethrows, WaveTriggers, Replan,
          WorkerAnswers, WorkersDone, RecordWorker, WorkersRecorded, SynthesisAnswers,
          SynthesisDelegates, TurnFails, Final, Resolve, AbortObserved, Abort, Finished, Settled,
          Settling, Throw, vars
  <2> QED
    BY <2>1, <2>2, <2>3 DEF SynthesisInv, TypeOK
<1> QED
  BY <1>1, <1>2

-----------------------------------------------------------------------------
(* Requests and calls, and children given up on                            *)

\* Every other step keeps the thread where it is while a request is out, and neither
\* enters a phase of calls nor changes what the caps look at there.
LEMMA QuietSteps ==
  ASSUME [Next]_vars, ~Call, ~Check, ~Replan
  PROVE  /\ UNCHANGED calls
         /\ Asking => phase' = phase \/ phase \notin {"plan", "work", "synthesis"}
         /\ phase' \in {"plan", "synthesis"} => phase' = phase
         /\ phase' = "work" => phase = "work" /\ UNCHANGED <<terminate, totalCost, transcript>>
<1>1. UNCHANGED calls
  BY CallSteps
<1>2. Asking => phase' = phase \/ phase \notin {"plan", "work", "synthesis"}
  BY DEF Next, Progress, WaveStep, PlanAnswers, Participate, Delegate, LoopGuard, ChildCompletes,
         KeepResult, GiveUp, ChildFails, ChildSkipped, ChildRefused, WaveRethrows, WaveTriggers,
         WorkerAnswers, WorkersDone, RecordWorker, WorkersRecorded, SynthesisAnswers,
         SynthesisDelegates, TurnFails, Final, Resolve, AbortObserved, Abort, Finished, Settled,
         Settling, Delivering, vars
<1>3. phase' \in {"plan", "synthesis"} => phase' = phase
  BY DEF Next, Progress, WaveStep, PlanAnswers, Participate, Delegate, LoopGuard, ChildCompletes,
         KeepResult, GiveUp, ChildFails, ChildSkipped, ChildRefused, WaveRethrows, WaveTriggers,
         WorkerAnswers, WorkersDone, RecordWorker, WorkersRecorded, SynthesisAnswers,
         SynthesisDelegates, TurnFails, Final, Resolve, AbortObserved, Abort, Finished, Throw, vars
<1>4. phase' = "work" => phase = "work" /\ UNCHANGED <<terminate, totalCost, transcript>>
  BY DEF Next, Progress, WaveStep, PlanAnswers, Participate, Delegate, LoopGuard, ChildCompletes,
         KeepResult, GiveUp, ChildFails, ChildSkipped, ChildRefused, WaveRethrows, WaveTriggers,
         WorkerAnswers, WorkersDone, RecordWorker, WorkersRecorded, SynthesisAnswers,
         SynthesisDelegates, TurnFails, Final, Resolve, AbortObserved, Abort, Finished, Settled,
         Settling, Delivering, Throw, vars, config, ledger
<1> QED
  BY <1>1, <1>2, <1>3, <1>4

LEMMA CallStep ==
  ASSUME TypeOK, CallInv, [Next]_vars
  PROVE  CallInv'
<1>1. requested \in Nat /\ issued \in Nat /\ due \in Nat
  BY ConstantsAssumption DEF TypeOK
<1>2. CASE Call
  <2>1. /\ requested = issued + 1 /\ issued' = issued + 1
        /\ \/ due > 0 /\ requested' = requested + 1 /\ due' = due - 1
           \/ UNCHANGED <<requested, due>>
        /\ UNCHANGED <<phase, terminate, totalCost, transcript>>
    BY <1>1, <1>2 DEF Call, CallInv, Asking, config, ledger
  <2>2. CapReached' = CapReached
    BY <2>1 DEF CapReached
  <2>3. phase \in {"plan", "work", "synthesis"}
    BY <1>1, <2>1 DEF CallInv, Asking
  <2> QED
    BY <1>1, <2>1, <2>2, <2>3 DEF CallInv
<1>3. ASSUME NEW p, phase' = p, phase \notin {"plan", "work", "synthesis"}, issued' = issued,
             requested' = IF CallsOf(p) = 0 THEN requested ELSE requested + 1,
             due' = IF CallsOf(p) = 0 THEN 0 ELSE CallsOf(p) - 1,
             p = "work" => ~CapReached'
      PROVE  CallInv'
  <2>1. requested = issued
    BY <1>1, <1>3 DEF CallInv, Asking
  <2>2. CallsOf(p) # 0 => p \in {"plan", "work", "synthesis"}
    BY DEF CallsOf
  <2>3. p \in {"plan", "synthesis"} => CallsOf(p) = 1
    BY DEF CallsOf
  <2>4. requested' \in {issued', issued' + 1} /\ (requested' > issued' => CallsOf(p) # 0)
    BY <1>1, <1>3, <2>1
  <2> QED
    BY <1>3, <2>2, <2>3, <2>4 DEF CallInv, Asking
<1>4. CASE Check
  <2>1. /\ phase = "check" /\ Enter(phase') /\ UNCHANGED <<after, terminate, totalCost,
                                                           transcript>>
        /\ phase' = "final" \/ ("no" \in StopVerdicts /\ phase' = after)
    BY <1>4 DEF Check, config
  <2>2. phase' = "work" => ~CapReached
    BY <2>1 DEF StopVerdicts
  <2>3. CapReached' = CapReached
    BY <2>1 DEF CapReached
  <2> QED
    BY <1>3, <2>1, <2>2, <2>3 DEF Enter
<1>5. CASE Replan
  BY <1>3, <1>5 DEF Replan, Settled, Enter
<1>6. CASE ~Call /\ ~Check /\ ~Replan
  <2>1. /\ UNCHANGED calls
        /\ Asking => phase' = phase \/ phase \notin {"plan", "work", "synthesis"}
        /\ phase' \in {"plan", "synthesis"} => phase' = phase
        /\ phase' = "work" => phase = "work" /\ UNCHANGED <<terminate, totalCost, transcript>>
    BY <1>6, QuietSteps
  <2>2. UNCHANGED <<requested, issued, due>> /\ Asking' = Asking
    BY <2>1 DEF calls, Asking
  <2>3. phase' = "work" => ~CapReached'
    BY <2>1 DEF CallInv, CapReached
  <2> QED
    BY <2>1, <2>2, <2>3 DEF CallInv
<1> QED
  BY <1>2, <1>4, <1>5, <1>6

LEMMA GivenUpStep ==
  ASSUME TypeOK, GivenUpInv, [Next]_vars
  PROVE  GivenUpInv'
<1>1. CASE Delegate
  BY <1>1 DEF Delegate, NoWave, GivenUpInv
<1>2. CASE ChildCompletes \/ ChildFails \/ ChildSkipped \/ ChildRefused
  <2>1. /\ phase = "wave" /\ UNCHANGED <<phase, aborted>>
        /\ \/ wave' = [wave EXCEPT !.open = @ - 1]
           \/ wave' = [wave EXCEPT !.open = @ - 1, !.completing = TRUE]
           \/ wave' = [wave EXCEPT !.open = @ - 1, !.refused = TRUE]
           \/ \E error \in ChildError :
                wave' = [wave EXCEPT !.open = @ - 1, !.failures = @ \cup {error}]
    BY <1>2 DEF ChildCompletes, ChildFails, ChildSkipped, ChildRefused, Settling
  <2>2. wave'.givenUp = wave.givenUp
    BY <2>1 DEF TypeOK
  <2>3. phase' = "wave" /\ phase = "wave" /\ aborted' = aborted
    BY <2>1
  <2> QED
    BY <2>2, <2>3 DEF GivenUpInv
<1>3. CASE KeepResult \/ GiveUp
  <2>1. /\ phase = "wave" /\ UNCHANGED <<phase, aborted>>
        /\ \/ wave' = [wave EXCEPT !.completing = FALSE]
           \/ wave' = [wave EXCEPT !.completing = FALSE, !.givenUp = @ + 1] /\ aborted
    BY <1>3 DEF KeepResult, GiveUp, Delivering
  <2>2. ~wave'.completing /\ (wave'.givenUp = wave.givenUp \/ aborted)
    BY <2>1 DEF TypeOK
  <2>3. phase' = "wave" /\ aborted' = aborted
    BY <2>1
  <2> QED
    BY <2>2, <2>3 DEF GivenUpInv
<1>4. ASSUME ~Delegate, ~ChildReports, ~ChildRefused, ~KeepResult, ~GiveUp
      PROVE  GivenUpInv'
  <2>1. /\ wave' = wave /\ (aborted => aborted')
        /\ phase = "wave" => phase' = phase \/ ~wave.completing
        /\ phase \in {"wave", "check", "over"} => phase' \in {"wave", "check", "over"} \/ ~aborted
    BY <1>4
    DEF Next, Progress, WaveStep, ChildReports, Check, Call, PlanAnswers, Participate, LoopGuard,
        WaveRethrows, WaveTriggers, Replan, WorkerAnswers, WorkersDone, RecordWorker,
        WorkersRecorded, SynthesisAnswers, SynthesisDelegates, TurnFails, Final, Resolve,
        AbortObserved, Abort, Finished, Settled, Throw, vars, loop
  <2> QED
    BY <2>1 DEF GivenUpInv
<1> QED
  BY <1>1, <1>2, <1>3, <1>4 DEF ChildReports

-----------------------------------------------------------------------------
(* The terminal throw                                                      *)

\* A synthesis after the last failure follows them all.
LEMMA SynthesisAfterAll ==
  ASSUME log \in Seq(EventRecord), NEW k \in Events({"failed"}),
         \E l \in DOMAIN log : l > LastFailure /\ log[l].kind = "synthesis"
  PROVE  \E l \in Events({"synthesis"}) : l > k
<1>1. PICK l \in DOMAIN log : l > LastFailure /\ log[l].kind = "synthesis"
  OBVIOUS
<1>2. l \in Events({"synthesis"})
  BY <1>1 DEF Events
<1>3. k \in 1..Len(log) /\ l \in 1..Len(log) /\ Len(log) \in Nat
  BY <1>2, EventsAreFinite
<1>4. LastFailure \in Nat /\ k <= LastFailure
  BY LastEvent
<1> QED
  BY <1>1, <1>2, <1>3, <1>4

LEMMA NoSilentFailureStep ==
  ASSUME IInv, [Next]_vars
  PROVE  NoSilentFailure'
<1>1. CASE outcome = "resolved"
  <2>1. phase = "over"
    BY <1>1 DEF IInv, SynthesisInv
  <2>2. UNCHANGED <<policy, log, outcome>>
    BY <2>1
    DEF Next, Progress, WaveStep, Check, Call, KeepResult, GiveUp, PlanAnswers, Participate,
        Delegate, LoopGuard,
        ChildCompletes, ChildFails, ChildSkipped, ChildRefused, WaveRethrows, WaveTriggers, Replan,
        WorkerAnswers, WorkersDone, RecordWorker, WorkersRecorded, SynthesisAnswers,
        SynthesisDelegates, TurnFails, Final, Resolve, AbortObserved, Abort, Finished, Settled,
        Settling, vars, config, ledger, ending
  <2> QED
    BY <2>2 DEF IInv, NoSilentFailure
<1>2. CASE outcome # "resolved"
  <2> SUFFICES ASSUME outcome' = "resolved", \A k \in DOMAIN log' : log'[k].kind # "failed plain"
               PROVE  \A k \in DOMAIN log' : log'[k].kind = "failed" =>
                        policy' = "continue" /\ \E l \in DOMAIN log' : l > k /\ log'[l].kind = "synthesis"
    BY DEF NoSilentFailure
  <2>1. Resolve
    BY <1>2
    DEF Next, Progress, WaveStep, Check, Call, KeepResult, GiveUp, PlanAnswers, Participate,
        Delegate, LoopGuard,
        ChildCompletes, ChildFails, ChildSkipped, ChildRefused, WaveRethrows, WaveTriggers, Replan,
        WorkerAnswers, WorkersDone, RecordWorker, WorkersRecorded, SynthesisAnswers,
        SynthesisDelegates, TurnFails, Final, AbortObserved, Abort, Finished, Throw, vars, ending
  <2>2. /\ phase = "returned" /\ ~TerminalThrow /\ UNCHANGED <<policy, log>>
    BY <2>1 DEF Resolve, config, ledger
  <2>3. Events({"failed plain"}) = {}
    BY <2>2 DEF Events
  <2>4. trigger = "none"
    BY <2>2, <2>3 DEF TerminalThrow, IInv, TriggerInv
  <2>5. SUFFICES ASSUME NEW k \in Events({"failed"})
                 PROVE  policy = "continue" /\ \E l \in Events({"synthesis"}) : l > k
    BY <2>2 DEF Events
  <2>6. policy = "continue"
    BY <2>2, <2>4 DEF IInv, TriggerInv, TypeOK
  <2>7. log \in Seq(EventRecord)
    BY DEF IInv, TypeOK, EventRecord
  <2>8. CASE stopped = "no"
    <3>1. Covered
      BY <2>2, <2>8 DEF IInv, SynthesisInv
    <3> QED
      BY <2>6, <3>1 DEF Covered
  <2>9. CASE stopped # "no"
    <3>1. LastFailure # 0
      BY <2>7, LastEvent
    <3>2. \E l \in DOMAIN log : l > LastFailure /\ log[l].kind = "synthesis"
      BY <2>2, <2>4, <2>9, <3>1 DEF TerminalThrow
    <3> QED
      BY <2>6, <2>7, <3>2, SynthesisAfterAll
  <2> QED
    BY <2>8, <2>9
<1> QED
  BY <1>1, <1>2

-----------------------------------------------------------------------------
(* The theorems                                                            *)

LEMMA InitInv == ASSUME Init PROVE IInv
<1> USE DEF Init
<1>1. /\ log = <<>> /\ Events(Children) = {} /\ Events({"failed"}) = {} /\ DOMAIN log = {}
  BY DEF Events
<1>2. ReportedChildren = 0
  BY <1>1, FS_EmptySet DEF ReportedChildren
<1>3. TypeOK
  <2>1. NoWave \in [width : 0..MaxWidth, open : 0..MaxWidth, failures : SUBSET ChildError,
                    refused : BOOLEAN, givenUp : Nat, completing : BOOLEAN]
    BY ConstantsAssumption DEF NoWave
  <2>2. answers \in [Worker -> Seq(Nat)]
    OBVIOUS
  <2>3. log \in Seq([kind : Kinds, own : Nat, total : Nat])
    OBVIOUS
  <2>4. transcript \in Seq(Turns \cup {"completed"})
    OBVIOUS
  <2>5. /\ decision \in 0..MaxWidth /\ dispatchCount \in 0..MaxDispatch /\ recorded \in 0..Workers
        /\ totalCost \in Nat /\ requested \in Nat /\ issued \in Nat /\ due \in 0..Workers
    BY ConstantsAssumption
  <2> QED
    BY <2>1, <2>2, <2>3, <2>4, <2>5 DEF TypeOK
<1>4. CountInv
  BY <1>2, ConstantsAssumption DEF CountInv, Planning
<1>5. TriggerInv
  BY <1>1 DEF TriggerInv, NoWave
<1>6. SynthesisInv /\ AnswersInv /\ NoSilentFailure
  BY DEF SynthesisInv, AnswersInv, NoSilentFailure
<1>7. RunningTotals
  BY <1>1 DEF RunningTotals
<1>8. CallInv /\ GivenUpInv
  BY DEF CallInv, GivenUpInv, Asking, NoWave
<1> QED
  BY <1>3, <1>4, <1>5, <1>6, <1>7, <1>8 DEF IInv

\* The inductive invariant holds for any number of workers and delegates and any caps.
THEOREM Invariance == Spec => []IInv
<1>1. Init => IInv
  BY InitInv
<1>2. IInv /\ [Next]_vars => IInv'
  BY TypeStep, AnswersStep, RunningTotalsStep, CountStep, TriggerStep, SynthesisStep,
     NoSilentFailureStep, CallStep, GivenUpStep DEF IInv
<1> QED
  BY <1>1, <1>2, PTL DEF Spec

\* Every variable keeps its type; no counter of the run goes below zero or past its bound.
THEOREM TypeCorrect == Spec => []TypeOK
<1>1. IInv => TypeOK
  BY DEF IInv
<1> QED
  BY <1>1, Invariance, PTL

\* The running totals that the events of a run report are one ledger, whoever adds to it.
THEOREM TotalsAdd == Spec => []RunningTotals
<1>1. IInv => RunningTotals
  BY DEF IInv
<1> QED
  BY <1>1, Invariance, PTL

\* No run has more children than MAX_DISPATCH_PER_TURN, in however many waves.
THEOREM ChildrenBounded == Spec => []DispatchBounded
<1>1. IInv => DispatchBounded
  BY DEF IInv, CountInv, DispatchBounded, ReportedChildren, Events
<1> QED
  BY <1>1, Invariance, PTL

\* A run that resolves has synthesized after each child failure whose error it kept.
THEOREM FailuresSurface == Spec => []NoSilentFailure
<1>1. IInv => NoSilentFailure
  BY DEF IInv
<1> QED
  BY <1>1, Invariance, PTL

\* No worker and no final synthesis is asked once a cap is reached.
THEOREM CapsHold == Spec => NoTurnOverCap
<1> DEFINE Held ==
      requested' # requested /\ phase' \in {"work", "synthesis"} =>
        /\ "cost" \in terminate => totalCost < CostCap
        /\ "iterations" \in terminate => Len(transcript) < IterationCap
<1>1. IInv /\ [Next]_vars => [Held]_vars
  <2> SUFFICES ASSUME IInv, [Next]_vars, requested' # requested, phase' \in {"work", "synthesis"}
               PROVE  /\ "cost" \in terminate => totalCost < CostCap
                      /\ "iterations" \in terminate => Len(transcript) < IterationCap
    OBVIOUS
  <2>1. Check \/ Call
    BY CallSteps DEF Replan, calls
  <2>2. totalCost \in Nat /\ Len(transcript) \in Nat /\ CostCap \in Nat /\ IterationCap \in Nat
    BY ConstantsAssumption DEF IInv, TypeOK
  <2>3. ~CapReached
    <3>1. CASE Check
      BY <3>1 DEF Check, StopVerdicts
    <3>2. CASE Call
      <4>1. due > 0 /\ phase' = phase
        BY <3>2 DEF Call
      <4> QED
        BY <4>1 DEF IInv, CallInv
    <3> QED
      BY <2>1, <3>1, <3>2
  <2> QED
    BY <2>2, <2>3 DEF CapReached
<1> QED
  BY <1>1, Invariance, PTL DEF Spec, NoTurnOverCap

\* An aborted coordinator asks no more, makes no call but the one whose request is
\* out, keeps no more results and does not return one.
THEOREM AbortStopsCalls == Spec => AbortIsFinal
<1> DEFINE Quiet ==
      aborted =>
        /\ requested' = requested
        /\ issued' # issued => issued' = issued + 1 /\ issued' = requested
        /\ transcript' # transcript => phase = "record"
        /\ phase' = "returned" => phase = "returned"
<1>1. IInv /\ [Next]_vars => [Quiet]_vars
  <2> SUFFICES ASSUME IInv, [Next]_vars, aborted
               PROVE  /\ requested' = requested
                      /\ issued' # issued => issued' = issued + 1 /\ issued' = requested
                      /\ transcript' # transcript => phase = "record"
                      /\ phase' = "returned" => phase = "returned"
    OBVIOUS
  <2>1. /\ requested' = requested
        /\ issued' # issued => issued' = issued + 1 /\ issued' = requested
    <3>1. CASE UNCHANGED calls
      BY <3>1 DEF calls
    <3>2. CASE Call
      <4>1. /\ requested' = requested /\ issued' = issued + 1 /\ requested > issued
            /\ requested \in {issued, issued + 1} /\ issued \in Nat
        BY <3>2 DEF Call, Asking, IInv, CallInv, TypeOK
      <4> QED
        BY <4>1
    <3> QED
      BY <3>1, <3>2, CallSteps DEF Check, Replan
  <2>2. /\ transcript' # transcript => phase = "record"
        /\ phase' = "returned" => phase = "returned"
    BY DEF Next, Progress, WaveStep, Check, Call, PlanAnswers, Participate, Delegate, LoopGuard,
           ChildCompletes, KeepResult, GiveUp, ChildFails, ChildSkipped, ChildRefused, WaveRethrows,
           WaveTriggers, Replan, WorkerAnswers, WorkersDone, RecordWorker, WorkersRecorded,
           SynthesisAnswers, SynthesisDelegates, TurnFails, Final, Resolve, AbortObserved, Abort,
           Finished, Throw, vars
  <2> QED
    BY <2>1, <2>2
<1> QED
  BY <1>1, Invariance, PTL DEF Spec, AbortIsFinal

-----------------------------------------------------------------------------
(* The transcript                                                          *)

Entries == Turns \cup {"completed"}

\* The events told in the transcript, and how many of some come up to a place.
Told == Events(Entries)
Upto(S, k) == Cardinality({l \in S : l <= k})

\* Completed children that have no entry, or not yet.
Owed == wave.givenUp + (IF wave.completing THEN 1 ELSE 0)

TranscriptInv ==
  /\ Cardinality(Told) = Len(transcript) + Owed
  /\ \A k \in Told :
       log[k].kind =
         IF Upto(Told, k) <= Len(transcript) THEN transcript[Upto(Told, k)] ELSE "completed"

\* Nothing is owed outside a wave but by an aborted run, nor while the run goes on.
LEMMA OwedFacts ==
  ASSUME TypeOK, GivenUpInv
  PROVE  /\ Owed \in Nat
         /\ phase \notin {"wave", "check", "over"} => Owed = 0
         /\ ~aborted /\ ~wave.completing => Owed = 0
         /\ ~aborted /\ wave.completing => Owed = 1
<1>1. wave.givenUp \in Nat /\ wave.completing \in BOOLEAN
  BY DEF TypeOK
<1> QED
  BY <1>1 DEF GivenUpInv, Owed

\* The ways in which a step deals with the transcript: not at all; a turn is told in
\* both; the event of a completed child is told; its entry follows.
TellNothing == UNCHANGED <<log, transcript>> /\ Owed' = Owed

TellEvent ==
  \E kind \in Kinds \ Entries, cost \in Nat :
    Record(kind, cost) /\ transcript' = transcript /\ Owed' = Owed

TellTurn ==
  /\ Owed = 0 /\ Owed' = 0
  /\ \E kind \in Turns, cost \in Nat :
       Record(kind, cost) /\ transcript' = Append(transcript, kind)

TellChild ==
  /\ Owed' = Owed + 1 /\ transcript' = transcript
  /\ \E cost \in Nat : Record("completed", cost)

TellResult ==
  /\ Owed = 1 /\ Owed' = 0 /\ log' = log
  /\ transcript' = Append(transcript, "completed")

LEMMA TranscriptSteps ==
  ASSUME TypeOK, AnswersInv, GivenUpInv, [Next]_vars
  PROVE  TellNothing \/ TellEvent \/ TellTurn \/ TellChild \/ TellResult
<1>1. \A cost \in Cost : cost \in Nat
  BY CostsAreNumbers
<1>2. \A kind \in {"failed", "failed plain", "skipped", "final", "budget-stop"} :
        kind \in Kinds \ Entries
  BY DEF Kinds, Entries, Turns, Children
<1>3. wave' = wave => Owed' = Owed
  BY DEF Owed
<1>4. CASE Check
  <2>1. transcript' = transcript /\ wave' = wave /\ totalCost' = totalCost
        /\ (log' = log \/ log' = Append(log, Event("budget-stop", 0, totalCost)))
    BY <1>4 DEF Check, loop
  <2>2. CASE log' = log
    BY <1>3, <2>1, <2>2 DEF TellNothing
  <2>3. CASE log' = Append(log, Event("budget-stop", 0, totalCost))
    <3>1. totalCost + 0 = totalCost
      BY DEF TypeOK
    <3>2. Record("budget-stop", 0)
      BY <2>1, <2>3, <3>1 DEF Record
    <3> QED
      BY <1>2, <1>3, <2>1, <3>2 DEF TellEvent
  <2> QED
    BY <2>1, <2>2, <2>3
<1>5. CASE PlanAnswers \/ SynthesisAnswers \/ SynthesisDelegates \/ RecordWorker
  <2>1. wave' = wave /\ phase \in {"plan", "synthesis", "record"}
    BY <1>5 DEF PlanAnswers, SynthesisAnswers, SynthesisDelegates, RecordWorker, loop
  <2>2. Owed = 0 /\ Owed' = 0
    BY <1>3, <2>1, OwedFacts
  <2>3. \E kind \in Turns, cost \in Nat :
          Record(kind, cost) /\ transcript' = Append(transcript, kind)
    <3>1. CASE RecordWorker
      <4>1. PICK cost \in Nat : Record("worker", cost)
        BY <3>1, WorkerCost
      <4>2. transcript' = Append(transcript, "worker") /\ "worker" \in Turns
        BY <3>1 DEF RecordWorker, Turns
      <4> QED
        BY <4>1, <4>2
    <3>2. CASE PlanAnswers \/ SynthesisAnswers \/ SynthesisDelegates
      <4>1. PICK kind \in {"plan", "synthesis"}, cost \in Cost :
              Record(kind, cost) /\ transcript' = Append(transcript, kind)
        BY <3>2 DEF PlanAnswers, SynthesisAnswers, SynthesisDelegates
      <4>2. kind \in Turns /\ cost \in Nat
        BY <1>1 DEF Turns
      <4> QED
        BY <4>1, <4>2
    <3> QED
      BY <1>5, <3>1, <3>2
  <2> QED
    BY <2>2, <2>3 DEF TellTurn
<1>6. CASE ChildCompletes
  <2>1. PICK cost \in Cost : Record("completed", cost)
    BY <1>6 DEF ChildCompletes
  <2>2. /\ transcript' = transcript /\ ~wave.completing
        /\ wave' = [wave EXCEPT !.open = @ - 1, !.completing = TRUE]
    BY <1>6 DEF ChildCompletes, Settling
  <2>3. wave'.givenUp = wave.givenUp /\ wave'.completing /\ wave.givenUp \in Nat
    BY <2>2 DEF TypeOK
  <2>4. Owed' = Owed + 1
    BY <2>2, <2>3 DEF Owed
  <2> QED
    BY <1>1, <2>1, <2>2, <2>4 DEF TellChild
<1>7. CASE ChildFails \/ ChildSkipped
  <2>1. PICK kind \in {"failed", "failed plain", "skipped"}, cost \in Nat :
          Record(kind, cost)
    <3>1. CASE ChildFails
      BY <1>1, <3>1 DEF ChildFails
    <3>2. CASE ChildSkipped
      BY <3>2 DEF ChildSkipped
    <3> QED
      BY <1>7, <3>1, <3>2
  <2>2. /\ transcript' = transcript
        /\ \/ wave' = [wave EXCEPT !.open = @ - 1]
           \/ \E error \in ChildError :
                wave' = [wave EXCEPT !.open = @ - 1, !.failures = @ \cup {error}]
    BY <1>7 DEF ChildFails, ChildSkipped
  <2>3. wave'.givenUp = wave.givenUp /\ wave'.completing = wave.completing
    BY <2>2 DEF TypeOK
  <2> QED
    BY <1>2, <2>1, <2>2, <2>3 DEF TellEvent, Owed
<1>8. CASE ChildRefused
  <2>1. /\ UNCHANGED <<log, transcript>>
        /\ wave' = [wave EXCEPT !.open = @ - 1, !.refused = TRUE]
    BY <1>8 DEF ChildRefused, ledger
  <2>2. wave'.givenUp = wave.givenUp /\ wave'.completing = wave.completing
    BY <2>1 DEF TypeOK
  <2> QED
    BY <2>1, <2>2 DEF TellNothing, Owed
<1>9. CASE KeepResult
  <2>1. /\ log' = log /\ transcript' = Append(transcript, "completed") /\ ~aborted
        /\ wave.completing /\ wave' = [wave EXCEPT !.completing = FALSE]
    BY <1>9 DEF KeepResult, Delivering, ledger
  <2>2. wave'.givenUp = wave.givenUp /\ ~wave'.completing /\ wave.givenUp \in Nat
    BY <2>1 DEF TypeOK
  <2>3. Owed = 1 /\ wave.givenUp = 0
    BY <2>1, <2>2, OwedFacts DEF GivenUpInv
  <2>4. Owed' = 0
    BY <2>2, <2>3 DEF Owed
  <2> QED
    BY <2>1, <2>3, <2>4 DEF TellResult
<1>10. CASE GiveUp
  <2>1. /\ UNCHANGED <<log, transcript>> /\ wave.completing
        /\ wave' = [wave EXCEPT !.completing = FALSE, !.givenUp = @ + 1]
    BY <1>10 DEF GiveUp, Delivering, ledger
  <2>2. wave'.givenUp = wave.givenUp + 1 /\ ~wave'.completing /\ wave.givenUp \in Nat
    BY <2>1 DEF TypeOK
  <2>3. Owed' = Owed
    BY <2>1, <2>2 DEF Owed
  <2> QED
    BY <2>1, <2>3 DEF TellNothing
<1>11. CASE Delegate
  <2>1. /\ UNCHANGED <<log, transcript>> /\ phase = "decide"
        /\ wave' = [NoWave EXCEPT !.width = decision, !.open = decision]
    BY <1>11 DEF Delegate, ledger
  <2>2. Owed = 0
    BY <2>1, OwedFacts
  <2>3. wave'.givenUp = 0 /\ ~wave'.completing
    BY <2>1 DEF NoWave
  <2> QED
    BY <2>1, <2>2, <2>3 DEF TellNothing, Owed
<1>12. CASE Final
  <2>1. Record("final", 0) /\ transcript' = transcript /\ wave' = wave
    BY <1>12 DEF Final, loop
  <2> QED
    BY <1>2, <1>3, <2>1 DEF TellEvent
<1>13. CASE Participate \/ LoopGuard \/ WaveRethrows \/ WaveTriggers \/ Replan \/ Call
            \/ WorkersDone \/ WorkersRecorded \/ TurnFails \/ Resolve \/ AbortObserved
            \/ Abort \/ Finished \/ UNCHANGED vars \/ \E w \in Worker : WorkerAnswers(w)
  <2>1. UNCHANGED <<log, transcript, wave>>
    BY <1>13 DEF Participate, LoopGuard, WaveRethrows, WaveTriggers, Replan, Call, WorkersDone,
                 WorkersRecorded, TurnFails, Resolve, AbortObserved, Abort, Finished,
                 WorkerAnswers, vars, ledger, loop
  <2> QED
    BY <1>3, <2>1 DEF TellNothing
<1> QED
  BY <1>4, <1>5, <1>6, <1>7, <1>8, <1>9, <1>10, <1>11, <1>12, <1>13 DEF Next, Progress, WaveStep

\* A greater number does not change the places in a set, and comes last.
LEMMA UptoSteps ==
  ASSUME NEW n \in Nat, NEW S \in SUBSET (1..n)
  PROVE  /\ IsFiniteSet(S) /\ Cardinality(S) \in Nat
         /\ \A k \in S : /\ Upto(S, k) \in 1..Cardinality(S)
                         /\ Upto(S \cup {n + 1}, k) = Upto(S, k)
         /\ Cardinality(S \cup {n + 1}) = Cardinality(S) + 1
         /\ Upto(S \cup {n + 1}, n + 1) = Cardinality(S) + 1
<1>1. IsFiniteSet(S) /\ Cardinality(S) \in Nat
  <2>1. IsFiniteSet(1..n)
    BY FS_Interval
  <2>2. IsFiniteSet(S)
    BY <2>1, FS_Subset
  <2> QED
    BY <2>2, FS_CardinalityType
<1>2. n + 1 \notin S
  OBVIOUS
<1>3. Cardinality(S \cup {n + 1}) = Cardinality(S) + 1
  BY <1>1, <1>2, FS_AddElement
<1>4. ASSUME NEW k \in S
      PROVE  /\ Upto(S, k) \in 1..Cardinality(S)
             /\ Upto(S \cup {n + 1}, k) = Upto(S, k)
  <2> DEFINE upto == {l \in S : l <= k}
  <2>1. {l \in S \cup {n + 1} : l <= k} = upto
    OBVIOUS
  <2>2. upto \subseteq S /\ k \in upto
    OBVIOUS
  <2>3. IsFiniteSet(upto) /\ Cardinality(upto) <= Cardinality(S)
    BY <1>1, <2>2, FS_Subset
  <2>4. Cardinality(upto) \in Nat /\ Cardinality(upto) # 0
    BY <2>2, <2>3, FS_EmptySet, FS_CardinalityType
  <2>5. Upto(S, k) = Cardinality(upto) /\ Upto(S \cup {n + 1}, k) = Cardinality(upto)
    BY <2>1 DEF Upto
  <2> HIDE DEF upto
  <2> QED
    BY <1>1, <2>3, <2>4, <2>5
<1>5. Upto(S \cup {n + 1}, n + 1) = Cardinality(S) + 1
  <2>1. \A l \in S \cup {n + 1} : l <= n + 1
    OBVIOUS
  <2>2. {l \in S \cup {n + 1} : l <= n + 1} = S \cup {n + 1}
    BY <2>1
  <2> QED
    BY <1>3, <2>2 DEF Upto
<1> QED
  BY <1>1, <1>3, <1>4, <1>5

\* What the log and its told events become when an event is recorded.
LEMMA ToldSteps ==
  ASSUME TypeOK, NEW kind \in Kinds, NEW cost \in Nat, Record(kind, cost)
  PROVE  /\ Told \in SUBSET (1..Len(log)) /\ Len(log) \in Nat
         /\ Told' = IF kind \in Entries THEN Told \cup {Len(log) + 1} ELSE Told
         /\ \A k \in Told : log'[k] = log[k]
         /\ log'[Len(log) + 1].kind = kind
<1>1. log \in Seq(EventRecord)
  BY DEF TypeOK, EventRecord
<1>2. Told \in SUBSET (1..Len(log)) /\ Len(log) \in Nat
  BY <1>1, EventsAreFinite DEF Told
<1>3. Told' = IF kind \in Entries THEN Told \cup {Len(log) + 1} ELSE Told
  BY RecordedEvents DEF Told
<1>4. PICK e \in EventRecord : e.kind = kind /\ log' = Append(log, e)
  BY RecordType
<1>5. (\A k \in Told : log'[k] = log[k]) /\ log'[Len(log) + 1].kind = kind
  BY <1>1, <1>2, <1>4, AppendedLog
<1> QED
  BY <1>2, <1>3, <1>5

\* Every step keeps the transcript and the events in step.
LEMMA TranscriptStep ==
  ASSUME TypeOK, AnswersInv, GivenUpInv, TranscriptInv, [Next]_vars
  PROVE  TranscriptInv'
<1>1. /\ transcript \in Seq(Entries) /\ Len(transcript) \in Nat /\ Owed \in Nat
      /\ \A entry \in Entries :
           /\ Len(Append(transcript, entry)) = Len(transcript) + 1
           /\ Append(transcript, entry)[Len(transcript) + 1] = entry
           /\ \A i \in 1..Len(transcript) : Append(transcript, entry)[i] = transcript[i]
  BY OwedFacts DEF TypeOK, Entries
<1>2. /\ Told \in SUBSET (1..Len(log)) /\ Len(log) \in Nat
      /\ \A k \in Told : Upto(Told, k) \in 1..Cardinality(Told)
  <2>1. Told \in SUBSET (1..Len(log)) /\ Len(log) \in Nat
    BY EventsAreFinite DEF Told, TypeOK, EventRecord
  <2> QED
    BY <2>1, UptoSteps
<1>3. CASE TellNothing
  BY <1>3 DEF TellNothing, TranscriptInv, Told, Events
<1>4. CASE TellEvent
  <2>1. PICK kind \in Kinds \ Entries, cost \in Nat :
          Record(kind, cost) /\ transcript' = transcript /\ Owed' = Owed
    BY <1>4 DEF TellEvent
  <2>2. Told' = Told /\ \A k \in Told : log'[k] = log[k]
    BY <2>1, ToldSteps
  <2> QED
    BY <2>1, <2>2 DEF TranscriptInv
<1>5. CASE TellResult
  <2>1. Told' = Told /\ log' = log /\ Owed = 1 /\ Owed' = 0
        /\ transcript' = Append(transcript, "completed")
    BY <1>5 DEF TellResult, Told, Events
  <2>2. "completed" \in Entries
    BY DEF Entries
  <2>3. Cardinality(Told') = Len(transcript') + Owed'
    BY <1>1, <2>1, <2>2 DEF TranscriptInv
  <2>4. ASSUME NEW k \in Told
        PROVE  log'[k].kind =
                 IF Upto(Told', k) <= Len(transcript') THEN transcript'[Upto(Told', k)]
                 ELSE "completed"
    <3>1. Upto(Told, k) \in 1..Cardinality(Told) /\ Cardinality(Told) = Len(transcript) + 1
      BY <1>2, <2>1 DEF TranscriptInv
    <3>2. CASE Upto(Told, k) \in 1..Len(transcript)
      BY <1>1, <2>1, <2>2, <3>2 DEF TranscriptInv
    <3>3. CASE Upto(Told, k) = Len(transcript) + 1
      BY <1>1, <2>1, <2>2, <3>3 DEF TranscriptInv
    <3> QED
      BY <1>1, <3>1, <3>2, <3>3
  <2> QED
    BY <2>1, <2>3, <2>4 DEF TranscriptInv
<1>6. ASSUME NEW kind \in Entries, NEW cost \in Nat, Record(kind, cost),
             \/ /\ kind = "completed" /\ transcript' = transcript /\ Owed' = Owed + 1
             \/ transcript' = Append(transcript, kind) /\ Owed = 0 /\ Owed' = 0
      PROVE  TranscriptInv'
  <2> DEFINE n == Len(log) + 1
  <2>1. /\ Told' = Told \cup {n} /\ log'[n].kind = kind
        /\ \A k \in Told : log'[k] = log[k]
    BY <1>6, ToldSteps DEF Entries, Kinds, Children
  <2>2. /\ Cardinality(Told \cup {n}) = Cardinality(Told) + 1
        /\ Upto(Told \cup {n}, n) = Cardinality(Told) + 1
        /\ \A k \in Told : Upto(Told \cup {n}, k) = Upto(Told, k)
    BY <1>2, UptoSteps
  <2> HIDE DEF n
  <2>3. /\ Len(transcript') \in {Len(transcript), Len(transcript) + 1}
        /\ \A i \in 1..Len(transcript) : transcript'[i] = transcript[i]
        /\ Cardinality(Told') = Len(transcript') + Owed'
    BY <1>1, <1>6, <2>1, <2>2 DEF TranscriptInv
  <2>4. ASSUME NEW k \in Told
        PROVE  log'[k].kind =
                 IF Upto(Told', k) <= Len(transcript') THEN transcript'[Upto(Told', k)]
                 ELSE "completed"
    <3>1. /\ Upto(Told', k) = Upto(Told, k) /\ log'[k] = log[k]
          /\ Upto(Told, k) \in 1..(Len(transcript) + Owed)
      BY <1>2, <2>1, <2>2 DEF TranscriptInv
    <3>2. CASE Upto(Told, k) \in 1..Len(transcript)
      BY <1>1, <2>3, <3>1, <3>2 DEF TranscriptInv
    <3>3. CASE Upto(Told, k) \notin 1..Len(transcript)
      <4>1. Owed # 0 /\ Upto(Told, k) > Len(transcript)
        BY <1>1, <3>1, <3>3
      <4> QED
        BY <1>6, <3>1, <4>1 DEF TranscriptInv
    <3> QED
      BY <3>2, <3>3
  <2>5. log'[n].kind = IF Upto(Told', n) <= Len(transcript') THEN transcript'[Upto(Told', n)]
                       ELSE "completed"
    <3>1. Upto(Told', n) = Len(transcript) + Owed + 1
      BY <2>1, <2>2 DEF TranscriptInv
    <3> QED
      BY <1>1, <1>6, <2>1, <3>1
  <2> QED
    BY <2>1, <2>3, <2>4, <2>5 DEF TranscriptInv
<1>7. CASE TellTurn
  BY <1>6, <1>7 DEF TellTurn, Entries
<1>8. CASE TellChild
  BY <1>6, <1>8 DEF TellChild, Entries
<1> QED
  BY <1>3, <1>4, <1>5, <1>7, <1>8, TranscriptSteps

\* The transcript that the next prompts are built from tells the turns and the
\* completed children of the event log, in its order, and nothing else; it lacks
\* only the last children of a run that was aborted by then.
THEOREM TranscriptTrue == Spec => []TranscriptMatchesEvents
<1>1. Init => TranscriptInv
  <2> SUFFICES ASSUME Init  PROVE TranscriptInv
    OBVIOUS
  <2>1. log = <<>> /\ transcript = <<>>
    BY DEF Init
  <2>2. Told = {}
    BY <2>1 DEF Told, Events
  <2>3. Owed = 0
    BY DEF Init, NoWave, Owed
  <2> QED
    BY <2>1, <2>2, <2>3, FS_EmptySet DEF TranscriptInv
<1>2. IInv /\ TranscriptInv /\ [Next]_vars => TranscriptInv'
  BY TranscriptStep DEF IInv
<1>3. IInv /\ TranscriptInv => TranscriptMatchesEvents
  <2> SUFFICES ASSUME IInv, TranscriptInv  PROVE TranscriptMatchesEvents
    OBVIOUS
  <2>1. wave.givenUp > 0 => aborted
    BY DEF IInv, GivenUpInv
  <2>2. /\ wave.givenUp \in Nat /\ Len(transcript) \in Nat
        /\ Cardinality(Told) = Len(transcript) + wave.givenUp + (IF wave.completing THEN 1 ELSE 0)
    BY DEF IInv, TypeOK, TranscriptInv, Owed
  <2> QED
    BY <2>1, <2>2 DEF TranscriptInv, TranscriptMatchesEvents, Told, Upto, Events, Entries
<1> QED
  BY <1>1, <1>2, <1>3, Invariance, PTL DEF Spec

-----------------------------------------------------------------------------
(* The trace                                                               *)

\* An event as the observers and replay() read it.
TraceRecord ==
  [type : {"agent-turn", "sub-run-completed", "sub-run-failed", "budget-stop", "final"},
   own : Nat, total : Nat, accounting : Nat, replayed : Nat, partial : Nat, synthetic : BOOLEAN]

LEMMA TypeOfKinds ==
  /\ \A kind \in Turns : TypeOf(kind) = "agent-turn"
  /\ TypeOf("completed") = "sub-run-completed"
  /\ TypeOf("failed") = "sub-run-failed" /\ TypeOf("failed plain") = "sub-run-failed"
  /\ TypeOf("skipped") = "sub-run-failed"
  /\ TypeOf("budget-stop") = "budget-stop" /\ TypeOf("final") = "final"
BY DEF TypeOf, Turns

LEMMA TraceFacts ==
  ASSUME TypeOK
  PROVE  /\ Len(log) \in Nat /\ DOMAIN log = 1..Len(log)
         /\ Len(TraceEvents) = Len(log) /\ DOMAIN TraceEvents = 1..Len(log)
         /\ \A k \in 1..Len(log) :
              /\ log[k] \in EventRecord
              /\ TraceEvents[k] = TraceEvent(log[k]) /\ TraceEvents[k] \in TraceRecord
<1>1. log \in Seq(EventRecord)
  BY DEF TypeOK, EventRecord
<1>2. /\ Len(log) \in Nat /\ DOMAIN log = 1..Len(log)
      /\ \A k \in 1..Len(log) : log[k] \in EventRecord
  BY <1>1
<1>3. DOMAIN TraceEvents = 1..Len(log) /\ \A k \in 1..Len(log) : TraceEvents[k] = TraceEvent(log[k])
  BY <1>2 DEF TraceEvents
<1>4. ASSUME NEW e \in EventRecord
      PROVE  TraceEvent(e) \in TraceRecord
  <2>1. e.kind \in Kinds /\ e.own \in Nat /\ e.total \in Nat
    BY DEF EventRecord
  <2>2. TypeOf(e.kind) \in {"agent-turn", "sub-run-completed", "sub-run-failed", "budget-stop",
                            "final"}
    BY <2>1, TypeOfKinds DEF Kinds, Children
  <2> QED
    BY <2>1, <2>2 DEF TraceEvent, TraceRecord
<1>5. Len(TraceEvents) = Len(log)
  <2>1. TraceEvents = [k \in 1..Len(log) |-> TraceEvent(log[k])]
    BY <1>2 DEF TraceEvents
  <2> QED
    BY <1>2, <2>1
<1> QED
  BY <1>2, <1>3, <1>4, <1>5

Child(k) == TraceEvents[k].type \in {"sub-run-completed", "sub-run-failed"}

\* What each event adds to the children's costs, and their sums along the log.
OwnOfChild == [k \in 1..Len(log) |-> IF Child(k) THEN log[k].own ELSE 0]

Nested == Obs!NestedUpTo(TraceEvents)

LEMMA NestedSums ==
  ASSUME TypeOK
  PROVE  Sums(Nested, Len(log), OwnOfChild)
<1> DEFINE IsNested(f) == f = [k \in 0..Len(TraceEvents) |->
                                 IF k = 0 THEN 0
                                 ELSE f[k - 1] + (IF TraceEvents[k].type \in Obs!ChildEnds
                                                  THEN TraceEvents[k].own ELSE 0)]
<1>1. Len(log) \in Nat /\ OwnOfChild \in [1..Len(log) -> Nat] /\ Len(TraceEvents) = Len(log)
  BY TraceFacts DEF OwnOfChild, EventRecord
<1>2. \A k \in 1..Len(log) :
        OwnOfChild[k] = IF TraceEvents[k].type \in Obs!ChildEnds THEN TraceEvents[k].own ELSE 0
  BY TraceFacts DEF OwnOfChild, Child, Obs!ChildEnds, TraceEvent
<1>3. PICK f : Sums(f, Len(log), OwnOfChild)
  BY <1>1, SumExists
<1>4. IsNested(f)
  <2>1. \A k \in 1..Len(log) :
          f[k] = f[k - 1] + (IF TraceEvents[k].type \in Obs!ChildEnds
                             THEN TraceEvents[k].own ELSE 0)
    BY <1>2, <1>3 DEF Sums
  <2> QED
    BY <1>1, <1>3, <2>1 DEF Sums
<1>5. Nested = CHOOSE g : IsNested(g)
  BY DEF Nested, Obs!NestedUpTo
<1>6. IsNested(Nested)
  <2> HIDE DEF IsNested
  <2> QED
    BY <1>4, <1>5
<1>7. DOMAIN Nested = 0..Len(log) /\ Nested[0] = 0
      /\ \A k \in 1..Len(log) : Nested[k] = Nested[k - 1] + OwnOfChild[k]
  BY <1>1, <1>2, <1>6
<1>8. \A k \in 0..Len(log) : Nested[k] = f[k]
  <2> DEFINE Same == {k \in Nat : k <= Len(log) => Nested[k] = f[k]}
  <2>1. 0 \in Same
    BY <1>3, <1>7 DEF Sums
  <2>2. ASSUME NEW k \in Same
        PROVE  k + 1 \in Same
    <3> SUFFICES ASSUME k + 1 <= Len(log)
                 PROVE  Nested[k + 1] = f[k + 1]
      OBVIOUS
    <3>1. k + 1 \in 1..Len(log) /\ k + 1 - 1 = k /\ Nested[k] = f[k]
      BY <1>1
    <3> QED
      BY <1>3, <1>7, <3>1 DEF Sums
  <2>3. Same = Nat
    <3> HIDE DEF Same
    <3>1. Same \in SUBSET Nat
      BY DEF Same
    <3> QED
      BY <2>1, <2>2, <3>1, NaturalInduction
  <2> QED
    BY <1>1, <2>3
<1>9. Nested = f
  BY <1>3, <1>6, <1>7, <1>8, <1>1 DEF Sums
<1> QED
  BY <1>3, <1>9

\* The total and the number of turns after some events.
TotalAt(k) == IF k = 0 THEN 0 ELSE log[k].total

TurnsTo(k) == {j \in 1..k : TraceEvents[j].type = "agent-turn"}

LEMMA TurnsCounted ==
  ASSUME NEW k \in Nat \ {0}
  PROVE  /\ Cardinality(TurnsTo(k - 1)) \in Nat /\ Cardinality(TurnsTo(0)) = 0
         /\ Cardinality(TurnsTo(k)) =
              Cardinality(TurnsTo(k - 1)) + (IF TraceEvents[k].type = "agent-turn" THEN 1 ELSE 0)
<1>1. IsFiniteSet(TurnsTo(k - 1))
  <2>1. IsFiniteSet(1..(k - 1)) /\ TurnsTo(k - 1) \subseteq 1..(k - 1)
    BY FS_Interval DEF TurnsTo
  <2> QED
    BY <2>1, FS_Subset
<1>2. TurnsTo(k) = IF TraceEvents[k].type = "agent-turn" THEN TurnsTo(k - 1) \cup {k}
                   ELSE TurnsTo(k - 1)
  <2>1. 1..k = 1..(k - 1) \cup {k}
    OBVIOUS
  <2> QED
    BY <2>1 DEF TurnsTo
<1>3. k \notin TurnsTo(k - 1)
  BY DEF TurnsTo
<1>4. Cardinality(TurnsTo(k - 1) \cup {k}) = Cardinality(TurnsTo(k - 1)) + 1
  BY <1>1, <1>3, FS_AddElement
<1>5. Cardinality(TurnsTo(k - 1)) \in Nat
  BY <1>1, FS_CardinalityType
<1>6. Cardinality(TurnsTo(0)) = 0
  <2>1. TurnsTo(0) = {}
    BY DEF TurnsTo
  <2> QED
    BY <2>1, FS_EmptySet
<1> QED
  BY <1>2, <1>4, <1>5, <1>6

\* What the metrics hook should have counted after some events.
Counted(k) ==
  [total |-> TotalAt(k), nested |-> Nested[k], turns |-> Cardinality(TurnsTo(k))]

\* Each event takes the hook from one count to the next.
LEMMA CountedStep ==
  ASSUME TypeOK, RunningTotals, NEW k \in 1..Len(log)
  PROVE  Counted(k) = Obs!MetricsStep(Counted(k - 1), TraceEvents[k])
<1> DEFINE e == TraceEvents[k]
           m == Counted(k - 1)
<1>1. /\ k \in DOMAIN log /\ Len(log) \in Nat /\ e = TraceEvent(log[k]) /\ e \in TraceRecord
      /\ log[k] \in EventRecord
  BY TraceFacts
<1>2. e.own = log[k].own /\ e.total = log[k].total /\ TotalAt(k) = e.total
  BY <1>1 DEF TraceEvent, TotalAt
<1>3. TotalAt(k) = TotalAt(k - 1) + e.own
  BY <1>1, <1>2 DEF RunningTotals, TotalAt
<1>4. /\ Nested[k] = Nested[k - 1] + OwnOfChild[k]
      /\ OwnOfChild[k] = IF e.type \in {"sub-run-completed", "sub-run-failed"} THEN e.own ELSE 0
      /\ Nested[k - 1] \in Nat
  BY <1>1, <1>2, NestedSums DEF Sums, OwnOfChild, Child
<1>5. /\ Cardinality(TurnsTo(k)) =
           Cardinality(TurnsTo(k - 1)) + (IF e.type = "agent-turn" THEN 1 ELSE 0)
      /\ Cardinality(TurnsTo(k - 1)) \in Nat
  BY <1>1, TurnsCounted
<1>6. m = [total |-> TotalAt(k - 1), nested |-> Nested[k - 1],
           turns |-> Cardinality(TurnsTo(k - 1))]
  BY DEF Counted
<1>7. /\ e.type \in {"agent-turn", "sub-run-completed", "sub-run-failed", "budget-stop", "final"}
      /\ e.own \in Nat
  BY <1>1 DEF TraceRecord
<1> HIDE DEF e, m
<1>8. CASE e.type = "agent-turn"
  <2>1. Obs!MetricsStep(m, e) = [m EXCEPT !.total = e.total, !.turns = @ + 1]
    BY <1>8 DEF Obs!MetricsStep, Obs!ChildEnds
  <2>2. Nested[k] = Nested[k - 1]
    BY <1>4, <1>8
  <2> QED
    BY <1>2, <1>5, <1>6, <1>8, <2>1, <2>2 DEF Counted, e, m
<1>9. CASE e.type \in {"budget-stop", "final"}
  <2>1. Obs!MetricsStep(m, e) = [m EXCEPT !.total = e.total]
    BY <1>9 DEF Obs!MetricsStep, Obs!ChildEnds
  <2>2. Nested[k] = Nested[k - 1] /\ Cardinality(TurnsTo(k)) = Cardinality(TurnsTo(k - 1))
    BY <1>4, <1>5, <1>9
  <2> QED
    BY <1>2, <1>6, <2>1, <2>2 DEF Counted, e, m
<1>10. CASE e.type \in {"sub-run-completed", "sub-run-failed"}
  <2>1. Obs!MetricsStep(m, e) = [m EXCEPT !.total = @ + e.own, !.nested = @ + e.own]
    BY <1>10 DEF Obs!MetricsStep, Obs!ChildEnds
  <2>2. Nested[k] = Nested[k - 1] + e.own /\ Cardinality(TurnsTo(k)) = Cardinality(TurnsTo(k - 1))
    BY <1>4, <1>5, <1>10
  <2> QED
    BY <1>3, <1>6, <2>1, <2>2 DEF Counted, e, m
<1> QED
  BY <1>7, <1>8, <1>9, <1>10 DEF e, m

\* The metrics hook has counted what the coordinator has.
LEMMA MetricsCounted ==
  ASSUME TypeOK, RunningTotals
  PROVE  Obs!MetricsAfter(TraceEvents) = Counted(Len(log))
<1> DEFINE metrics == Obs!MetricsUpTo(TraceEvents)
           IsMetrics(f) == f = [k \in 0..Len(TraceEvents) |->
                                  IF k = 0 THEN Obs!NoMetrics
                                  ELSE Obs!MetricsStep(f[k - 1], TraceEvents[k])]
           f == [k \in 0..Len(log) |-> Counted(k)]
<1>1. Len(TraceEvents) = Len(log) /\ Len(log) \in Nat
  BY TraceFacts
<1>2. Counted(0) = Obs!NoMetrics
  <2>1. Nested[0] = 0 /\ Cardinality(TurnsTo(0)) = 0 /\ TotalAt(0) = 0
    BY NestedSums, TurnsCounted DEF Sums, TotalAt
  <2> QED
    BY <2>1 DEF Counted, Obs!NoMetrics
<1>3. \A k \in 1..Len(log) : Counted(k) = Obs!MetricsStep(Counted(k - 1), TraceEvents[k])
  BY CountedStep
<1>4. IsMetrics(f)
  <2> HIDE DEF f
  <2>1. /\ DOMAIN f = 0..Len(log) /\ f = [k \in 0..Len(log) |-> f[k]]
        /\ \A k \in 0..Len(log) : f[k] = Counted(k)
    BY DEF f
  <2>2. ASSUME NEW k \in 0..Len(log)
        PROVE  f[k] = IF k = 0 THEN Obs!NoMetrics
                      ELSE Obs!MetricsStep(f[k - 1], TraceEvents[k])
    <3>1. CASE k = 0
      BY <1>2, <2>1, <3>1
    <3>2. CASE k \in 1..Len(log)
      <4>1. k # 0 /\ k - 1 \in 0..Len(log)
        BY <1>1, <3>2
      <4> QED
        BY <1>3, <2>1, <3>2, <4>1
    <3> QED
      BY <1>1, <3>1, <3>2
  <2> QED
    BY <1>1, <2>1, <2>2
<1>5. metrics = CHOOSE g : IsMetrics(g)
  BY DEF Obs!MetricsUpTo
<1>6. IsMetrics(metrics)
  <2> HIDE DEF IsMetrics, f, metrics
  <2> QED
    BY <1>4, <1>5
<1> HIDE DEF metrics
<1>7. /\ metrics[0] = Obs!NoMetrics
      /\ \A k \in 1..Len(log) : metrics[k] = Obs!MetricsStep(metrics[k - 1], TraceEvents[k])
  BY <1>1, <1>6
<1> DEFINE Right == {k \in Nat : k <= Len(log) => metrics[k] = Counted(k)}
<1>8. 0 \in Right
  BY <1>2, <1>7
<1>9. ASSUME NEW k \in Right
      PROVE  k + 1 \in Right
  <2> SUFFICES ASSUME k + 1 <= Len(log)
               PROVE  metrics[k + 1] = Counted(k + 1)
    OBVIOUS
  <2>1. k + 1 \in 1..Len(log) /\ k + 1 - 1 = k /\ metrics[k] = Counted(k)
    BY <1>1
  <2> QED
    BY <1>3, <1>7, <2>1
<1>10. Right = Nat
  <2> HIDE DEF Right
  <2>1. Right \in SUBSET Nat
    BY DEF Right
  <2> QED
    BY <1>8, <1>9, <2>1, NaturalInduction
<1>11. metrics[Len(log)] = Counted(Len(log))
  BY <1>1, <1>10
<1> QED
  BY <1>1, <1>11 DEF Obs!MetricsAfter, metrics

\* replay() adds up the children as the metrics do.
LEMMA ChildrenNested ==
  ASSUME TypeOK
  PROVE  /\ ChildrenOwn = Nested[Len(log)] /\ Nested[Len(log)] \in Nat
         /\ Obs!NestedUpTo(TraceEvents)[Len(TraceEvents)] = Nested[Len(log)]
<1>1. Len(TraceEvents) = Len(log) /\ Len(log) \in Nat
  BY TraceFacts
<1>2. Rep!ChildrenUpTo(TraceEvents) = Nested
  BY DEF Rep!ChildrenUpTo, Nested, Obs!NestedUpTo, Obs!ChildEnds
<1>3. Nested[Len(log)] \in Nat
  BY <1>1, NestedSums DEF Sums
<1> QED
  BY <1>1, <1>2, <1>3 DEF ChildrenOwn, Rep!ChildrenCost, Nested

LEMMA MetricsHold ==
  ASSUME TypeOK, RunningTotals
  PROVE  MetricsAgree
<1>1. Len(TraceEvents) = Len(log) /\ Len(log) \in Nat /\ DOMAIN TraceEvents = 1..Len(log)
  BY TraceFacts
<1>2. TotalAt(Len(log)) = totalCost
  <2>1. log = <<>> <=> Len(log) = 0
    BY DEF TypeOK
  <2> QED
    BY <2>1 DEF RunningTotals, TotalAt
<1>3. Obs!MetricsAfter(TraceEvents) =
        [total |-> totalCost, nested |-> ChildrenOwn, turns |-> Cardinality(TurnsTo(Len(log)))]
  BY <1>2, MetricsCounted, ChildrenNested DEF Counted
<1>4. Obs!AbortedSnapshot(TraceEvents).own = totalCost - ChildrenOwn
  BY <1>3 DEF Obs!AbortedSnapshot
<1>5. /\ Obs!RunSnapshot(TraceEvents, totalCost).own = totalCost - ChildrenOwn
      /\ Obs!RunSnapshot(TraceEvents, totalCost).turns = Cardinality(TurnsTo(Len(log)))
  <2>1. {k \in DOMAIN TraceEvents : TraceEvents[k].type = "agent-turn"} = TurnsTo(Len(log))
    BY <1>1 DEF TurnsTo
  <2>2. Obs!RunSnapshot(TraceEvents, totalCost).own =
          totalCost - Obs!NestedUpTo(TraceEvents)[Len(TraceEvents)]
    BY DEF Obs!RunSnapshot
  <2>3. Obs!RunSnapshot(TraceEvents, totalCost).turns =
          Obs!Cardinality({k \in DOMAIN TraceEvents : TraceEvents[k].type = "agent-turn"})
    BY DEF Obs!RunSnapshot, Obs!At
  <2>4. \A S : Obs!Cardinality(S) = Cardinality(S)
    BY DEF Obs!Cardinality, Cardinality
  <2> QED
    BY <2>1, <2>2, <2>3, <2>4, ChildrenNested
<1> QED
  BY <1>3, <1>4, <1>5 DEF MetricsAgree

\* Whatever ends a run, the metrics hook has counted what the coordinator has, the
\* children's part taken apart; a finished run's snapshot agrees with the count.
THEOREM MetricsTrue == Spec => []MetricsAgree
<1>1. IInv => MetricsAgree
  BY MetricsHold DEF IInv
<1> QED
  BY <1>1, Invariance, PTL

-----------------------------------------------------------------------------
(* Replaying a run that resolved                                           *)

LastIsFinal == Len(log) > 0 /\ log[Len(log)].kind = "final"

\* A run returns behind its final event, and resolves with no failure to throw.
ResolvedInv ==
  /\ phase = "returned" => LastIsFinal
  /\ outcome = "resolved" => LastIsFinal /\ trigger \in {"none", "plain"}

LEMMA ResolvedStep ==
  ASSUME IInv, ResolvedInv, [Next]_vars
  PROVE  ResolvedInv'
<1>1. outcome = "pending" <=> phase # "over"
  BY DEF IInv, SynthesisInv
<1>2. TypeOK /\ log \in Seq(EventRecord)
  BY DEF IInv, TypeOK, EventRecord
<1>3. CASE Final
  <2>1. phase = "final" /\ outcome' = outcome /\ Record("final", 0) /\ "final" \in Kinds
    BY <1>3, RecordKinds DEF Final, ending
  <2>2. PICK e \in EventRecord : e.kind = "final" /\ log' = Append(log, e)
    BY <1>2, <2>1, RecordType
  <2>3. LastIsFinal'
    BY <1>2, <2>2, AppendedLog DEF LastIsFinal
  <2> QED
    BY <1>1, <2>1, <2>3 DEF ResolvedInv
<1>4. CASE Resolve
  <2>1. phase = "returned" /\ phase' = "over" /\ log' = log /\ trigger' = trigger
        /\ (outcome' = "resolved" => ~TerminalThrow)
    BY <1>4 DEF Resolve, ledger
  <2>2. LastIsFinal'
    BY <2>1 DEF ResolvedInv, LastIsFinal
  <2>3. ~TerminalThrow => trigger \in {"none", "plain"}
    BY DEF TerminalThrow
  <2> QED
    BY <2>1, <2>2, <2>3 DEF ResolvedInv
<1>5. CASE Abort \/ Finished \/ UNCHANGED vars
  <2>1. UNCHANGED <<phase, outcome, log, trigger>>
    BY <1>5 DEF Abort, Finished, vars, ledger, ending
  <2> QED
    BY <2>1 DEF ResolvedInv, LastIsFinal
<1>6. ASSUME phase # "over", phase' # "returned", outcome' \in {outcome, "rejected"}
      PROVE  ResolvedInv'
  BY <1>1, <1>6 DEF ResolvedInv
<1>7. CASE Check \/ Call \/ PlanAnswers \/ Participate \/ Delegate \/ LoopGuard \/ WorkersDone
           \/ RecordWorker \/ WorkersRecorded \/ SynthesisAnswers \/ SynthesisDelegates
           \/ TurnFails \/ AbortObserved \/ \E w \in Worker : WorkerAnswers(w)
  <2>1. after # "returned" /\ (Asking => phase \in {"plan", "work", "synthesis"})
    BY <1>2 DEF TypeOK, IInv, CallInv
  <2>2. phase # "over" /\ phase' # "returned" /\ outcome' \in {outcome, "rejected"}
    BY <1>7, <2>1 DEF Check, Call, PlanAnswers, Participate, Delegate, LoopGuard, WorkersDone,
       RecordWorker, WorkersRecorded, SynthesisAnswers, SynthesisDelegates, TurnFails,
       AbortObserved, Settled, WorkerAnswers, Throw, ending
  <2> QED
    BY <1>6, <2>2
<1>8. CASE WaveStep
  <2>1. phase # "over" /\ phase' # "returned" /\ outcome' \in {outcome, "rejected"}
    BY <1>8 DEF WaveStep, ChildCompletes, KeepResult, GiveUp, Delivering, ChildFails,
                ChildSkipped, ChildRefused, WaveRethrows,
       WaveTriggers, Replan, Settling, Settled, Throw, ending
  <2> QED
    BY <1>6, <2>1
<1> QED
  BY <1>3, <1>4, <1>5, <1>7, <1>8 DEF Next, Progress

\* The children cost no more than the run.
LEMMA NestedWithin ==
  ASSUME TypeOK, RunningTotals
  PROVE  ChildrenOwn <= totalCost /\ TotalAt(Len(log)) = totalCost
<1>1. Len(log) \in Nat
  BY TraceFacts
<1> DEFINE Within == {k \in Nat : k <= Len(log) => Nested[k] <= TotalAt(k)}
<1>2. 0 \in Within
  BY NestedSums DEF Sums, TotalAt
<1>3. ASSUME NEW k \in Within
      PROVE  k + 1 \in Within
  <2> SUFFICES ASSUME k + 1 <= Len(log)
               PROVE  Nested[k + 1] <= TotalAt(k + 1)
    OBVIOUS
  <2>1. /\ k + 1 \in 1..Len(log) /\ k + 1 - 1 = k /\ Nested[k] <= TotalAt(k)
        /\ k \in 0..Len(log)
    BY <1>1
  <2>2. log[k + 1].own \in Nat /\ (k # 0 => log[k].total \in Nat) /\ k + 1 \in DOMAIN log
    BY <2>1, TraceFacts DEF EventRecord
  <2>3. TotalAt(k + 1) = TotalAt(k) + log[k + 1].own
    BY <2>1, <2>2 DEF RunningTotals, TotalAt
  <2>4. /\ Nested[k + 1] = Nested[k] + OwnOfChild[k + 1] /\ Nested[k] \in Nat
        /\ OwnOfChild[k + 1] \in {0, log[k + 1].own}
    BY <2>1, NestedSums DEF Sums, OwnOfChild
  <2>5. TotalAt(k) \in Nat
    BY <2>2 DEF TotalAt
  <2> QED
    BY <2>1, <2>2, <2>3, <2>4, <2>5
<1>4. Within = Nat
  <2> HIDE DEF Within
  <2>1. Within \in SUBSET Nat
    BY DEF Within
  <2> QED
    BY <1>2, <1>3, <2>1, NaturalInduction
<1>5. Nested[Len(log)] <= TotalAt(Len(log))
  BY <1>1, <1>4
<1>6. TotalAt(Len(log)) = totalCost
  <2>1. log = <<>> <=> Len(log) = 0
    BY DEF TypeOK
  <2> QED
    BY <2>1 DEF RunningTotals, TotalAt
<1> QED
  BY <1>5, <1>6, ChildrenNested

\* What a changed trace still has.
LEMMA SavedFacts ==
  /\ SavedTrace.events = TraceEvents /\ SavedTrace.finalCost = totalCost
  /\ SavedTrace.terminated = (stopped # "no") /\ SavedTrace.triggered = (trigger # "none")
  /\ SavedTrace.synthesis = {k \in DOMAIN log : log[k].kind = "synthesis"}
  /\ [SavedTrace EXCEPT !.finalCost = @ + 1].events = TraceEvents
  /\ [SavedTrace EXCEPT !.finalCost = @ + 1].finalCost = totalCost + 1
  /\ \A k, cost : [SavedTrace EXCEPT !.events[k].own = cost].events =
                    [TraceEvents EXCEPT ![k].own = cost]
BY DEF SavedTrace

\* The trace of a run that has its final event bears the cost of the run.
LEMMA FinalCost ==
  ASSUME TypeOK, RunningTotals, LastIsFinal
  PROVE  Rep!LastCost(TraceEvents) = {totalCost}
<1> DEFINE bearing == {k \in DOMAIN TraceEvents : Rep!Bears(TraceEvents[k])}
<1>1. Len(log) \in Nat /\ DOMAIN TraceEvents = 1..Len(log) /\ Len(log) \in 1..Len(log)
  BY TraceFacts DEF LastIsFinal
<1>2. TraceEvents[Len(log)].type = "final" /\ TraceEvents[Len(log)].total = totalCost
  <2>1. TraceEvents[Len(log)] = TraceEvent(log[Len(log)])
    BY <1>1, TraceFacts
  <2>2. log[Len(log)].kind = "final" /\ Len(log) # 0
    BY <1>1 DEF LastIsFinal
  <2>3. TypeOf("final") = "final"
    BY TypeOfKinds
  <2>4. log[Len(log)].total = totalCost
    BY <2>2, NestedWithin DEF TotalAt
  <2> QED
    BY <2>1, <2>2, <2>3, <2>4 DEF TraceEvent
<1>3. Len(log) \in bearing /\ bearing \subseteq 1..Len(log)
  BY <1>1, <1>2 DEF Rep!Bears
<1>4. {k \in bearing : \A l \in bearing : l <= k} = {Len(log)}
  <2> HIDE DEF bearing
  <2>1. \A k \in bearing : k <= Len(log) /\ k \in Nat
    BY <1>1, <1>3
  <2>2. ASSUME NEW k \in bearing, \A l \in bearing : l <= k
        PROVE  k = Len(log)
    BY <1>1, <1>3, <2>1, <2>2
  <2> QED
    BY <1>3, <2>1, <2>2
<1>5. Rep!LastCost(TraceEvents) =
        {TraceEvents[k].total : k \in {k \in bearing : \A l \in bearing : l <= k}}
  BY DEF Rep!LastCost
<1> HIDE DEF bearing
<1> QED
  BY <1>2, <1>4, <1>5

\* A child failure that replay() takes for the last real one is a failure of the log.
LEMMA RealFailure ==
  ASSUME TypeOK, \A k \in DOMAIN log : log[k].kind # "failed plain",
         Rep!LastRealFailure(TraceEvents) # 0
  PROVE  Rep!LastRealFailure(TraceEvents) \in Events({"failed"})
<1> DEFINE failures == {k \in DOMAIN TraceEvents :
                          TraceEvents[k].type = "sub-run-failed" /\ ~TraceEvents[k].synthetic}
<1>1. Len(log) \in Nat /\ DOMAIN TraceEvents = 1..Len(log) /\ DOMAIN log = 1..Len(log)
  BY TraceFacts
<1>2. ASSUME NEW k \in failures
      PROVE  k \in Events({"failed"})
  <2>1. k \in 1..Len(log) /\ log[k].kind \in Kinds /\ log[k].kind # "skipped"
        /\ TypeOf(log[k].kind) = "sub-run-failed"
    <3>1. k \in 1..Len(log) /\ TraceEvents[k].type = "sub-run-failed" /\ ~TraceEvents[k].synthetic
      BY <1>1
    <3>2. TraceEvents[k] = TraceEvent(log[k]) /\ log[k].kind \in Kinds
      BY <3>1, TraceFacts DEF EventRecord
    <3>3. /\ TraceEvent(log[k]).type = TypeOf(log[k].kind)
          /\ TraceEvent(log[k]).synthetic <=> log[k].kind = "skipped"
      BY DEF TraceEvent
    <3> QED
      BY <3>1, <3>2, <3>3
  <2>2. log[k].kind \in {"failed", "failed plain", "skipped"}
    <3>1. log[k].kind \in Turns => TypeOf(log[k].kind) = "agent-turn"
      BY TypeOfKinds
    <3>2. log[k].kind \in {"budget-stop", "final"} => TypeOf(log[k].kind) = log[k].kind
      BY TypeOfKinds
    <3>3. log[k].kind = "completed" => TypeOf(log[k].kind) = "sub-run-completed"
      BY TypeOfKinds
    <3> QED
      BY <2>1, <3>1, <3>2, <3>3 DEF Kinds, Children
  <2> QED
    BY <1>1, <2>1, <2>2 DEF Events
<1>3. failures \in SUBSET (1..Len(log))
  BY <1>1
<1>4. Rep!LastRealFailure(TraceEvents) =
        IF failures = {} THEN 0 ELSE CHOOSE k \in failures : \A l \in failures : l <= k
  BY DEF Rep!LastRealFailure
<1> HIDE DEF failures
<1>5. failures # {} => \E k \in failures : \A l \in failures : l <= k
  BY <1>1, <1>3, GreatestExists
<1>6. Rep!LastRealFailure(TraceEvents) \in failures
  BY <1>4, <1>5
<1> QED
  BY <1>2, <1>6

LEMMA ReplayHolds ==
  ASSUME IInv, ResolvedInv
  PROVE  ReplayParity
<1> SUFFICES ASSUME outcome = "resolved"
             PROVE  /\ Rep!AccountingAccepted(SavedTrace)
                    /\ (\A k \in DOMAIN log : log[k].kind # "failed plain") =>
                         ~Rep!ReplayThrows(SavedTrace)
                    /\ ~Rep!AccountingAccepted([SavedTrace EXCEPT !.finalCost = @ + 1])
                    /\ \A k \in DOMAIN log : log[k].kind \in Children =>
                         \A cost \in Cost \ {log[k].own} :
                           ~Rep!AccountingAccepted([SavedTrace EXCEPT !.events[k].own = cost])
  BY DEF ReplayParity
<1>1. TypeOK /\ RunningTotals /\ LastIsFinal /\ trigger \in {"none", "plain"}
  BY DEF IInv, ResolvedInv
<1>2. Rep!LastCost(TraceEvents) = {totalCost} /\ totalCost \in Nat
  BY <1>1, FinalCost DEF TypeOK
<1>3. /\ DOMAIN TraceEvents = 1..Len(log) /\ DOMAIN log = 1..Len(log)
      /\ \A k \in 1..Len(log) : TraceEvents[k] = TraceEvent(log[k])
  BY <1>1, TraceFacts
<1>4. Rep!AccountingAccepted(SavedTrace)
  <2>1. ASSUME NEW k \in DOMAIN TraceEvents
        PROVE  Rep!RollUpAgrees(TraceEvents[k]) /\ Rep!ChildReplays(TraceEvents[k])
    <3>1. /\ TraceEvents[k].accounting = TraceEvents[k].own
          /\ TraceEvents[k].partial = TraceEvents[k].own
          /\ TraceEvents[k].replayed = TraceEvents[k].own
      BY <1>3 DEF TraceEvent
    <3> QED
      BY <3>1 DEF Rep!RollUpAgrees, Rep!ChildReplays
  <2>2. Rep!ChildrenCost(TraceEvents) <= totalCost
    BY <1>1, NestedWithin DEF ChildrenOwn
  <2> QED
    BY <1>2, <2>1, <2>2, SavedFacts DEF Rep!AccountingAccepted
<1>5. ASSUME \A k \in DOMAIN log : log[k].kind # "failed plain", Rep!ReplayThrows(SavedTrace)
      PROVE  FALSE
  <2>1. trigger = "none"
    <3>1. Events({"failed plain"}) = {}
      BY <1>5 DEF Events
    <3>2. trigger = "plain" => Events({"failed plain"}) # {}
      BY DEF IInv, TriggerInv
    <3> QED
      BY <1>1, <3>1, <3>2
  <2> DEFINE last == Rep!LastRealFailure(TraceEvents)
  <2>2. last # 0 /\ \A k \in DOMAIN log : log[k].kind = "synthesis" => k <= last
    <3>1. ~SavedTrace.triggered
      BY <2>1, SavedFacts
    <3>2. last # 0 /\ \A k \in SavedTrace.synthesis : k <= last
      BY <1>5, <3>1, SavedFacts DEF Rep!ReplayThrows
    <3> QED
      BY <3>2, SavedFacts
  <2>3. last \in Events({"failed"})
    BY <1>1, <1>5, <2>2, RealFailure
  <2> HIDE DEF last
  <2>4. last \in DOMAIN log /\ log[last].kind = "failed"
    BY <2>3 DEF Events
  <2>5. PICK l \in DOMAIN log : l > last /\ log[l].kind = "synthesis"
    BY <1>5, <2>4 DEF IInv, NoSilentFailure
  <2>6. l \in Nat /\ last \in Nat
    BY <1>3, <2>4
  <2> QED
    BY <2>2, <2>5, <2>6
<1>6. ~Rep!AccountingAccepted([SavedTrace EXCEPT !.finalCost = @ + 1])
  <2>1. ~({totalCost} \subseteq {totalCost + 1})
    BY <1>2
  <2> QED
    BY <1>2, <2>1, SavedFacts DEF Rep!AccountingAccepted
<1>7. ASSUME NEW k \in DOMAIN log, log[k].kind \in Children,
             NEW cost \in Cost \ {log[k].own}
      PROVE  ~Rep!AccountingAccepted([SavedTrace EXCEPT !.events[k].own = cost])
  <2> DEFINE changed == [TraceEvents EXCEPT ![k].own = cost]
  <2>1. /\ TraceEvents[k].accounting = log[k].own /\ TraceEvents[k].partial = log[k].own
        /\ TraceEvents[k].type = TypeOf(log[k].kind)
    BY <1>3 DEF TraceEvent
  <2>2. TypeOf(log[k].kind) \in {"sub-run-completed", "sub-run-failed"}
    BY <1>7, TypeOfKinds DEF Children
  <2>3. k \in DOMAIN changed /\ changed[k] = [TraceEvents[k] EXCEPT !.own = cost]
    BY <1>3
  <2>4. TraceEvents[k] = TraceEvent(log[k])
    BY <1>3
  <2>5. /\ changed[k].own = cost /\ changed[k].type \in {"sub-run-completed", "sub-run-failed"}
        /\ changed[k].accounting = log[k].own /\ changed[k].partial = log[k].own
    BY <2>1, <2>2, <2>3, <2>4 DEF TraceEvent
  <2> HIDE DEF changed
  <2>6. ~Rep!RollUpAgrees(changed[k])
    BY <1>7, <2>5 DEF Rep!RollUpAgrees
  <2>7. [SavedTrace EXCEPT !.events[k].own = cost].events = changed
    BY SavedFacts DEF changed
  <2> QED
    BY <2>3, <2>6, <2>7 DEF Rep!AccountingAccepted
<1> QED
  BY <1>4, <1>5, <1>6, <1>7

\* The trace of a run that resolved is accepted by replay() and throws nothing that
\* the run did not throw; a trace whose costs were changed is refused.
THEOREM ReplayAgrees == Spec => []ReplayParity
<1>1. Init => ResolvedInv
  BY DEF Init, ResolvedInv
<1>2. IInv /\ ResolvedInv /\ [Next]_vars => ResolvedInv'
  BY ResolvedStep
<1>3. IInv /\ ResolvedInv => ReplayParity
  BY ReplayHolds
<1> QED
  BY <1>1, <1>2, <1>3, Invariance, PTL DEF Spec
=============================================================================
