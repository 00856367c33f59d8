---------------------------- MODULE CoordinatorRun ----------------------------
(***************************************************************************)
(* One run of the coordinator protocol, from the first plan turn to the    *)
(* result of the run: the plan loop with its dispatch waves, the stop      *)
(* checks, the parallel worker turns, final synthesis, and the decision of *)
(* the engine whether the finished run resolves or throws a child failure. *)
(*                                                                         *)
(* A wave is seen from outside: how its tasks share slots, are drained and *)
(* settle, and what the drain of a cancelled stream reports, is            *)
(* DelegateWave.  A step is a segment of the coordinator between two       *)
(* awaits, split at the events in whose callback a subscriber's cancelling *)
(* the run makes a difference to what follows: model-request, agent-turn,  *)
(* sub-run-completed, budget-stop and final.                               *)
(***************************************************************************)
EXTENDS Naturals, Sequences, FiniteSets

CONSTANTS
  Workers,        (* worker agents besides the coordinator                 *)
  MaxDispatch,    (* MAX_DISPATCH_PER_TURN                                 *)
  MaxWidth,       (* most delegates of one plan decision                   *)
  MaxCost,        (* bound on the cost of one turn or child                *)
  CostCap,        (* maxUsd or maxTokens of a budget condition             *)
  IterationCap,   (* maxIterations of a budget condition                   *)
  Floor           (* minTurns of the protocol                              *)

ASSUME ConstantsAssumption ==
  /\ Workers \in Nat
  /\ MaxDispatch \in Nat
  /\ MaxWidth \in Nat \ {0}
  /\ MaxCost \in Nat
  /\ CostCap \in Nat
  /\ IterationCap \in Nat
  /\ Floor \in Nat

VARIABLES
  policy,       (* options.onChildFailure                                  *)
  terminate,    (* what the termination condition of the run looks at      *)
  phase,        (* where the coordinator stands                            *)
  after,        (* phase that follows a stop check that does not stop      *)
  decision,     (* delegates the last plan turn asked for, 0: participate  *)
  log,          (* events that bear a cost, with the totalCost they follow *)
  transcript,   (* what each transcript entry is                           *)
  totalCost,
  dispatchCount,
  wave,         (* the delegates of the current wave                       *)
  answers,      (* cost of each worker's response: <<>> while outstanding  *)
  recorded,     (* workers whose turn is recorded                          *)
  stopped,      (* reason of the termination record                        *)
  trigger,      (* error of triggeringFailureForAbortMode                  *)
  aborted,      (* options.signal is aborted                               *)
  requested,    (* history: model-request events of the coordinator itself *)
  issued,       (* history: its provider calls                             *)
  due,          (* agents of the phase whose request is still to come      *)
  outcome       (* how the promise of the run settled                      *)

config == <<policy, terminate>>
ledger == <<log, totalCost>>
loop   == <<decision, dispatchCount, wave>>
ending == <<stopped, trigger, outcome>>
work   == <<answers, recorded>>
calls  == <<requested, issued, due>>

vars == <<config, phase, after, ledger, transcript, loop, work, ending, aborted, calls>>

Worker == 1..Workers
Cost   == 0..MaxCost

\* Usd and tokens share an axis; convergence and judge conditions are "quality".
Axes == {"cost", "iterations", "timeout", "quality"}

\* What a rejected child run throws: a DogpileError, a DogpileError of kind
\* delegate-validation, or an error that is no DogpileError.  Only of the first
\* two the engine keeps the instance.
ChildError == {"typed", "validation", "plain"}

\* How many delegates there are and how many have not reported, the errors of
\* those that failed, whether one was refused, how many completed children the
\* aborted parent gave up on, and whether the event of one is being delivered.
NoWave == [width |-> 0, open |-> 0, failures |-> {}, refused |-> FALSE,
           givenUp |-> 0, completing |-> FALSE]

Init ==
  /\ policy \in {"continue", "abort"}
  /\ terminate \in SUBSET Axes
  /\ phase = "check"
  /\ after = "plan"
  /\ decision = 0
  /\ log = <<>>
  /\ transcript = <<>>
  /\ totalCost = 0
  /\ dispatchCount = 0
  /\ wave = NoWave
  /\ answers = [w \in Worker |-> <<>>]
  /\ recorded = 0
  /\ stopped = "no"
  /\ trigger = "none"
  /\ aborted = FALSE
  /\ requested = 0
  /\ issued = 0
  /\ due = 0
  /\ outcome = "pending"

-----------------------------------------------------------------------------
Event(kind, cost, total) == [kind |-> kind, own |-> cost, total |-> total]

\* Add a cost to totalCost and emit the event that reports it.
Record(kind, cost) ==
  /\ totalCost' = totalCost + cost
  /\ log' = Append(log, Event(kind, cost, totalCost + cost))

\* The coordinator throws: the run rejects.
Throw ==
  /\ phase' = "over"
  /\ outcome' = "rejected"

-----------------------------------------------------------------------------
(* stopIfNeeded                                                            *)

\* Mutant: a cap has to be exceeded.
CapReached_Exceeded ==
  \/ "cost" \in terminate /\ totalCost > CostCap
  \/ "iterations" \in terminate /\ Len(transcript) > IterationCap

CapReached ==
  \/ "cost" \in terminate /\ totalCost >= CostCap
  \/ "iterations" \in terminate /\ Len(transcript) >= IterationCap

\* What evaluateTerminationStop may answer.  Conditions of a firstOf are tried
\* in the caller's order; elapsed time and the verdicts of convergence and judge
\* are not modelled, the protocol floor that holds the latter back is.
StopVerdicts ==
  (IF CapReached \/ "timeout" \in terminate THEN {"budget"} ELSE {})
  \cup (IF "quality" \in terminate /\ Len(transcript) >= Floor THEN {"quality"} ELSE {})
  \cup (IF CapReached THEN {} ELSE {"no"})

\* The agents that ask their model on entering a phase.
CallsOf(p) == CASE p = "work" -> Workers [] p \in {"plan", "synthesis"} -> 1 [] OTHER -> 0

\* The first of them looks at the signal and emits its model-request.
Enter(p) ==
  /\ requested' = IF CallsOf(p) = 0 THEN requested ELSE requested + 1
  /\ due' = IF CallsOf(p) = 0 THEN 0 ELSE CallsOf(p) - 1
  /\ UNCHANGED issued

\* The event is being delivered; the provider has not been called.
Asking == requested > issued

\* A stop check, and what follows it: the request of the first agent of the next
\* phase, or nothing but the final event once the run is stopped.
Check ==
  /\ phase = "check"
  /\ ~aborted
  /\ \E verdict \in StopVerdicts :
       /\ stopped' = verdict
       /\ log' = IF verdict = "budget"
                 THEN Append(log, Event("budget-stop", 0, totalCost)) ELSE log
       /\ phase' = IF verdict = "no" THEN after ELSE "final"
       /\ Enter(phase')
  /\ UNCHANGED <<config, after, totalCost, transcript, loop, work, trigger, outcome,
                 aborted>>

\* Mutant: the agents are started without looking at the signal each time.
Call_AsksOn ==
  /\ Asking
  /\ issued' = issued + 1
  /\ IF due > 0
     THEN requested' = requested + 1 /\ due' = due - 1
     ELSE UNCHANGED <<requested, due>>
  /\ UNCHANGED <<config, phase, after, ledger, transcript, loop, work, ending, aborted>>

\* The provider is called, whatever a subscriber did on the request: the signal is
\* not looked at again.  Then the next agent of the phase asks, unless aborted.
Call ==
  /\ Asking
  /\ issued' = issued + 1
  /\ IF due > 0 /\ ~aborted
     THEN requested' = requested + 1 /\ due' = due - 1
     ELSE UNCHANGED <<requested, due>>
  /\ UNCHANGED <<config, phase, after, ledger, transcript, loop, work, ending, aborted>>

-----------------------------------------------------------------------------
(* The plan loop                                                           *)

\* runCoordinatorTurn in phase plan, from the provider's answer on.
PlanAnswers ==
  /\ phase = "plan"
  /\ ~Asking
  /\ ~aborted
  /\ \E cost \in Cost : Record("plan", cost)
  /\ decision' \in 0..MaxWidth
  /\ transcript' = Append(transcript, "plan")
  /\ phase' = "decide"
  /\ UNCHANGED <<config, after, dispatchCount, wave, work, ending, aborted, calls>>

Participate ==
  /\ phase = "decide"
  /\ decision = 0
  /\ phase' = "check"
  /\ after' = "work"
  /\ UNCHANGED <<config, ledger, transcript, loop, work, ending, aborted, calls>>

\* Mutant: the guard looks at the children dispatched before.
Delegate_GuardBefore ==
  /\ phase = "decide"
  /\ decision > 0
  /\ dispatchCount < MaxDispatch
  /\ phase' = "wave"
  /\ wave' = [NoWave EXCEPT !.width = decision, !.open = decision]
  /\ UNCHANGED <<config, after, ledger, transcript, decision, dispatchCount, work, ending,
                 aborted, calls>>

Delegate ==
  /\ phase = "decide"
  /\ decision > 0
  /\ dispatchCount + decision <= MaxDispatch
  /\ phase' = "wave"
  /\ wave' = [NoWave EXCEPT !.width = decision, !.open = decision]
  /\ UNCHANGED <<config, after, ledger, transcript, decision, dispatchCount, work, ending,
                 aborted, calls>>

LoopGuard ==
  /\ phase = "decide"
  /\ decision > 0
  /\ dispatchCount + decision > MaxDispatch
  /\ Throw
  /\ UNCHANGED <<config, after, ledger, transcript, loop, work, stopped, trigger,
                 aborted, calls>>

-----------------------------------------------------------------------------
(* A dispatch wave                                                         *)

Settling == phase = "wave" /\ ~wave.completing /\ wave.open > 0

\* The event of a completed child is being delivered.
Delivering == phase = "wave" /\ wave.completing

\* The child's cost is the parent's; the event tells so.
ChildCompletes ==
  /\ Settling
  /\ \E cost \in Cost : Record("completed", cost)
  /\ wave' = [wave EXCEPT !.open = @ - 1, !.completing = TRUE]
  /\ UNCHANGED <<config, phase, after, transcript, decision, dispatchCount, work, ending,
                 aborted, calls>>

\* Mutant: a completed child leaves no transcript entry.
KeepResult_NoEntry ==
  /\ Delivering
  /\ ~aborted
  /\ wave' = [wave EXCEPT !.completing = FALSE]
  /\ UNCHANGED <<config, phase, after, ledger, transcript, decision, dispatchCount, work,
                 ending, aborted, calls>>

\* The child's result becomes a transcript entry.
KeepResult ==
  /\ Delivering
  /\ ~aborted
  /\ wave' = [wave EXCEPT !.completing = FALSE]
  /\ transcript' = Append(transcript, "completed")
  /\ UNCHANGED <<config, phase, after, ledger, decision, dispatchCount, work, ending,
                 aborted, calls>>

\* The parent was aborted before the event or in its callback: it says so in an
\* event of its own (which bears no cost) and throws.  The child has no entry.
GiveUp ==
  /\ Delivering
  /\ aborted
  /\ wave' = [wave EXCEPT !.completing = FALSE, !.givenUp = @ + 1]
  /\ UNCHANGED <<config, phase, after, ledger, transcript, decision, dispatchCount, work,
                 ending, aborted, calls>>

\* The partial cost of a failed child is the parent's, too.  A child that the
\* parent's signal ended fails likewise.
ChildFails ==
  /\ Settling
  /\ \E cost \in Cost, error \in ChildError :
       /\ Record(IF error = "plain" THEN "failed plain" ELSE "failed", cost)
       /\ wave' = [wave EXCEPT !.open = @ - 1, !.failures = @ \cup {error}]
  /\ UNCHANGED <<config, phase, after, transcript, decision, dispatchCount, work, ending,
                 aborted, calls>>

\* A child still queued when a sibling has failed is reported, at no cost.
ChildSkipped ==
  /\ Settling
  /\ wave.failures # {} \/ wave.refused \/ wave.givenUp > 0
  /\ Record("skipped", 0)
  /\ wave' = [wave EXCEPT !.open = @ - 1]
  /\ UNCHANGED <<config, phase, after, transcript, decision, dispatchCount, work, ending,
                 aborted, calls>>

\* dispatchDelegate throws before the child starts: the parent's deadline has
\* passed.  No event reports it and no failure is recorded.
ChildRefused ==
  /\ Settling
  /\ wave' = [wave EXCEPT !.open = @ - 1, !.refused = TRUE]
  /\ UNCHANGED <<config, phase, after, ledger, transcript, decision, dispatchCount, work,
                 ending, aborted, calls>>

Settled == phase = "wave" /\ ~wave.completing /\ wave.open = 0

\* A lone delegate's error leaves the loop.
Rethrows ==
  /\ wave.width = 1
  /\ \/ wave.refused \/ wave.givenUp > 0
     \/ wave.failures # {} /\ policy = "abort"
     \/ wave.failures \cap {"validation", "plain"} # {}

\* Mutant: nobody waits for the rejection of a delegate that never started.
WaveRethrows_IgnoresRefused ==
  /\ Settled
  /\ Rethrows
  /\ ~wave.refused
  /\ Throw
  /\ UNCHANGED <<config, after, ledger, transcript, loop, work, stopped, trigger,
                 aborted, calls>>

WaveRethrows ==
  /\ Settled
  /\ Rethrows
  /\ Throw
  /\ UNCHANGED <<config, after, ledger, transcript, loop, work, stopped, trigger,
                 aborted, calls>>

\* Abort mode leaves the plan loop.  The trigger is the failure that comes
\* first in the order of the delegates: any of the wave's, seen from here.
WaveTriggers ==
  /\ Settled
  /\ ~Rethrows
  /\ policy = "abort"
  /\ trigger' \in wave.failures
  /\ phase' = "check"
  /\ after' = "work"
  /\ UNCHANGED <<config, ledger, transcript, loop, work, stopped, outcome, aborted, calls>>

\* Mutant: the delegates are counted when dispatched and again here.
Replan_CountsTwice ==
  /\ Settled
  /\ ~aborted
  /\ ~Rethrows
  /\ policy = "continue" \/ wave.failures = {}
  /\ dispatchCount' = dispatchCount + 2 * wave.width
  /\ phase' = "plan"
  /\ Enter("plan")
  /\ UNCHANGED <<config, after, ledger, transcript, decision, wave, work, ending, aborted>>

\* The follow-up plan turn.  There is no stop check before it.
Replan ==
  /\ Settled
  /\ ~aborted
  /\ ~Rethrows
  /\ policy = "continue" \/ wave.failures = {}
  /\ dispatchCount' = dispatchCount + wave.width
  /\ phase' = "plan"
  /\ Enter("plan")
  /\ UNCHANGED <<config, after, ledger, transcript, decision, wave, work, ending, aborted>>

-----------------------------------------------------------------------------
(* Worker turns, final synthesis                                           *)

\* The agents call their providers in their order.
Called(w) == w <= Workers - due

Outstanding == {w \in Worker : answers[w] = <<>>}

\* A worker's turn, from the provider's answer to its last look at the signal.
WorkerAnswers(w) ==
  /\ phase = "work"
  /\ ~Asking
  /\ ~aborted
  /\ Called(w)
  /\ w \in Outstanding
  /\ \E cost \in Cost : answers' = [answers EXCEPT ![w] = <<cost>>]
  /\ UNCHANGED <<config, phase, after, ledger, transcript, loop, recorded, ending,
                 aborted, calls>>

\* Promise.all over the workers resumes, without a look at the signal.
WorkersDone ==
  /\ phase = "work"
  /\ ~Asking
  /\ Outstanding = {}
  /\ phase' = "record"
  /\ UNCHANGED <<config, after, ledger, transcript, loop, work, ending, aborted, calls>>

\* Mutant: the event reports the total without the worker's own cost.
RecordWorker_Stale ==
  /\ phase = "record"
  /\ recorded < Workers
  /\ recorded' = recorded + 1
  /\ totalCost' = totalCost + answers[recorded'][1]
  /\ log' = Append(log, Event("worker", answers[recorded'][1], totalCost))
  /\ transcript' = Append(transcript, "worker")
  /\ UNCHANGED <<config, phase, after, loop, answers, ending, aborted, calls>>

\* The workers' turns are recorded in the order of the agents, whatever order
\* they answered in.  A subscriber that cancels here does not stop the loop.
RecordWorker ==
  /\ phase = "record"
  /\ recorded < Workers
  /\ recorded' = recorded + 1
  /\ Record("worker", answers[recorded'][1])
  /\ transcript' = Append(transcript, "worker")
  /\ UNCHANGED <<config, phase, after, loop, answers, ending, aborted, calls>>

WorkersRecorded ==
  /\ phase = "record"
  /\ recorded = Workers
  /\ phase' = "check"
  /\ after' = "synthesis"
  /\ UNCHANGED <<config, ledger, transcript, loop, work, ending, aborted, calls>>

\* Final synthesis answers, without a delegate decision.
SynthesisAnswers ==
  /\ phase = "synthesis"
  /\ ~Asking
  /\ ~aborted
  /\ \E cost \in Cost : Record("synthesis", cost)
  /\ transcript' = Append(transcript, "synthesis")
  /\ phase' = "check"
  /\ after' = "final"
  /\ UNCHANGED <<config, loop, work, ending, aborted, calls>>

\* A delegate decision of final synthesis is recorded, then refused.
SynthesisDelegates ==
  /\ phase = "synthesis"
  /\ ~Asking
  /\ ~aborted
  /\ \E cost \in Cost : Record("synthesis", cost)
  /\ transcript' = Append(transcript, "synthesis")
  /\ Throw
  /\ UNCHANGED <<config, after, loop, work, stopped, trigger, aborted, calls>>

\* A provider or a tool fails, a decision does not parse, a worker delegates.
TurnFails ==
  /\ ~Asking
  /\ \/ phase \in {"plan", "synthesis"}
     \/ phase = "work" /\ \E w \in Outstanding : Called(w)
  /\ Throw
  /\ UNCHANGED <<config, after, ledger, transcript, loop, work, stopped, trigger,
                 aborted, calls>>

-----------------------------------------------------------------------------
(* The end of the run                                                      *)

Final ==
  /\ phase = "final"
  /\ ~aborted
  /\ Record("final", 0)
  /\ phase' = "returned"
  /\ UNCHANGED <<config, after, transcript, loop, work, ending, aborted, calls>>

\* The last failure whose instance the engine keeps, 0 if there is none.
LastFailure ==
  LET failures == {k \in DOMAIN log : log[k].kind = "failed"}
  IN  IF failures = {} THEN 0 ELSE CHOOSE k \in failures : \A l \in failures : l <= k

\* Mutant: any later turn counts as a synthesis of the failure.
TerminalThrow_AnyTurn ==
  IF trigger # "none"
  THEN trigger # "plain"
  ELSE /\ stopped # "no"
       /\ LastFailure # 0
       /\ ~\E k \in DOMAIN log : k > LastFailure /\ log[k].kind \in {"plan", "synthesis"}

\* resolveRuntimeTerminalThrow
TerminalThrow ==
  IF trigger # "none"
  THEN trigger # "plain"
  ELSE /\ stopped # "no"
       /\ LastFailure # 0
       /\ ~\E k \in DOMAIN log : k > LastFailure /\ log[k].kind = "synthesis"

\* The engine turns the finished run into the result or into an error.  An abort
\* at this point counts on a stream and on a run with a timeout, not elsewhere.
Resolve ==
  /\ phase = "returned"
  /\ phase' = "over"
  /\ \/ ~TerminalThrow /\ outcome' = "resolved"
     \/ (TerminalThrow \/ aborted) /\ outcome' = "rejected"
  /\ UNCHANGED <<config, after, ledger, transcript, loop, work, stopped, trigger,
                 aborted, calls>>

\* cancel(), the caller's signal or the timeout, at any await or emitted event.
Abort ==
  /\ ~aborted
  /\ phase # "over"
  /\ aborted' = TRUE
  /\ UNCHANGED <<config, phase, after, ledger, transcript, loop, work, ending, calls>>

\* throwIfAborted: before each request and after each call, at each stop check,
\* before the final event.  A wave settles first; its children observe the signal.
AbortObserved ==
  /\ aborted
  /\ ~Asking
  /\ \/ phase \in {"check", "plan", "synthesis", "final"}
     \/ Settled
     \/ phase = "work" /\ Outstanding # {}
  /\ Throw
  /\ UNCHANGED <<config, after, ledger, transcript, loop, work, stopped, trigger,
                 aborted, calls>>

-----------------------------------------------------------------------------
WaveStep ==
  \/ ChildCompletes \/ KeepResult \/ GiveUp
  \/ ChildFails \/ ChildSkipped \/ ChildRefused
  \/ WaveRethrows \/ WaveTriggers \/ Replan

Progress ==
  \/ Check \/ Call
  \/ PlanAnswers \/ Participate \/ Delegate \/ LoopGuard
  \/ WaveStep
  \/ \E w \in Worker : WorkerAnswers(w)
  \/ WorkersDone \/ RecordWorker \/ WorkersRecorded
  \/ SynthesisAnswers \/ SynthesisDelegates \/ TurnFails
  \/ Final \/ Resolve \/ AbortObserved

Finished == phase = "over" /\ UNCHANGED vars

Next == Progress \/ Abort \/ Finished

Spec == Init /\ [][Next]_vars

\* Continuations run, providers answer or fail, child runs end.
FairSpec == Spec /\ WF_vars(Progress)
-----------------------------------------------------------------------------
(* Properties                                                              *)

Turns    == {"plan", "worker", "synthesis"}
Children == {"completed", "failed", "failed plain", "skipped"}
Kinds    == Turns \cup Children \cup {"budget-stop", "final"}

\* Every variable stays in its domain.
TypeOK ==
  /\ policy \in {"continue", "abort"}
  /\ terminate \in SUBSET Axes
  /\ phase \in {"check", "plan", "decide", "wave", "work", "record",
               "synthesis", "final", "returned", "over"}
  /\ after \in {"plan", "work", "synthesis", "final"}
  /\ decision \in 0..MaxWidth
  /\ log \in Seq([kind : Kinds, own : Nat, total : Nat])
  /\ transcript \in Seq(Turns \cup {"completed"})
  /\ totalCost \in Nat
  /\ dispatchCount \in 0..MaxDispatch
  /\ wave \in [width : 0..MaxWidth, open : 0..MaxWidth, failures : SUBSET ChildError,
               refused : BOOLEAN, givenUp : Nat, completing : BOOLEAN]
  /\ answers \in [Worker -> Seq(Nat)]
  /\ recorded \in 0..Workers
  /\ stopped \in {"no", "budget", "quality"}
  /\ trigger \in ChildError \cup {"none"}
  /\ aborted \in BOOLEAN
  /\ requested \in Nat /\ issued \in Nat /\ due \in 0..Workers
  /\ outcome \in {"pending", "resolved", "rejected"}

\* The costs that the events of a run report form one ledger: each running
\* total is the one before it plus what the event itself adds, across plan
\* turns, children of every wave, parallel workers and the final event.
RunningTotals ==
  /\ \A k \in DOMAIN log :
       log[k].total = (IF k = 1 THEN 0 ELSE log[k - 1].total) + log[k].own
  /\ totalCost = IF log = <<>> THEN 0 ELSE log[Len(log)].total

\* The transcript tells the same story as the events: one entry for each turn
\* and for each completed child, in the same order.  The only events without an
\* entry are the last ones of an aborted run: completed children that the parent
\* gave up on, each reported as such, or the one whose event is being delivered.
TranscriptMatchesEvents ==
  LET told == {k \in DOMAIN log : log[k].kind \in Turns \cup {"completed"}}
      place(k) == Cardinality({l \in told : l <= k})
  IN  /\ Cardinality(told) =
           Len(transcript) + wave.givenUp + (IF wave.completing THEN 1 ELSE 0)
      /\ wave.givenUp > 0 => aborted
      /\ \A k \in told :
           log[k].kind =
             IF place(k) <= Len(transcript) THEN transcript[place(k)] ELSE "completed"

\* However many plan turns delegate, and however wide, no run has more than
\* MaxDispatch children.
DispatchBounded ==
  /\ Cardinality({k \in DOMAIN log : log[k].kind \in Children}) <= MaxDispatch
  /\ phase = "wave" => dispatchCount + wave.width <= MaxDispatch

\* A run that resolves has not swallowed a child failure whose error the engine
\* keeps: it was not in abort mode, and final synthesis followed the failure.
NoSilentFailure ==
  outcome = "resolved" /\ (\A k \in DOMAIN log : log[k].kind # "failed plain") =>
    \A k \in DOMAIN log : log[k].kind = "failed" =>
      policy = "continue" /\ \E l \in DOMAIN log : l > k /\ log[l].kind = "synthesis"

\* Workers and final synthesis are not asked once the transcript or the total
\* cost, whoever ran it up, has reached a cap.  (Plan turns may be.)
NoTurnOverCap ==
  [][requested' # requested /\ phase' \in {"work", "synthesis"} =>
       /\ "cost" \in terminate => totalCost < CostCap
       /\ "iterations" \in terminate => Len(transcript) < IterationCap]_vars

\* Once the signal is aborted the coordinator makes no further model request, and
\* no provider call but the one whose request is out, if a subscriber cancelled in
\* its callback.  No result of a child and no turn enters the transcript but those
\* of workers that had all answered, and no final event is emitted.
AbortIsFinal ==
  [][aborted =>
       /\ requested' = requested
       /\ issued' # issued => issued' = issued + 1 /\ issued' = requested
       /\ transcript' # transcript => phase = "record"
       /\ phase' = "returned" => phase = "returned"]_vars

\* Every run settles: the plan loop cannot go on forever.
RunSettles == <>(outcome # "pending")

-----------------------------------------------------------------------------
(* What the documentation says                                             *)

\* CHANGELOG.md: "abort" rethrows the snapshotted triggering failure, so that
\* a run in abort mode with a failed child does not resolve.
AbortModeRejects ==
  policy = "abort" /\ outcome = "resolved" =>
    \A k \in DOMAIN log : log[k].kind \notin {"failed", "failed plain"}
=============================================================================
