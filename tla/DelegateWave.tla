---------------------------- MODULE DelegateWave ----------------------------
(***************************************************************************)
(* One dispatch wave of the coordinator: the delegates of one plan turn    *)
(* are launched as tasks that share a counting semaphore, each task runs a *)
(* child engine, and the wave settles when every task has.  The wave ends  *)
(* in a follow-up plan turn, in abort mode, or by rethrowing.              *)
(*                                                                         *)
(* JavaScript is single-threaded: a task runs without interruption from    *)
(* one await to the next.  `thread' names the task that holds the thread   *)
(* in the middle of such a segment, because it has just called a           *)
(* subscriber synchronously; 0 is the event loop.  Every other step is one *)
(* whole segment.  The one thing that can happen inside another task's     *)
(* segment is what the subscriber does: call StreamHandle.cancel().        *)
(***************************************************************************)
EXTENDS Naturals, Sequences, FiniteSets

CONSTANTS
  MaxDelegates,     (* bound on the delegates of the plan turn             *)
  MaxConcurrent,    (* effectiveMaxConcurrentChildren of the run           *)
  MaxSpend,         (* bound on the cost units a child spends              *)
  HasDeadline,      (* the parent run has a budget.timeoutMs               *)
  CallbackCancels   (* subscribers may call cancel() inside their callback *)

ASSUME ConstantsAssumption ==
  /\ MaxDelegates \in Nat \ {0}
  /\ MaxConcurrent \in Nat \ {0}
  /\ MaxSpend \in Nat
  /\ HasDeadline \in BOOLEAN
  /\ CallbackCancels \in BOOLEAN

Delegate == 1..MaxDelegates

VARIABLES
  width,        (* delegates.length                                        *)
  limit,        (* effectiveForTurn: slots of the semaphore                *)
  policy,       (* options.onChildFailure                                  *)
  surface,      (* "stream" registers a drain and has subscribers          *)
  pc,           (* where each task stands                                  *)
  thread,       (* the task inside a synchronous segment, or 0             *)
  inFlight,     (* slots taken                                             *)
  waiters,      (* tasks queued on the semaphore, oldest first             *)
  closed,       (* dispatchedChild.closed                                  *)
  failure,      (* children whose dispatchedChild.failure is recorded      *)
  error,        (* kind of the error a task is throwing                    *)
  firstFailure, (* firstFailureIndex, 0 when undefined                     *)
  outcome,      (* what the task pushed on dispatchResults                 *)
  spend,        (* provider spend of each child                            *)
  costed,       (* cost on the child's last cost-bearing event             *)
  charged,      (* share of the parent's totalCost due to each child       *)
  log,          (* sub-run events of each child, as the coordinator emits  *)
  published,    (* the same, as the stream handle published them           *)
  handle,       (* "running" while the stream handle publishes             *)
  abort,        (* reason of the parent's abort signal                     *)
  elapsed,      (* the parent deadline has passed                          *)
  lastFailed,   (* child of the last real sub-run-failed event             *)
  wave,         (* how the wave ended                                      *)
  trigger       (* child of triggeringFailureForAbortMode, or 0            *)

config  == <<width, limit, policy, surface>>
slots   == <<inFlight, waiters>>
money   == <<spend, costed, charged>>
events  == <<log, published>>
parent  == <<handle, abort, elapsed>>
verdict == <<wave, trigger>>

vars == <<config, pc, thread, slots, closed, failure, error, firstFailure,
          outcome, money, events, parent, lastFailed, verdict>>

Task == 1..width

PcValues ==
  {"launch", "announced", "waiting", "granted", "skipping", "starting",
   "running", "finished", "completing", "failing", "returned", "threw", "done"}

\* Tasks between acquire() and release().
Holding ==
  {"granted", "skipping", "starting", "running", "finished", "completing",
   "failing", "returned", "threw"}

\* Errors that are not the parent's own cancellation count as real failures.
RealErrors == {"typed", "validation", "timeout"}

TerminalEvents == {"completed", "failed", "aborted", "sibling"}
FailedEvents   == TerminalEvents \ {"completed"}

InitFor(w) ==
  /\ width = w
  /\ limit \in 1..MaxConcurrent
  /\ policy \in {"continue", "abort"}
  /\ surface \in {"stream", "run"}
  /\ pc = [i \in Delegate |-> "launch"]
  /\ thread = 1
  /\ inFlight = 0
  /\ waiters = <<>>
  /\ closed = [i \in Delegate |-> FALSE]
  /\ failure = {}
  /\ error = [i \in Delegate |-> "none"]
  /\ firstFailure = 0
  /\ outcome = [i \in Delegate |-> "none"]
  /\ spend = [i \in Delegate |-> 0]
  /\ costed = [i \in Delegate |-> 0]
  /\ charged = [i \in Delegate |-> 0]
  /\ log = [i \in Delegate |-> <<>>]
  /\ published = [i \in Delegate |-> <<>>]
  /\ handle = "running"
  /\ abort = "none"
  /\ elapsed = FALSE
  /\ lastFailed = 0
  /\ wave = "open"
  /\ trigger = 0

Init == \E w \in Delegate : InitFor(w)

-----------------------------------------------------------------------------
(* Emitting and the semaphore                                              *)

\* Mutant: the stream handle publishes whatever its status.
Emit_Ungated(i, e) ==
  /\ log' = [log EXCEPT ![i] = Append(@, e)]
  /\ published' = [published EXCEPT ![i] = Append(@, e)]

\* The coordinator's emit: its own events array always records the event, the
\* stream handle drops it unless its status is "running".
Emit(i, e) ==
  /\ log' = [log EXCEPT ![i] = Append(@, e)]
  /\ published' = IF handle = "running"
                  THEN [published EXCEPT ![i] = Append(@, e)]
                  ELSE published

Charge(i, amount) == charged' = [charged EXCEPT ![i] = @ + amount]

\* Mutant: the waiters are a stack.
Acquire_Stack(i) ==
  IF inFlight < limit
  THEN /\ inFlight' = inFlight + 1
       /\ pc' = [pc EXCEPT ![i] = "granted"]
       /\ UNCHANGED waiters
  ELSE /\ waiters' = <<i>> \o waiters
       /\ pc' = [pc EXCEPT ![i] = "waiting"]
       /\ UNCHANGED inFlight

\* semaphore.acquire(): take a free slot or queue up.
Acquire(i) ==
  IF inFlight < limit
  THEN /\ inFlight' = inFlight + 1
       /\ pc' = [pc EXCEPT ![i] = "granted"]
       /\ UNCHANGED waiters
  ELSE /\ waiters' = Append(waiters, i)
       /\ pc' = [pc EXCEPT ![i] = "waiting"]
       /\ UNCHANGED inFlight

\* Mutant: released in the catch block and again in the finally block.
Release_Twice(i) ==
  /\ inFlight' = inFlight - 2
  /\ pc' = [pc EXCEPT ![i] = "done"]
  /\ UNCHANGED waiters

\* Mutant: the woken waiter does not take the slot back.
Release_WithoutRetake(i) ==
  /\ inFlight' = inFlight - 1
  /\ IF waiters = <<>>
     THEN pc' = [pc EXCEPT ![i] = "done"] /\ UNCHANGED waiters
     ELSE /\ pc' = [pc EXCEPT ![i] = "done", ![Head(waiters)] = "granted"]
          /\ waiters' = Tail(waiters)

\* Mutant: the newest waiter is served first.
Release_Newest(i) ==
  IF waiters = <<>>
  THEN /\ inFlight' = inFlight - 1
       /\ pc' = [pc EXCEPT ![i] = "done"]
       /\ UNCHANGED waiters
  ELSE /\ pc' = [pc EXCEPT ![i] = "done", ![waiters[Len(waiters)]] = "granted"]
       /\ waiters' = SubSeq(waiters, 1, Len(waiters) - 1)
       /\ UNCHANGED inFlight

\* Mutant: a waiter is dropped without being woken.
Release_LosesWakeup(i) ==
  /\ inFlight' = inFlight - 1
  /\ pc' = [pc EXCEPT ![i] = "done"]
  /\ waiters' = IF waiters = <<>> THEN waiters ELSE Tail(waiters)

\* semaphore.release(): give the slot to the oldest waiter, if there is one.
Release(i) ==
  IF waiters = <<>>
  THEN /\ inFlight' = inFlight - 1
       /\ pc' = [pc EXCEPT ![i] = "done"]
       /\ UNCHANGED waiters
  ELSE /\ pc' = [pc EXCEPT ![i] = "done", ![Head(waiters)] = "granted"]
       /\ waiters' = Tail(waiters)
       /\ UNCHANGED inFlight

\* The segment ends at an await, or keeps the thread while subscribers run.
Step(i, from, to, held) ==
  /\ pc[i] = from
  /\ pc' = [pc EXCEPT ![i] = to]
  /\ thread' = IF held THEN i ELSE 0

-----------------------------------------------------------------------------
(* Launching the tasks, in index order and in one segment                  *)

AnnounceQueued(i) ==
  /\ thread = i
  /\ inFlight >= limit
  /\ Step(i, "launch", "announced", TRUE)
  /\ Emit(i, "queued")
  /\ UNCHANGED <<config, slots, closed, failure, error, firstFailure, outcome,
                 money, parent, lastFailed, verdict>>

AcquireSlot(i) ==
  /\ thread = i
  /\ \/ pc[i] = "announced"
     \/ pc[i] = "launch" /\ inFlight < limit
  /\ Acquire(i)
  /\ thread' = IF i < width THEN i + 1 ELSE 0
  /\ UNCHANGED <<config, closed, failure, error, firstFailure, outcome, money,
                 events, parent, lastFailed, verdict>>

-----------------------------------------------------------------------------
(* The task once it holds a slot                                           *)

\* A sibling failed and an abort drain has already closed this child.
SkipClosed(i) ==
  /\ thread = 0
  /\ pc[i] = "granted"
  /\ firstFailure # 0
  /\ closed[i]
  /\ outcome' = [outcome EXCEPT ![i] = "skipped"]
  /\ Release(i)
  /\ UNCHANGED <<config, thread, closed, failure, error, firstFailure, money,
                 events, parent, lastFailed, verdict>>

\* A sibling failed: report the child as never started.
SkipSibling(i) ==
  /\ thread = 0
  /\ firstFailure # 0
  /\ ~closed[i]
  /\ Step(i, "granted", "skipping", TRUE)
  /\ Emit(i, "sibling")
  /\ UNCHANGED <<config, slots, closed, failure, error, firstFailure, outcome,
                 money, parent, lastFailed, verdict>>

FinishSkip(i) ==
  /\ thread = i
  /\ pc[i] = "skipping"
  /\ closed' = [closed EXCEPT ![i] = TRUE]
  /\ outcome' = [outcome EXCEPT ![i] = "skipped"]
  /\ Release(i)
  /\ thread' = 0
  /\ UNCHANGED <<config, failure, error, firstFailure, money, events, parent,
                 lastFailed, verdict>>

\* dispatchDelegate finds the parent deadline elapsed and throws before the
\* child is reported started.
Refuse(i) ==
  /\ thread = 0
  /\ firstFailure = 0
  /\ elapsed
  /\ Step(i, "granted", "threw", FALSE)
  /\ error' = [error EXCEPT ![i] = "timeout"]
  /\ UNCHANGED <<config, slots, closed, failure, firstFailure, outcome, money,
                 events, parent, lastFailed, verdict>>

\* Mutant: the task does not look at firstFailureIndex.
Start_IgnoresFailure(i) ==
  /\ thread = 0
  /\ ~elapsed
  /\ Step(i, "granted", "starting", TRUE)
  /\ Emit(i, "started")
  /\ UNCHANGED <<config, slots, closed, failure, error, firstFailure, outcome,
                 money, parent, lastFailed, verdict>>

Start(i) ==
  /\ thread = 0
  /\ firstFailure = 0
  /\ ~elapsed
  /\ Step(i, "granted", "starting", TRUE)
  /\ Emit(i, "started")
  /\ UNCHANGED <<config, slots, closed, failure, error, firstFailure, outcome,
                 money, parent, lastFailed, verdict>>

\* The child's signal is linked to the parent's and runProtocol is called.
RunChild(i) ==
  /\ thread = i
  /\ Step(i, "starting", "running", FALSE)
  /\ UNCHANGED <<config, slots, closed, failure, error, firstFailure, outcome,
                 money, events, parent, lastFailed, verdict>>

-----------------------------------------------------------------------------
(* The child engine, as far as its parent can tell                         *)

\* A provider call of the child returns: money is spent.
ChildAnswer(i) ==
  /\ thread = 0
  /\ pc[i] = "running"
  /\ abort = "none"
  /\ spend[i] < MaxSpend
  /\ spend' = [spend EXCEPT ![i] = @ + 1]
  /\ UNCHANGED <<config, pc, thread, slots, closed, failure, error,
                 firstFailure, outcome, costed, charged, events, parent,
                 lastFailed, verdict>>

\* The child emits a cost-bearing event: agent-turn, broadcast, budget-stop.
ChildTurn(i) ==
  /\ thread = 0
  /\ pc[i] = "running"
  /\ abort = "none"
  /\ costed[i] < spend[i]
  /\ costed' = [costed EXCEPT ![i] = spend[i]]
  /\ UNCHANGED <<config, pc, thread, slots, closed, failure, error,
                 firstFailure, outcome, spend, charged, events, parent,
                 lastFailed, verdict>>

\* The child emits its final event; runProtocol is about to resolve.
ChildFinal(i) ==
  /\ thread = 0
  /\ abort = "none"
  /\ Step(i, "running", "finished", FALSE)
  /\ costed' = [costed EXCEPT ![i] = spend[i]]
  /\ UNCHANGED <<config, slots, closed, failure, error, firstFailure, outcome,
                 spend, charged, events, parent, lastFailed, verdict>>

\* What a rejected child run throws: a DogpileError of its own, a
\* delegate-validation error (dispatchDelegate turns any error that is not a
\* DogpileError into one), or the parent's abort reason.
ChildErrors ==
  {"typed", "validation"} \cup
  (CASE abort = "none"      -> {}
     [] abort = "cancelled" -> {"cancelled"}
     [] abort = "timedOut"  -> {"timeout"})

\* dispatchDelegate's catch for a child a drain has already closed.
CatchClosed(i) ==
  /\ thread = 0
  /\ closed[i]
  /\ Step(i, "running", "threw", FALSE)
  /\ \E e \in ChildErrors :
       error' = [error EXCEPT ![i] = IF e = "validation" THEN "typed" ELSE e]
  /\ UNCHANGED <<config, slots, closed, failure, firstFailure, outcome, money,
                 events, parent, lastFailed, verdict>>

\* Mutant: the partial cost is reported but not added to totalCost.
CatchOpen_NoCharge(i) ==
  /\ thread = 0
  /\ ~closed[i]
  /\ Step(i, "running", "failing", TRUE)
  /\ \E e \in ChildErrors :
       /\ error' = [error EXCEPT ![i] = e]
       /\ Emit(i, IF e \in RealErrors THEN "failed" ELSE "aborted")
       /\ lastFailed' = IF e \in RealErrors THEN i ELSE lastFailed
  /\ UNCHANGED <<config, slots, closed, failure, firstFailure, outcome, money,
                 parent, verdict>>

\* dispatchDelegate's catch: charge the last reported cost, report the failure.
CatchOpen(i) ==
  /\ thread = 0
  /\ ~closed[i]
  /\ Step(i, "running", "failing", TRUE)
  /\ \E e \in ChildErrors :
       /\ error' = [error EXCEPT ![i] = e]
       /\ Emit(i, IF e \in RealErrors THEN "failed" ELSE "aborted")
       /\ lastFailed' = IF e \in RealErrors THEN i ELSE lastFailed
  /\ Charge(i, costed[i])
  /\ UNCHANGED <<config, slots, closed, failure, firstFailure, outcome, spend,
                 costed, parent, verdict>>

\* Mutant: a delegate-validation error is not recorded as a failure.
FinishFail_TypedOnly(i) ==
  /\ thread = i
  /\ Step(i, "failing", "threw", FALSE)
  /\ closed' = [closed EXCEPT ![i] = TRUE]
  /\ failure' = IF error[i] = "typed" THEN failure \cup {i} ELSE failure
  /\ UNCHANGED <<config, slots, error, firstFailure, outcome, money, events,
                 parent, lastFailed, verdict>>

FinishFail(i) ==
  /\ thread = i
  /\ Step(i, "failing", "threw", FALSE)
  /\ closed' = [closed EXCEPT ![i] = TRUE]
  /\ failure' = IF error[i] \in RealErrors THEN failure \cup {i} ELSE failure
  /\ UNCHANGED <<config, slots, error, firstFailure, outcome, money, events,
                 parent, lastFailed, verdict>>

-----------------------------------------------------------------------------
(* Success, and the task's return, catch and finally blocks                *)

\* dispatchDelegate resumes with the child's result.
Complete(i) ==
  /\ thread = 0
  /\ Step(i, "finished", "completing", TRUE)
  /\ Charge(i, spend[i])
  /\ Emit(i, "completed")
  /\ UNCHANGED <<config, slots, closed, failure, error, firstFailure, outcome,
                 spend, costed, parent, lastFailed, verdict>>

FinishComplete(i) ==
  /\ thread = i
  /\ abort = "none"
  /\ Step(i, "completing", "returned", FALSE)
  /\ closed' = [closed EXCEPT ![i] = TRUE]
  /\ UNCHANGED <<config, slots, failure, error, firstFailure, outcome, money,
                 events, parent, lastFailed, verdict>>

\* The parent aborted while the child was finishing: leave a marker and throw.
FinishAborted(i) ==
  /\ thread = i
  /\ abort # "none"
  /\ Step(i, "completing", "threw", FALSE)
  /\ closed' = [closed EXCEPT ![i] = TRUE]
  /\ error' = [error EXCEPT ![i] = IF abort = "timedOut" THEN "timeout" ELSE "cancelled"]
  /\ Emit(i, "parentAborted")
  /\ UNCHANGED <<config, slots, failure, firstFailure, outcome, money, parent,
                 lastFailed, verdict>>

Deliver(i) ==
  /\ thread = 0
  /\ pc[i] = "returned"
  /\ outcome' = [outcome EXCEPT ![i] = "result"]
  /\ Release(i)
  /\ UNCHANGED <<config, thread, closed, failure, error, firstFailure, money,
                 events, parent, lastFailed, verdict>>

\* A lone delegate's error is rethrown in abort mode, when no failure was
\* recorded for it, and when it is a delegate-validation error.
Rethrows(i) ==
  /\ width = 1
  /\ policy = "abort" \/ i \notin failure \/ error[i] = "validation"

HandleThrow(i) ==
  /\ thread = 0
  /\ pc[i] = "threw"
  /\ firstFailure' = IF firstFailure = 0 THEN i ELSE firstFailure
  /\ outcome' = [outcome EXCEPT ![i] = IF Rethrows(i) THEN "rethrown" ELSE "failure"]
  /\ Release(i)
  /\ UNCHANGED <<config, thread, closed, failure, error, money, events, parent,
                 lastFailed, verdict>>

\* Mutant: abort mode stops only when every delegate of the wave failed.
Settle_AllFailed ==
  /\ thread = 0
  /\ wave = "open"
  /\ \A i \in Task : pc[i] = "done"
  /\ wave' = CASE outcome[1] = "rethrown" -> "rethrown"
               [] outcome[1] # "rethrown" /\ policy = "abort" /\ failure = Task -> "aborted"
               [] OTHER -> "replan"
  /\ trigger' = IF wave' = "aborted" THEN 1 ELSE 0
  /\ UNCHANGED <<config, pc, thread, slots, closed, failure, error,
                 firstFailure, outcome, money, events, parent, lastFailed>>

\* Promise.allSettled resumes the coordinator loop.
Settle ==
  /\ thread = 0
  /\ wave = "open"
  /\ \A i \in Task : pc[i] = "done"
  /\ wave' = CASE outcome[1] = "rethrown" -> "rethrown"
               [] outcome[1] # "rethrown" /\ policy = "abort" /\ failure # {} -> "aborted"
               [] OTHER -> "replan"
  /\ trigger' \in IF wave' = "aborted"
                   THEN {i \in failure : \A j \in failure : i <= j}
                   ELSE {0}
  /\ UNCHANGED <<config, pc, thread, slots, closed, failure, error,
                 firstFailure, outcome, money, events, parent, lastFailed>>

-----------------------------------------------------------------------------
(* The parent: cancellation, deadline and drain                            *)

\* dispatchedChild.started, as the drain finds it.  It is set when the child's run
\* begins, after the subscribers were told; a delegate that the deadline refused
\* stays open, but is not started.
Started(i) == pc[i] \in {"running", "finished", "completing", "failing"}

\* Mutant: a delegate that was refused is taken for one that was started.
DrainEvent_RefusedStarted(i) == IF Started(i) \/ pc[i] \in {"threw", "done"} THEN "aborted" ELSE "sibling"

\* drainOnParentAbort: close every open child.  Children that never reached
\* runProtocol are reported as abandoned siblings, at no cost.
DrainEvent(i) == IF Started(i) THEN "aborted" ELSE "sibling"

Drain(publishing) ==
  LET open == {i \in Task : ~closed[i]}
      drained(es) == [i \in Delegate |-> IF i \in open THEN Append(es[i], DrainEvent(i)) ELSE es[i]]
  IN  /\ closed' = [i \in Delegate |-> closed[i] \/ i \in open]
      /\ charged' = [i \in Delegate |-> charged[i] + IF i \in open THEN costed[i] ELSE 0]
      /\ log' = drained(log)
      /\ published' = IF publishing THEN drained(published) ELSE published

\* StreamHandle.cancel() or the caller's AbortSignal on a stream: abort, drain
\* while the handle still publishes, close.  Inside a callback it runs in the
\* middle of the emitting task's segment.
Cancel ==
  /\ surface = "stream"
  /\ handle = "running"
  /\ \/ thread = 0
     \/ CallbackCancels /\ thread # 0 /\ pc[thread] # "launch"
  /\ abort' = IF abort = "none" THEN "cancelled" ELSE abort
  /\ Drain(TRUE)
  /\ handle' = "closed"
  /\ UNCHANGED <<config, pc, thread, slots, failure, error, firstFailure,
                 outcome, spend, costed, elapsed, lastFailed, verdict>>

\* The caller's AbortSignal on run(): there is no drain to run.
CallerAbort ==
  /\ surface = "run"
  /\ thread = 0
  /\ abort = "none"
  /\ abort' = "cancelled"
  /\ UNCHANGED <<config, pc, thread, slots, closed, failure, error,
                 firstFailure, outcome, money, events, handle, elapsed,
                 lastFailed, verdict>>

DeadlineElapses ==
  /\ HasDeadline
  /\ thread = 0
  /\ ~elapsed
  /\ elapsed' = TRUE
  /\ UNCHANGED <<config, pc, thread, slots, closed, failure, error,
                 firstFailure, outcome, money, events, handle, abort,
                 lastFailed, verdict>>

\* The run's timeout timer aborts the signal.
TimeoutFires ==
  /\ elapsed
  /\ thread = 0
  /\ abort = "none"
  /\ abort' = "timedOut"
  /\ UNCHANGED <<config, pc, thread, slots, closed, failure, error,
                 firstFailure, outcome, money, events, handle, elapsed,
                 lastFailed, verdict>>

\* The stream's execute() catches the timeout: it sets its status first, so
\* the drain that follows reports nothing.
TimeoutDrain ==
  /\ surface = "stream"
  /\ thread = 0
  /\ abort = "timedOut"
  /\ handle = "running"
  /\ handle' = "closed"
  /\ Drain(FALSE)
  /\ UNCHANGED <<config, pc, thread, slots, failure, error, firstFailure,
                 outcome, spend, costed, abort, elapsed, lastFailed, verdict>>

-----------------------------------------------------------------------------
\* Steps of task i that the event loop runs by itself.
TaskStep(i) ==
  \/ AnnounceQueued(i) \/ AcquireSlot(i)
  \/ SkipClosed(i) \/ SkipSibling(i) \/ FinishSkip(i)
  \/ Refuse(i) \/ Start(i) \/ RunChild(i)
  \/ CatchClosed(i) \/ CatchOpen(i) \/ FinishFail(i)
  \/ Complete(i) \/ FinishComplete(i) \/ FinishAborted(i)
  \/ Deliver(i) \/ HandleThrow(i)

ChildStep(i) == ChildAnswer(i) \/ ChildTurn(i) \/ ChildFinal(i)

ParentStep ==
  \/ Settle \/ Cancel \/ CallerAbort
  \/ DeadlineElapses \/ TimeoutFires \/ TimeoutDrain

\* Once settled the coordinator has moved on; the wave may stay as it is.
Finished == wave # "open" /\ UNCHANGED vars

Next ==
  \/ \E i \in Task : TaskStep(i) \/ ChildStep(i)
  \/ ParentStep
  \/ Finished

Spec == Init /\ [][Next]_vars

\* Every queued continuation runs, and a child run ends one way or another:
\* providers answer or fail, and a child observes an aborted signal.
Fairness ==
  /\ \A i \in Delegate : WF_vars(i \in Task /\ (TaskStep(i) \/ ChildFinal(i)))
  /\ WF_vars(Settle)

FairSpec == Spec /\ Fairness
-----------------------------------------------------------------------------
(* Properties                                                              *)

LogEvents == TerminalEvents \cup {"queued", "started", "parentAborted"}

Emitted(es, kinds) == \E k \in DOMAIN es : es[k] \in kinds

\* Every variable stays in its domain: in particular a task names a slot of
\* the wave, and inFlight never goes negative.
TypeOK ==
  /\ width \in Delegate
  /\ limit \in 1..MaxConcurrent
  /\ policy \in {"continue", "abort"}
  /\ surface \in {"stream", "run"}
  /\ pc \in [Delegate -> PcValues]
  /\ thread \in 0..width
  /\ inFlight \in Nat
  /\ waiters \in Seq(Delegate)
  /\ closed \in [Delegate -> BOOLEAN]
  /\ failure \subseteq Task
  /\ error \in [Delegate -> {"none", "typed", "validation", "timeout", "cancelled"}]
  /\ firstFailure \in 0..width
  /\ outcome \in [Delegate -> {"none", "result", "failure", "skipped", "rethrown"}]
  /\ spend \in [Delegate -> Nat]
  /\ costed \in [Delegate -> Nat]
  /\ charged \in [Delegate -> Nat]
  /\ log \in [Delegate -> Seq(LogEvents)]
  /\ published \in [Delegate -> Seq(LogEvents)]
  /\ handle \in {"running", "closed"}
  /\ abort \in {"none", "cancelled", "timedOut"}
  /\ elapsed \in BOOLEAN
  /\ lastFailed \in 0..width
  /\ wave \in {"open", "rethrown", "aborted", "replan"}
  /\ trigger \in 0..width

Holders == {i \in Delegate : pc[i] \in Holding}

\* The semaphore: inFlight counts the tasks between acquire() and release(),
\* never more of them than the limit, and a task waits only while every
\* slot is taken - whatever order tasks fail, are skipped or are drained in.
SlotsInv ==
  /\ inFlight = Cardinality(Holders)
  /\ inFlight <= limit
  /\ waiters # <<>> => inFlight = limit

\* The semaphore's queue holds exactly the waiting tasks, in index order.
QueueInv ==
  /\ \A i \in Delegate : pc[i] = "waiting" <=> \E k \in DOMAIN waiters : waiters[k] = i
  /\ \A k, l \in DOMAIN waiters : k < l => waiters[k] < waiters[l]

\* No delegate overtakes one that was queued before it: while a task waits no
\* later one holds or has held a slot.
NoOvertaking ==
  \A i, j \in Task :
    i < j /\ pc[i] = "waiting" => pc[j] \in {"launch", "announced", "waiting"}

\* Reports of a child that its dispatch, or a drain, found running.
Ran == {"completed", "failed", "aborted"}

\* The reason of a report tells who ran, whichever of the task, a sibling and the
\* parent's drain made it: sibling-failed is told only of a child that never ran
\* (queued, refused or abandoned), with nothing spent and nothing charged; any
\* other end is told only of a child that was reported started; and no child is
\* told of in both ways, even if it is reported twice.
ReasonTellsWhoRan ==
  \A i \in Task :
    /\ Emitted(log[i], {"sibling"}) =>
         ~Emitted(log[i], Ran) /\ spend[i] = 0 /\ charged[i] = 0
    /\ Emitted(log[i], Ran) => Emitted(log[i], {"started"})

\* While the parent is not aborted its totalCost holds exactly one
\* contribution per closed child: all of a completed child's spend, the last
\* reported cost of a failed one, nothing else.
CostRollUp ==
  abort = "none" =>
    \A i \in Task :
      charged[i] = CASE Emitted(log[i], {"completed"}) -> spend[i]
                     [] Emitted(log[i], {"failed"})    -> costed[i]
                     [] OTHER                          -> 0

\* When the wave leads to a follow-up plan turn, the prompt tells what the
\* events say: every delegate is accounted for, exactly the completed children
\* have a result, and the failure roster lists exactly the real failures.
PromptMatchesEvents ==
  wave = "replan" /\ abort = "none" =>
    /\ inFlight = 0
    /\ \A i \in Task :
         /\ outcome[i] = "result"  <=> Emitted(log[i], {"completed"})
         /\ outcome[i] = "skipped" <=> Emitted(log[i], {"sibling"})
         /\ outcome[i] \in {"result", "skipped", "failure"}
    /\ failure = {i \in Task : Emitted(log[i], {"failed"})}

\* In abort mode no follow-up plan turn is taken after a real child failure,
\* and the triggering failure is one a sub-run-failed event reported.
AbortModeStops ==
  policy = "abort" /\ wave # "open" /\ (\E i \in Task : Emitted(log[i], {"failed"})) =>
    /\ wave \in {"aborted", "rethrown"}
    /\ wave = "aborted" => Emitted(log[trigger], {"failed"})

\* Once a task has handled a sibling's failure no further child is started.
NoStartAfterFailure ==
  [][\A i \in Task : firstFailure # 0 /\ ~Emitted(log[i], {"started"})
                       => ~Emitted(log'[i], {"started"})]_vars

\* What a stream has reported about a child.
StatusOf(es) ==
  IF Emitted(es, {"completed"}) THEN "completed"
  ELSE IF Emitted(es, FailedEvents) THEN "failed"
  ELSE IF Emitted(es, {"started"}) THEN "running"
  ELSE IF Emitted(es, {"queued"}) THEN "queued"
  ELSE "idle"

Lifecycle == INSTANCE SubRunLifecycle
  WITH Child  <- Delegate,
       turn   <- Task,
       limit  <- limit,
       status <- [i \in Delegate |-> StatusOf(published[i])],
       open   <- handle = "running"

\* What a stream reports follows the sub-run lifecycle.
ReportsLifecycle == Lifecycle!Spec

\* The wave always settles, whatever fails, is cancelled or times out.
WaveSettles == <>(wave # "open")

-----------------------------------------------------------------------------
(* What the documentation says                                             *)

\* docs/developer-usage.md: onSubRunComplete does not fire for a failed
\* sub-run: its event log never gets a sub-run-completed event.
FailedNeverCompletes ==
  \A i \in Task : ~(Emitted(log[i], {"completed"}) /\ Emitted(log[i], FailedEvents))

\* docs/recursive-coordination-reference.md: a started child of an aborted
\* stream is reported failed when it is drained.
DrainedIsReported ==
  handle = "closed" =>
    \A i \in Task : Emitted(published[i], {"started"}) => Emitted(published[i], TerminalEvents)

\* CHANGELOG.md: abort mode rethrows the last real child failure by event order.
AbortRethrowsLastFailure ==
  wave = "aborted" => trigger = lastFailed
=============================================================================
