---------------------------- MODULE StreamHandle ----------------------------
(***************************************************************************)
(* The handle stream() returns: the engine run behind it, its subscribers, *)
(* the asynchronous iterator, cancel(), the timeout timer and the result   *)
(* promise.                                                                *)
(*                                                                         *)
(* Subscribers are called synchronously, so a callback can call cancel(),  *)
(* subscribe() and unsubscribe() in the middle of publish(), of a replay,  *)
(* of cancelRun() or of the end of execute().  `stack' holds the calls in  *)
(* progress, innermost first; it is empty when the event loop is free.     *)
(* An event is known by its index in `emitted'.                            *)
(***************************************************************************)
EXTENDS Naturals, FiniteSets, SequencesExt

CONSTANTS
  Subscriber,   (* subscriber functions, each attached at most once        *)
  MaxTurns,     (* bound on the events the engine emits                    *)
  HasTimeout,   (* a budget or termination timeout is configured           *)
  MaxReentrant  (* bound on the calls callbacks make into the handle       *)

ASSUME ConstantsAssumption ==
  /\ IsFiniteSet(Subscriber)
  /\ MaxTurns \in Nat
  /\ HasTimeout \in BOOLEAN
  /\ MaxReentrant \in Nat

VARIABLES
  status,       (* the handle's status                                     *)
  complete,     (* the stream is closed                                    *)
  emitted,      (* kinds of emittedEvents                                  *)
  subs,         (* the set of subscribers in insertion order               *)
  attached,     (* "no", "yes", "gone": what a subscriber has called       *)
  received,     (* indices of the events each subscriber was called with   *)
  pending,      (* pendingEvents                                           *)
  waiting,      (* a next() call waits in pendingResolvers                 *)
  iterated,     (* what the consumer of the iterator got                   *)
  ended,        (* the iterator reported done                              *)
  stack,        (* synchronous calls in progress                           *)
  exec,         (* where execute() stands                                  *)
  thrown,       (* error class execute() is about to catch                 *)
  signal,       (* abort reason: "none", "aborted" or "timeout"            *)
  timer,        (* the timeout timer is armed                              *)
  result,       (* the result promise                                      *)
  reentered     (* history: number of calls callbacks made                 *)

log      == <<emitted, subs, attached, received>>
iterator == <<pending, waiting, iterated, ended>>
run      == <<exec, thrown, signal, timer>>

vars == <<status, complete, log, iterator, stack, run, result, reentered>>

Kinds == {"turn", "drained", "aborted", "error", "final"}

Frame(proc, step, event, seen) ==
  [proc |-> proc, step |-> step, event |-> event, seen |-> seen]

Top  == Head(stack)
Rest == Tail(stack)
Free == stack = <<>>

\* The code of a subscriber runs.
InCallback ==
  /\ ~Free
  /\ \/ Top.proc = "publish" /\ Top.seen # {}
     \/ Top.proc = "replay" /\ Top.event > 0

\* The caller's code runs, between two steps of the runtime or in a callback.
UserCode ==
  \/ Free /\ UNCHANGED reentered
  \/ InCallback /\ reentered < MaxReentrant /\ reentered' = reentered + 1

Init ==
  /\ status = "running"
  /\ complete = FALSE
  /\ emitted = <<>>
  /\ subs = <<>>
  /\ attached = [s \in Subscriber |-> "no"]
  /\ received = [s \in Subscriber |-> <<>>]
  /\ pending = <<>>
  /\ waiting = FALSE
  /\ iterated = <<>>
  /\ ended = FALSE
  /\ stack = <<>>
  /\ exec = "run"
  /\ thrown = "none"
  /\ signal = "none"
  /\ timer = HasTimeout
  /\ result = "pending"
  /\ reentered = 0

-----------------------------------------------------------------------------
(* publish() and closeStream()                                             *)

\* Call publish(kind) with `callers' below it on the stack.
Publish(kind, callers) ==
  IF complete
  THEN stack' = callers /\ UNCHANGED emitted
  ELSE /\ emitted' = Append(emitted, kind)
       /\ stack' = <<Frame("publish", "deliver", Len(emitted) + 1, {})>> \o callers

\* Positions of the subscribers the innermost publish() has yet to call: the set is
\* iterated in insertion order, and what is added or deleted meanwhile counts.
Unseen == {k \in DOMAIN subs : subs[k] \notin Top.seen}

\* The subscriber that it calls next.
IsNext(s) == \E k \in Unseen : s = subs[k] /\ \A j \in Unseen : k <= j

\* Mutant: the subscriber is called with the event that comes next.
Deliver_Late ==
  /\ ~Free /\ Top.proc = "publish"
  /\ \E s \in Subscriber :
       /\ IsNext(s)
       /\ received' = [received EXCEPT ![s] = Append(@, Top.event + 1)]
       /\ stack' = <<Frame("publish", Top.step, Top.event, Top.seen \cup {s})>> \o Rest
  /\ UNCHANGED <<status, complete, emitted, subs, attached, iterator, run, result, reentered>>

Deliver ==
  /\ ~Free /\ Top.proc = "publish"
  /\ \E s \in Subscriber :
       /\ IsNext(s)
       /\ received' = [received EXCEPT ![s] = Append(@, Top.event)]
       /\ stack' = <<Frame("publish", Top.step, Top.event, Top.seen \cup {s})>> \o Rest
  /\ UNCHANGED <<status, complete, emitted, subs, attached, iterator, run, result, reentered>>

\* Mutant: the event goes to the waiting consumer and to the queue.
HandOver_Both ==
  /\ ~Free /\ Top.proc = "publish" /\ Unseen = {}
  /\ stack' = Rest
  /\ iterated' = IF waiting THEN Append(iterated, Top.event) ELSE iterated
  /\ waiting' = FALSE
  /\ pending' = Append(pending, Top.event)
  /\ UNCHANGED <<status, complete, log, ended, run, result, reentered>>

\* The end of publish(): the waiting consumer or the queue gets the event.
HandOver ==
  /\ ~Free /\ Top.proc = "publish" /\ Unseen = {}
  /\ stack' = Rest
  /\ IF waiting
     THEN /\ iterated' = Append(iterated, Top.event)
          /\ waiting' = FALSE
          /\ UNCHANGED pending
     ELSE pending' = Append(pending, Top.event) /\ UNCHANGED <<iterated, waiting>>
  /\ UNCHANGED <<status, complete, log, ended, run, result, reentered>>

\* closeStream(): drop the timer and the subscribers, end a waiting consumer.
Close ==
  IF complete
  THEN UNCHANGED <<complete, timer, subs, ended, waiting>>
  ELSE /\ complete' = TRUE
       /\ timer' = FALSE
       /\ subs' = <<>>
       /\ ended' = (ended \/ waiting)
       /\ waiting' = FALSE

\* The first settlement of the promise counts.
SettleResult(outcome) == result' = IF result = "pending" THEN outcome ELSE result

-----------------------------------------------------------------------------
(* The subscribers and the consumer                                        *)

\* Mutant: only live events are delivered.
Subscribe_NoReplay(s) ==
  /\ UserCode
  /\ attached[s] = "no"
  /\ attached' = [attached EXCEPT ![s] = "yes"]
  /\ subs' = Append(subs, s)
  /\ UNCHANGED <<status, complete, emitted, received, iterator, stack, run, result>>

Subscribe(s) ==
  /\ UserCode
  /\ attached[s] = "no"
  /\ attached' = [attached EXCEPT ![s] = "yes"]
  /\ subs' = Append(subs, s)
  /\ stack' = <<Frame("replay", "deliver", 0, {s})>> \o stack
  /\ UNCHANGED <<status, complete, emitted, received, iterator, run, result>>

\* subscribe() calls the new subscriber with what was emitted so far.
Replay ==
  /\ ~Free /\ Top.proc = "replay"
  /\ IF Top.event < Len(emitted)
     THEN /\ stack' = <<Frame("replay", Top.step, Top.event + 1, Top.seen)>> \o Rest
          /\ received' = [s \in Subscriber |->
               IF s \in Top.seen THEN Append(received[s], Top.event + 1) ELSE received[s]]
     ELSE stack' = Rest /\ UNCHANGED received
  /\ UNCHANGED <<status, complete, emitted, subs, attached, iterator, run, result, reentered>>

Unsubscribe(s) ==
  /\ UserCode
  /\ attached[s] = "yes"
  /\ attached' = [attached EXCEPT ![s] = "gone"]
  /\ subs' = IF \E k \in DOMAIN subs : subs[k] = s
             THEN RemoveAt(subs, CHOOSE k \in DOMAIN subs : subs[k] = s)
             ELSE subs
  /\ UNCHANGED <<status, complete, emitted, received, iterator, stack, run, result>>

\* A for-await loop over the handle: one next() call at a time.
ConsumerNext ==
  /\ Free /\ ~waiting /\ ~ended
  /\ IF pending # <<>>
     THEN /\ iterated' = Append(iterated, Head(pending))
          /\ pending' = Tail(pending)
          /\ UNCHANGED <<waiting, ended>>
     ELSE /\ ended' = complete
          /\ waiting' = ~complete
          /\ UNCHANGED <<iterated, pending>>
  /\ UNCHANGED <<status, complete, log, stack, run, result, reentered>>

-----------------------------------------------------------------------------
(* cancelRun(): abort, drain, publish aborted and error, close, reject     *)

Cancel ==
  /\ UserCode
  /\ status = "running"
  /\ signal' = IF signal = "none" THEN "aborted" ELSE signal
  /\ stack' = <<Frame("cancel", "drain", 0, {})>> \o stack
  /\ UNCHANGED <<status, complete, log, iterator, exec, thrown, timer, result>>

To(step) == <<Frame(Top.proc, step, Top.event, Top.seen)>> \o Rest

At(proc, step) == ~Free /\ Top.proc = proc /\ Top.step = step

\* The abort drain emits an event for each open child; here one or none.
CancelDrain ==
  /\ At("cancel", "drain")
  /\ \/ stack' = To("aborted") /\ UNCHANGED emitted
     \/ status = "running" /\ Publish("drained", To("aborted"))
  /\ UNCHANGED <<status, complete, subs, attached, received, iterator, run, result, reentered>>

CancelReport ==
  /\ \/ At("cancel", "aborted") /\ Publish("aborted", To("error"))
     \/ At("cancel", "error") /\ Publish("error", To("close"))
  /\ UNCHANGED <<status, complete, subs, attached, received, iterator, run, result, reentered>>

CancelClose ==
  /\ At("cancel", "close")
  /\ status' = "cancelled"
  /\ Close
  /\ SettleResult("cancelled")
  /\ stack' = Rest
  /\ UNCHANGED <<emitted, attached, received, pending, iterated, exec, thrown, signal, reentered>>

-----------------------------------------------------------------------------
(* execute()                                                               *)

TurnsEmitted == Cardinality({k \in DOMAIN emitted : emitted[k] = "turn"})

\* The engine emits an event; after the run has ended it still may, and the
\* handle drops it.
EngineEmit ==
  /\ Free
  /\ status = "running"
  /\ exec \in {"run", "threw", "over"}
  /\ TurnsEmitted < MaxTurns
  /\ Publish("turn", <<>>)
  /\ UNCHANGED <<status, complete, subs, attached, received, iterator, run, result, reentered>>

TimeoutFires ==
  /\ Free
  /\ timer
  /\ timer' = FALSE
  /\ signal' = IF signal = "none" THEN "timeout" ELSE signal
  /\ UNCHANGED <<status, complete, log, iterator, stack, exec, thrown, result, reentered>>

\* The awaited operation, runProtocol() or the evaluator, settles the race.
OperationReturns ==
  /\ Free
  /\ signal = "none"
  /\ \/ exec = "run" /\ exec' = "ran"
     \/ exec = "evaluate" /\ exec' = "evaluated"
  /\ UNCHANGED <<status, complete, log, iterator, stack, thrown, signal, timer, result, reentered>>

\* It throws: a failure of its own, which may be of class aborted or timeout.
OperationThrows ==
  /\ Free
  /\ signal = "none"
  /\ exec \in {"run", "evaluate"}
  /\ exec' = "threw"
  /\ thrown' \in {"error", "aborted", "timeout"}
  /\ UNCHANGED <<status, complete, log, iterator, stack, signal, timer, result, reentered>>

\* Mutant: only a cancel wins over the operation, not the timeout.
AbortWins_CancelOnly ==
  /\ Free
  /\ signal = "aborted"
  /\ exec \in {"run", "evaluate"}
  /\ exec' = "threw"
  /\ thrown' = signal
  /\ UNCHANGED <<status, complete, log, iterator, stack, signal, timer, result, reentered>>

\* The abort race: the signal wins over an operation still under way.
AbortWins ==
  /\ Free
  /\ signal # "none"
  /\ exec \in {"run", "evaluate"}
  /\ exec' = "threw"
  /\ thrown' = signal
  /\ UNCHANGED <<status, complete, log, iterator, stack, signal, timer, result, reentered>>

\* Mutant: execute() does not see that the handle was cancelled.
Catch_IgnoresCancel(error) ==
  /\ exec' = "over"
  /\ LET e == IF signal = "timeout" THEN "timeout" ELSE error
     IN  /\ status' = IF e = "aborted" THEN "cancelled" ELSE "failed"
         /\ stack' = <<Frame("fail", IF e = "error" THEN "error" ELSE "aborted", 0, {})>>

\* The catch block: the status comes first, so that the abort drain that
\* follows emits nothing; then aborted, for an abort or a timeout, and error.
Catch(error) ==
  /\ exec' = "over"
  /\ IF status = "cancelled"
     THEN UNCHANGED <<status, stack>>
     ELSE LET e == IF signal = "timeout" THEN "timeout" ELSE error
          IN  /\ status' = IF e = "aborted" THEN "cancelled" ELSE "failed"
              /\ stack' = <<Frame("fail", IF e = "error" THEN "error" ELSE "aborted", 0, {})>>

CatchThrown ==
  /\ Free
  /\ exec = "threw"
  /\ Catch(thrown)
  /\ UNCHANGED <<complete, log, iterator, thrown, signal, timer, result, reentered>>

\* execute() resumes with the engine's result: it may turn into a terminal
\* throw; an abort that came meanwhile wins; else the evaluator is called.
ResumeRan ==
  /\ Free
  /\ exec = "ran"
  /\ IF status # "running"
     THEN exec' = "over" /\ UNCHANGED <<status, stack>>
     ELSE \/ \E e \in {"error", "timeout"} : Catch(e)
          \/ signal # "none" /\ Catch(signal)
          \/ signal = "none" /\ exec' = "evaluate" /\ UNCHANGED <<status, stack>>
  /\ UNCHANGED <<complete, log, iterator, thrown, signal, timer, result, reentered>>

\* Mutant: the final event is not published.
ResumeEvaluated_NoFinal ==
  /\ Free
  /\ exec = "evaluated"
  /\ exec' = "over"
  /\ stack' = IF status = "running" THEN <<Frame("finish", "settle", 0, {})>> ELSE stack
  /\ UNCHANGED <<status, complete, log, iterator, thrown, signal, timer, result, reentered>>

ResumeEvaluated ==
  /\ Free
  /\ exec = "evaluated"
  /\ exec' = "over"
  /\ IF status # "running"
     THEN UNCHANGED <<stack, emitted>>
     ELSE Publish("final", <<Frame("finish", "settle", 0, {})>>)
  /\ UNCHANGED <<status, complete, subs, attached, received, iterator, thrown, signal, timer,
                 result, reentered>>

Finish ==
  /\ At("finish", "settle")
  /\ status' = "completed"
  /\ Close
  /\ SettleResult("resolved")
  /\ stack' = Rest
  /\ UNCHANGED <<emitted, attached, received, pending, iterated, exec, thrown, signal, reentered>>

FailReport ==
  /\ \/ At("fail", "aborted") /\ Publish("aborted", To("error"))
     \/ At("fail", "error") /\ Publish("error", To("close"))
  /\ UNCHANGED <<status, complete, subs, attached, received, iterator, run, result, reentered>>

FailClose ==
  /\ At("fail", "close")
  /\ Close
  /\ SettleResult("rejected")
  /\ stack' = Rest
  /\ UNCHANGED <<status, emitted, attached, received, pending, iterated, exec, thrown, signal,
                 reentered>>

-----------------------------------------------------------------------------
\* What the runtime does by itself: synchronous code, queued continuations.
Internal ==
  \/ Deliver \/ HandOver \/ Replay
  \/ CancelDrain \/ CancelReport \/ CancelClose
  \/ AbortWins \/ CatchThrown \/ ResumeRan \/ ResumeEvaluated
  \/ Finish \/ FailReport \/ FailClose

External ==
  \/ EngineEmit \/ OperationReturns \/ OperationThrows
  \/ Cancel \/ \E s \in Subscriber : Subscribe(s) \/ Unsubscribe(s)

\* The stream is over; its handle stays as it is.
Finished == Free /\ ended /\ exec = "over" /\ UNCHANGED vars

Next == Internal \/ External \/ TimeoutFires \/ ConsumerNext \/ Finished

Spec == Init /\ [][Next]_vars

\* Code on the stack and queued continuations run, timers fire, and a for-await
\* loop keeps asking.  Nothing is assumed of the engine, its providers or the
\* evaluator: they may never answer.
Fairness == WF_vars(Internal) /\ WF_vars(TimeoutFires) /\ WF_vars(ConsumerNext)

FairSpec == Spec /\ Fairness
-----------------------------------------------------------------------------
(* Properties                                                              *)

\* Every variable stays in its domain; only events that were emitted reach a
\* subscriber, the queue or the consumer.
TypeOK ==
  /\ status \in {"running", "completed", "failed", "cancelled"}
  /\ complete \in BOOLEAN
  /\ emitted \in Seq(Kinds)
  /\ subs \in Seq(Subscriber)
  /\ attached \in [Subscriber -> {"no", "yes", "gone"}]
  /\ received \in [Subscriber -> Seq(1..Len(emitted))]
  /\ pending \in Seq(1..Len(emitted))
  /\ waiting \in BOOLEAN
  /\ iterated \in Seq(1..Len(emitted))
  /\ ended \in BOOLEAN
  /\ stack \in Seq([proc : {"publish", "replay", "cancel", "finish", "fail"},
                    step : {"deliver", "drain", "aborted", "error", "close", "settle"},
                    event : 0..Len(emitted), seen : SUBSET Subscriber])
  /\ exec \in {"run", "ran", "evaluate", "evaluated", "threw", "over"}
  /\ thrown \in {"none", "error", "aborted", "timeout"}
  /\ signal \in {"none", "aborted", "timeout"}
  /\ timer \in BOOLEAN
  /\ result \in {"pending", "resolved", "rejected", "cancelled"}
  /\ reentered \in 0..MaxReentrant

AllEvents == [k \in 1..Len(emitted) |-> k]

\* Once the event loop is free, status, result and the closed flag tell one
\* story; in particular cancel() racing a timeout, a failure or the end of the
\* run leaves no stream open, pending or of another status than its result.
SettledTogether ==
  Free =>
    /\ status = "running" <=> result = "pending"
    /\ status = "running" <=> ~complete
    /\ status = "failed" => result = "rejected"
    /\ status = "cancelled" => result \in {"cancelled", "rejected"}
    /\ reentered = 0 => (status = "completed" <=> result = "resolved")
    /\ reentered = 0 => (result = "cancelled" => status = "cancelled")

\* Unless a callback calls back into the handle, every view of the stream is
\* the same: each attached subscriber got each event once and in order however
\* late it subscribed, one that detached got a prefix, and so does the consumer.
ViewsAgree ==
  Free /\ reentered = 0 =>
    /\ \A s \in Subscriber :
         /\ attached[s] = "yes" => received[s] = AllEvents
         /\ received[s] = SubSeq(AllEvents, 1, Len(received[s]))
    /\ iterated \o pending = AllEvents

\* Whatever callbacks do, the iterator neither loses nor repeats an event.
IteratorLosesNothing ==
  Free =>
    LET yielded == iterated \o pending
    IN  /\ Len(yielded) = Len(emitted)
        /\ \A n \in 1..Len(emitted) : \E k \in DOMAIN yielded : yielded[k] = n

\* A closed stream ended with a terminal event, final exactly when the result
\* was resolved; no terminal event came before it unless a callback cancelled.
TerminalEventLast ==
  Free /\ complete =>
    /\ emitted # <<>>
    /\ emitted[Len(emitted)] \in {"final", "error"}
    /\ emitted[Len(emitted)] = "final" <=> result = "resolved"
    /\ reentered = 0 => \A k \in 1..(Len(emitted) - 1) : emitted[k] \notin {"final", "error"}

\* A stream with a timeout settles and its consumer's loop ends, even if the
\* engine, a provider or the evaluator never answers.
StreamSettles == HasTimeout => <>(result # "pending" /\ ended)

-----------------------------------------------------------------------------
(* What the documentation says                                             *)

\* tests/streaming-api.test.ts: the status reflects cancelled after cancel().
CancelIsCancelled == Free /\ result = "cancelled" => status = "cancelled"
=============================================================================
