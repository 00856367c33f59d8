-------------------------------- MODULE Replay --------------------------------
(***************************************************************************)
(* replay() of a saved trace: whether its accounting is accepted, and      *)
(* whether it throws the child failure that ended the run.                 *)
(*                                                                         *)
(* A trace is a record of                                                  *)
(*   events       with type, own and total as in Observers; the end of a   *)
(*                completed child also holds the cost in the accounting of *)
(*                its result and the cost that replaying its own trace     *)
(*                yields, a failed child the last cost of its partial      *)
(*                trace, and whether the failure is synthetic,             *)
(*   finalCost    finalOutput.cost,                                        *)
(*   terminated   the final event has a termination record,                *)
(*   triggered    triggeringFailureForAbortMode is set,                    *)
(*   synthesis    the indices of events with a final-synthesis decision.   *)
(* Saved before there were events of provider calls, a trace gets them     *)
(* from its record of the calls, a sequence of [call, agent].              *)
(* The eight fields that are compared are one number; a child trace is     *)
(* judged by the same function, whose answer is the field "replayed".      *)
(***************************************************************************)
EXTENDS Naturals, Sequences, FiniteSets

Bears(e) == e.type \in {"agent-turn", "broadcast", "budget-stop", "final"}

\* lastCostBearingEventCost: {} if there is none.
LastCost(events) ==
  LET bearing == {k \in DOMAIN events : Bears(events[k])}
  IN  {events[k].total : k \in {k \in bearing : \A l \in bearing : l <= k}}

\* accumulateSubRunCost, after each number of events and at last.
ChildrenUpTo(events) ==
  LET sum[k \in 0..Len(events)] ==
        IF k = 0 THEN 0
        ELSE sum[k - 1] + (IF events[k].type \in {"sub-run-completed", "sub-run-failed"}
                           THEN events[k].own ELSE 0)
  IN  sum

ChildrenCost(events) == ChildrenUpTo(events)[Len(events)]

\* The end of a child holds its cost twice: the two must be the same.
RollUpAgrees(e) ==
  /\ e.type = "sub-run-completed" => e.accounting = e.own
  /\ e.type = "sub-run-failed"    => e.partial = e.own

ChildReplays(e) == e.type = "sub-run-completed" => e.replayed = e.accounting

\* Mutant: the two places of a child's cost are not compared.
AccountingAccepted_NoRollUp(trace) ==
  /\ LastCost(trace.events) \subseteq {trace.finalCost}
  /\ ChildrenCost(trace.events) <= trace.finalCost
  /\ \A k \in DOMAIN trace.events : ChildReplays(trace.events[k])

\* recomputeAccountingFromTrace does not throw.
AccountingAccepted(trace) ==
  /\ LastCost(trace.events) \subseteq {trace.finalCost}
  /\ \A k \in DOMAIN trace.events : RollUpAgrees(trace.events[k])
  /\ ChildrenCost(trace.events) <= trace.finalCost
  /\ \A k \in DOMAIN trace.events : ChildReplays(trace.events[k])

\* reconstructLastRealFailure: a failure that is not synthetic, 0 if none.
LastRealFailure(events) ==
  LET failures == {k \in DOMAIN events :
                     events[k].type = "sub-run-failed" /\ ~events[k].synthetic}
  IN  IF failures = {} THEN 0 ELSE CHOOSE k \in failures : \A l \in failures : l <= k

\* resolveReplayTerminalThrow
ReplayThrows(trace) ==
  \/ trace.triggered
  \/ /\ trace.terminated
     /\ LastRealFailure(trace.events) # 0
     /\ \A k \in trace.synthesis : k <= LastRealFailure(trace.events)
-----------------------------------------------------------------------------
(* Events of provider calls                                                *)

Provenance == {"model-request", "model-response"}

\* Mutant: the count of turns is raised before the call is looked up.
CallsOfTurn_Next(calls, turns) == IF turns + 2 \in DOMAIN calls THEN <<calls[turns + 2]>>
                                  ELSE <<>>

\* The call of the turn that follows so many others; there may be none.
CallsOfTurn(calls, turns) == IF turns + 1 \in DOMAIN calls THEN <<calls[turns + 1]>>
                             ELSE <<>>

CallEvent(type, call) == [type |-> type, agent |-> call.agent, call |-> call.call]

\* One event of the trace: a turn brings the request and the response of its call.
SynthesisStep(done, e, calls) ==
  IF e.type # "agent-turn" THEN [done EXCEPT !.out = Append(@, e)]
  ELSE LET of == CallsOfTurn(calls, done.turns)
       IN  [turns |-> done.turns + 1,
            out |-> done.out \o [k \in DOMAIN of |-> CallEvent("model-request", of[k])]
                             \o [k \in DOMAIN of |-> CallEvent("model-response", of[k])]
                             \o <<e>>]

\* What has been put together, and the turns seen, after each number of events.
SynthesisUpTo(events, calls) ==
  LET done[k \in 0..Len(events)] ==
        IF k = 0 THEN [turns |-> 0, out |-> <<>>]
        ELSE SynthesisStep(done[k - 1], events[k], calls)
  IN  done

\* synthesizeProviderEvents: live events are left alone, else the request and the
\* response of each turn are put before it.
Synthesize(events, calls) ==
  IF \E k \in DOMAIN events : events[k].type \in Provenance THEN events
  ELSE SynthesisUpTo(events, calls)[Len(events)].out
=============================================================================
