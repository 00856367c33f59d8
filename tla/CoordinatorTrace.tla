--------------------------- MODULE CoordinatorTrace ---------------------------
(***************************************************************************)
(* The trace of a coordinator run as its observers and replay() see it:    *)
(* the log of CoordinatorRun in the terms of Observers and Replay.         *)
(***************************************************************************)
EXTENDS CoordinatorRun

Obs == INSTANCE Observers
Rep == INSTANCE Replay

TypeOf(kind) ==
  CASE kind \in Turns                              -> "agent-turn"
    [] kind = "completed"                          -> "sub-run-completed"
    [] kind \in {"failed", "failed plain", "skipped"} -> "sub-run-failed"
    [] OTHER                                       -> kind

\* A child's cost is written down twice, in its result (or as its partial cost)
\* and in its own accounting (or trace).
TraceEvent(e) ==
  [type |-> TypeOf(e.kind), own |-> e.own, total |-> e.total,
   accounting |-> e.own, replayed |-> e.own, partial |-> e.own,
   synthetic |-> e.kind = "skipped"]

TraceEvents == [k \in DOMAIN log |-> TraceEvent(log[k])]

SavedTrace ==
  [events |-> TraceEvents, finalCost |-> totalCost, terminated |-> stopped # "no",
   triggered |-> trigger # "none",
   synthesis |-> {k \in DOMAIN log : log[k].kind = "synthesis"}]

ChildrenOwn == Rep!ChildrenCost(TraceEvents)

-----------------------------------------------------------------------------
(* Properties                                                              *)

\* Whatever ends a run, the metrics hook has counted what the coordinator has: the
\* total with the children's part, completed or failed, taken apart; the snapshot of
\* a finished run, recomputed from its result, agrees with the running count.
MetricsAgree ==
  LET seen == Obs!MetricsAfter(TraceEvents)
      told == Obs!RunSnapshot(TraceEvents, totalCost)
  IN  /\ seen.total = totalCost
      /\ seen.nested = ChildrenOwn
      /\ Obs!AbortedSnapshot(TraceEvents).own = totalCost - ChildrenOwn
      /\ phase = "returned" =>
           /\ told.own = totalCost - ChildrenOwn
           /\ told.turns = seen.turns

\* The trace of a run that resolved replays: its accounting is accepted, and no child
\* failure is thrown that the run did not throw (unless one was no DogpileError).  It
\* does not replay once the cost of a child or the final cost has been changed.
ReplayParity ==
  outcome = "resolved" =>
    /\ Rep!AccountingAccepted(SavedTrace)
    /\ (\A k \in DOMAIN log : log[k].kind # "failed plain") => ~Rep!ReplayThrows(SavedTrace)
    /\ ~Rep!AccountingAccepted([SavedTrace EXCEPT !.finalCost = @ + 1])
    /\ \A k \in DOMAIN log : log[k].kind \in Children =>
         \A cost \in Cost \ {log[k].own} :
           ~Rep!AccountingAccepted([SavedTrace EXCEPT !.events[k].own = cost])
=============================================================================
