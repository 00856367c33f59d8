------------------------------- MODULE Observers -------------------------------
(***************************************************************************)
(* What the observers of a run make of the events it emits: the metrics    *)
(* hook and the tracer, which follow the events one by one, and the health *)
(* summary and the audit record, which read a finished trace.              *)
(*                                                                         *)
(* An event is a record with its type; "total" is the cost that it bears   *)
(* (the running total of the run), "own" the cost of one response or of    *)
(* one child, "call" a provider call, "text" the tokens of an output.      *)
(***************************************************************************)
EXTENDS Naturals, Integers, Sequences, FiniteSets

CostBearing == {"agent-turn", "broadcast", "budget-stop", "final"}
ChildEnds   == {"sub-run-completed", "sub-run-failed"}

\* Where the events of a type are; they are told by their places.
At(events, type)  == {k \in DOMAIN events : events[k].type = type}
Has(events, type) == At(events, type) # {}

-----------------------------------------------------------------------------
(* Metrics                                                                 *)

NoMetrics == [total |-> 0, nested |-> 0, turns |-> 0]

\* Mutant: a failed child's cost is not counted as nested.
MetricsStep_FailedIsOwn(m, e) ==
  CASE e.type = "agent-turn" -> [m EXCEPT !.total = e.total, !.turns = @ + 1]
    [] e.type \in {"broadcast", "budget-stop", "final"} -> [m EXCEPT !.total = e.total]
    [] e.type = "sub-run-completed" ->
         [m EXCEPT !.total = @ + e.own, !.nested = @ + e.own]
    [] e.type = "sub-run-failed" -> [m EXCEPT !.total = @ + e.own]
    [] OTHER -> m

\* handleMetricsEvent: a cost-bearing event brings the running total, the end of
\* a child adds to it.
MetricsStep(m, e) ==
  CASE e.type = "agent-turn" -> [m EXCEPT !.total = e.total, !.turns = @ + 1]
    [] e.type \in {"broadcast", "budget-stop", "final"} -> [m EXCEPT !.total = e.total]
    [] e.type \in ChildEnds -> [m EXCEPT !.total = @ + e.own, !.nested = @ + e.own]
    [] OTHER -> m

\* What the hook has counted after each number of events, and at last.
MetricsUpTo(events) ==
  LET after[k \in 0..Len(events)] ==
        IF k = 0 THEN NoMetrics ELSE MetricsStep(after[k - 1], events[k])
  IN  after

MetricsAfter(events) == MetricsUpTo(events)[Len(events)]

\* closeRunMetrics for a run that did not return a result.
AbortedSnapshot(events) ==
  LET m == MetricsAfter(events)
  IN  [outcome |-> "aborted", own |-> m.total - m.nested, total |-> m.total,
       turns |-> m.turns]

\* What the children among the first events cost.
NestedUpTo(events) ==
  LET sum[k \in 0..Len(events)] ==
        IF k = 0 THEN 0
        ELSE sum[k - 1] + (IF events[k].type \in ChildEnds THEN events[k].own ELSE 0)
  IN  sum

\* buildRunSnapshot: recomputed from the result, whose cost is total.
RunSnapshot(events, total) ==
  [outcome |-> IF Has(events, "budget-stop") THEN "budget-stopped" ELSE "completed",
   own |-> total - NestedUpTo(events)[Len(events)], total |-> total,
   turns |-> Cardinality(At(events, "agent-turn"))]

-----------------------------------------------------------------------------
(* Tracing: the open spans of turns (by agent) and of provider calls, the  *)
(* cost gathered for each open turn, the costs of the turns ended, and the *)
(* cost that the run span reports if the run fails.                        *)

NoSpans == [turns |-> {}, calls |-> {}, gathered |-> <<>>, ended |-> <<>>, last |-> 0]

\* What turnAccumByAgent, a function of some agents, holds for one of them.
GatheredBy(spans, agent) ==
  IF agent \in DOMAIN spans.gathered THEN spans.gathered[agent] ELSE 0

\* The function with one more value, and without one.
With(gathered, agent, cost) ==
  [a \in DOMAIN gathered \cup {agent} |-> IF a = agent THEN cost ELSE gathered[a]]
Without(gathered, agent) == [a \in DOMAIN gathered \ {agent} |-> gathered[a]]

SpansRequest(spans, e) ==
  [spans EXCEPT !.turns = @ \cup {e.agent}, !.calls = @ \cup {e.call}]

SpansResponse(spans, e) ==
  IF e.call \in spans.calls
  THEN [spans EXCEPT !.calls = @ \ {e.call},
                     !.gathered = With(@, e.agent, GatheredBy(spans, e.agent) + e.own),
                     !.last = @ + e.own]
  ELSE spans

\* Mutant: what was gathered stays for the next turn of the agent.
SpansTurn_KeepsGathered(spans, e) ==
  [spans EXCEPT !.turns = @ \ {e.agent},
                !.ended = IF e.agent \in spans.turns
                          THEN Append(@, GatheredBy(spans, e.agent)) ELSE @,
                !.last = e.total]

SpansTurn(spans, e) ==
  [spans EXCEPT !.turns = @ \ {e.agent},
                !.ended = IF e.agent \in spans.turns
                          THEN Append(@, GatheredBy(spans, e.agent)) ELSE @,
                !.gathered = Without(@, e.agent),
                !.last = e.total]

\* handleTracingEvent
SpansStep(spans, e) ==
  CASE e.type = "model-request"  -> SpansRequest(spans, e)
    [] e.type = "model-response" -> SpansResponse(spans, e)
    [] e.type = "agent-turn"     -> SpansTurn(spans, e)
    [] e.type \in {"broadcast", "budget-stop", "final"} -> [spans EXCEPT !.last = e.total]
    [] OTHER -> spans

\* What the tracer holds after each number of events, and at last.
SpansUpTo(events) ==
  LET after[k \in 0..Len(events)] ==
        IF k = 0 THEN NoSpans ELSE SpansStep(after[k - 1], events[k])
  IN  after

SpansAfter(events) == SpansUpTo(events)[Len(events)]

\* closeOpenTracingSpans
CloseSpans(spans) == [spans EXCEPT !.turns = {}, !.calls = {}]

-----------------------------------------------------------------------------
(* Health and audit                                                        *)

AgentsOf(events) == {events[k].agent : k \in At(events, "agent-turn")}

TurnsOf(events, agent) ==
  Cardinality({k \in At(events, "agent-turn") : events[k].agent = agent})

\* computeHealth: the statistics, and the turns without a word.  Utilization of a
\* cap on cost in percent, none without the cap.
Health(events, caps, total) ==
  [totalTurns |-> Cardinality(At(events, "agent-turn")),
   agentCount |-> Cardinality(AgentsOf(events)),
   utilization |-> IF "cost" \notin DOMAIN caps THEN {}
                   ELSE IF caps["cost"] = 0 THEN {IF total = 0 THEN 0 ELSE 100}
                   ELSE {(100 * total) \div caps["cost"]},
   empty |-> Cardinality({k \in At(events, "agent-turn") : events[k].text = {}})]

\* Agents that took more turns than the threshold.
RunawayAgents(events, threshold) ==
  {a \in AgentsOf(events) : TurnsOf(events, a) > threshold}

\* The total that the first and the last event of a type bear.
FirstOf(events, type) ==
  events[CHOOSE k \in At(events, type) : \A l \in At(events, type) : k <= l].total

LastOf(events, type) ==
  IF Has(events, type)
  THEN events[CHOOSE k \in At(events, type) : \A l \in At(events, type) : l <= k].total
  ELSE 0

\* createAuditRecord
Audit(events) ==
  [status |-> IF Has(events, "budget-stop") THEN "budget-stopped"
              ELSE IF Has(events, "final") THEN "completed" ELSE "aborted",
   cost |-> IF Has(events, "final") THEN FirstOf(events, "final")
            ELSE IF Has(events, "budget-stop") THEN FirstOf(events, "budget-stop")
            ELSE LastOf(events, "agent-turn"),
   turnCount |-> Cardinality(At(events, "agent-turn")),
   agents |-> [a \in AgentsOf(events) |-> TurnsOf(events, a)]]

-----------------------------------------------------------------------------
(* What a result says of its cost                                          *)

\* createReplayTraceBudgetStateChanges: the places of the events that bear a cost; the
\* changes are in their order.
BudgetStateChanges(events) == {k \in DOMAIN events : events[k].type \in CostBearing}

\* createRunAccounting: how far the caps on cost are used, in percent; a cap of zero is
\* not used at all.
RunAccounting(caps, total) ==
  [cost |-> total,
   utilization |-> [a \in {"cost", "tokens"} \cap DOMAIN caps |->
                      IF caps[a] = 0 THEN 0 ELSE (100 * total) \div caps[a]]]

\* createReplayTraceFinalOutput is given the last event: only a final event tells
\* the cost and the length of the transcript.
FinalOutput(events, entries) ==
  IF events # <<>> /\ events[Len(events)].type = "final"
  THEN [cost |-> events[Len(events)].total, entries |-> entries]
  ELSE [cost |-> 0, entries |-> 0]

-----------------------------------------------------------------------------
(* queryEvents.  Each part of a filter is a set of at most one value; a    *)
(* range has at most one min and at most one max.                          *)

NoRange   == [min |-> {}, max |-> {}]
NoFilter  == [type |-> {}, agent |-> {}, turns |-> {}, cost |-> {}]
InRange(n, range) == (\A m \in range.min : n >= m) /\ (\A m \in range.max : n <= m)

\* The position of the k-th event among the turns of all events.
TurnPosition(events, k) == Cardinality({j \in At(events, "agent-turn") : j <= k})

\* Only turns have a position, only turns and broadcasts a cost.
Matches(events, k, filter) ==
  /\ filter.type # {}  => events[k].type \in filter.type
  /\ filter.agent # {} => events[k].agent \in filter.agent
  /\ \A range \in filter.turns :
       events[k].type = "agent-turn" /\ InRange(TurnPosition(events, k), range)
  /\ \A range \in filter.cost :
       events[k].type \in {"agent-turn", "broadcast"} /\ InRange(events[k].total, range)

\* The places of the events that a filter lets through; it keeps their order.
QueryEvents(events, filter) == {k \in DOMAIN events : Matches(events, k, filter)}
=============================================================================
