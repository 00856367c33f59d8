----------------------------- MODULE TurnProtocols -----------------------------
(***************************************************************************)
(* A run of the sequential, the broadcast or the shared protocol, from the *)
(* call of run() until its promise settles, and the calls that outlive it. *)
(*                                                                         *)
(* A protocol takes turns in waves.  Sequential has one agent in a wave    *)
(* and a wave for each active agent; shared has one wave of all active     *)
(* agents; broadcast has maxRounds waves of all agents.  The agents of a   *)
(* wave ask in order, within one synchronous stretch; the provider then    *)
(* answers, fails, or never reacts, in any order; an answer may ask for    *)
(* tools, which run one after the other and may never end.  A wave is      *)
(* recorded in the order of the agents once all its turns have ended       *)
(* (Promise.all) and fails with its first failure, while the other turns   *)
(* go on unobserved.                                                       *)
(*                                                                         *)
(* The signal of the run is aborted by the caller or, if there is a limit  *)
(* on time, by the timer of the run; only in the second case does run()    *)
(* race the protocol against its signal.                                   *)
(*                                                                         *)
(* Text is a set of tokens, the four counters of a cost are one number.    *)
(* The text of the final event is the set of the entries of the transcript *)
(* that the output is made of.                                             *)
(***************************************************************************)
EXTENDS Termination, Observers, Replay, Decisions, Tools, SequencesExt

CONSTANTS Configs,      \* the options of the runs, and what their providers can do
          MaxChunks,    \* bound: chunks of a streamed answer
          MaxClock      \* bound: the clock stops here

ASSUME BoundsAssumption == MaxChunks \in Nat /\ MaxClock \in Nat

\* The types of the options, which the compiler sees to.
IsCaps(caps) == DOMAIN caps \subseteq Axis /\ \A a \in DOMAIN caps : caps[a] \in Int

IsCondition(c) ==
  \/ c.kind = "budget" /\ IsCaps(c.caps)
  \/ c.kind = "convergence" /\ c.stableTurns \in Int
  \/ c.kind = "judge"

ASSUME ConfigsAssumption ==
  \A options \in Configs :
    /\ options.protocol \in {"sequential", "broadcast", "shared"}
    /\ {options.agents, options.limit, options.floor} \subseteq Int
    /\ options.terminate \in Seq(Range(options.terminate))
    /\ \A k \in DOMAIN options.terminate : IsCondition(options.terminate[k])
    /\ IsCaps(options.budget)
    /\ \A response \in options.answers :
         response.cost \in Nat /\ response.tools \in Seq(Range(response.tools))

\* What validation accepts; run() is not reached with other options.
ValidCaps(caps) == \A a \in DOMAIN caps : caps[a] >= 0

ValidCondition(c) ==
  CASE c.kind = "budget"      -> ValidCaps(c.caps)
    [] c.kind = "convergence" -> c.stableTurns >= 1 /\ c.minSimilarity \in 0..100
    [] c.kind = "judge"       -> c.minScore \in 0..100

ValidHint(hint) ==
  /\ \A n \in hint.atIteration : n >= 0
  /\ hint.atFraction \subseteq 0..100

Accepted(options) ==
  /\ options.agents >= 1 /\ options.limit >= 1 /\ options.floor >= 0
  /\ ValidCaps(options.budget)
  /\ \A k \in DOMAIN options.terminate : ValidCondition(options.terminate[k])
  /\ ValidHint(options.hint)

VARIABLES
  conf,           \* options; conf.answers is what the provider may answer
  phase,          \* where the protocol is
  round,          \* waves recorded
  call,           \* agent -> state of its turn in the current wave
  reply,          \* agent -> its response
  toolsLeft,      \* agent -> tool requests of the response without a result
  toolResult,     \* agent -> result of the first of them, to be announced
  chunks,         \* agent -> chunks of the answer so far
  events,         \* events of the run
  decisions,      \* protocolDecisions of the trace
  transcript,     \* agent, text and decision of each turn
  providerCalls,  \* calls recorded in the trace
  totalCost,
  termination,    \* the stop record, or Continue
  hinted,         \* the wrap-up hint has been injected
  clock,          \* elapsed time
  aborted,        \* the signal of the run is aborted
  settled         \* the promise that run() returned: "no", "resolved", "rejected"

vars == <<conf, phase, round, call, reply, toolsLeft, toolResult, chunks, events, decisions,
          transcript, providerCalls, totalCost, termination, hinted, clock, aborted, settled>>

-----------------------------------------------------------------------------
(* Options                                                                 *)

Least(m, n) == IF m <= n THEN m ELSE n

Agents     == 1..conf.agents
Conditions == EffectiveConditions(conf.terminate, conf.budget)
Caps       == EffectiveBudget(conf.budget, Conditions)
\* A limit on time starts the timer of the run, and the race with it.
Raced      == "timeout" \in DOMAIN Caps
Parallel   == conf.protocol # "sequential"

\* maxTurns cuts the list of agents; broadcast has all of them.
ActiveAgents ==
  IF conf.protocol = "broadcast" THEN Agents ELSE 1..Least(conf.agents, conf.limit)

Waves == CASE conf.protocol = "sequential" -> Cardinality(ActiveAgents)
           [] conf.protocol = "shared"     -> 1
           [] conf.protocol = "broadcast"  -> conf.limit

Wave == IF Parallel THEN ActiveAgents ELSE {round + 1}

-----------------------------------------------------------------------------
(* Events                                                                  *)

Nothing    == [delegate |-> {}, fields |-> {}, participation |-> "none"]
NoResponse == [text |-> {}, output |-> Nothing, cost |-> 0, tools |-> <<>>]

\* An event of agent a (0: of none) for provider call or tool call c (0: of none).
Event(type, a, c, own, text, hint) ==
  [type |-> type, agent |-> a, call |-> c, own |-> own, total |-> totalCost,
   text |-> text, at |-> clock, hint |-> hint]

Plain(type, a) == Event(type, a, 0, 0, {}, FALSE)

\* Mutant: parallel calls take the next free number of the trace.
CallId_NextFree(a) == Len(providerCalls) + 1

\* The number of a's provider call: slots are handed out before any answer.
CallId(a) == IF Parallel THEN Len(providerCalls) + a ELSE Len(providerCalls) + 1

SequentialProgress == Len(transcript)
SharedProgress     == Len(transcript)
BroadcastProgress  == Cardinality({k \in DOMAIN events : events[k].type = "broadcast"})

\* The context of stop decisions and of the hint.  No protocol asks a judge.
Context ==
  [observed |-> [a \in Axis |-> CASE a \in {"cost", "tokens"} -> totalCost
                                  [] a = "iterations"         -> Len(transcript)
                                  [] a = "timeout"            -> clock],
   progress |-> CASE conf.protocol = "sequential" -> SequentialProgress
                  [] conf.protocol = "shared"     -> SharedProgress
                  [] conf.protocol = "broadcast"  -> BroadcastProgress,
   floor    |-> conf.floor,
   outputs  |-> [k \in DOMAIN transcript |-> transcript[k].text],
   verdicts |-> {}]

-----------------------------------------------------------------------------
Init ==
  /\ conf \in {options \in Configs : Accepted(options)}
  /\ phase = "setup" /\ round = 0
  /\ call = [a \in Agents |-> "idle"]
  /\ reply = [a \in Agents |-> NoResponse]
  /\ toolsLeft = [a \in Agents |-> <<>>]
  /\ toolResult = [a \in Agents |-> "none"]
  /\ chunks = [a \in Agents |-> 0]
  /\ events = <<>> /\ decisions = <<>> /\ transcript = <<>> /\ providerCalls = <<>>
  /\ totalCost = 0 /\ termination = Continue
  /\ hinted = FALSE /\ clock = 0 /\ aborted = FALSE /\ settled = "no"

NotCounted == -1

\* A protocol decision: the event it is about, its turn (0: none), and how many entries
\* the transcript had.
Decision(index, e, turn, entries) ==
  [index |-> index, type |-> e.type, turn |-> turn, entries |-> entries]

\* An event that the trace keeps no decision about, and one that it does.
Emit(e) == events' = Append(events, e) /\ UNCHANGED decisions

EmitAndRecord(e, entries) ==
  /\ events' = Append(events, e)
  /\ decisions' = Append(decisions, Decision(Len(events) + 1, e, 0, entries))

\* The protocol throws; the promise rejects unless the race was faster.
Throws ==
  /\ phase' = "over"
  /\ settled' = IF settled = "no" THEN "rejected" ELSE settled

WaveVars == <<call, reply, toolsLeft, toolResult, chunks>>
RunVars  == <<transcript, providerCalls, totalCost>>
Tooling  == <<toolsLeft, toolResult>>
Log      == <<events, decisions>>

\* throwIfAborted in a step of the protocol itself.
ThrowsIfAborted ==
  /\ aborted /\ Throws
  /\ UNCHANGED <<conf, round, WaveVars, Log, RunVars, termination, hinted, clock,
                 aborted>>

\* The roles are assigned before the first turn.
Start ==
  /\ phase = "setup" /\ ~aborted
  /\ phase' = "check"
  /\ events' = [k \in ActiveAgents |-> Plain("role-assignment", k)]
  /\ decisions' = [k \in ActiveAgents |-> Decision(k, events'[k], 0, NotCounted)]
  /\ UNCHANGED <<conf, round, WaveVars, RunVars, termination, hinted, clock, aborted,
                 settled>>

\* stopIfNeeded, emitBudgetStop
StopIfNeeded ==
  /\ termination' = EvaluateTerminationStop(Conditions, Context)
  /\ IF termination'.stop /\ termination'.reason = "budget"
     THEN EmitAndRecord(Plain("budget-stop", 0), Len(transcript)) ELSE UNCHANGED Log

\* Before the first wave and after each: a stop, the next wave, or the end.
Check ==
  /\ phase = "check" /\ ~aborted
  /\ StopIfNeeded
  /\ phase' = IF termination'.stop \/ round = Waves THEN "output" ELSE "ask"
  /\ call' = [a \in Agents |-> "idle"]
  /\ UNCHANGED <<conf, round, reply, Tooling, chunks, RunVars, hinted, clock, aborted,
                 settled>>

-----------------------------------------------------------------------------
(* A turn                                                                  *)

\* Mutant: the controller forgets that it has injected the hint.
Inject_Always(hint) == hint /\ UNCHANGED hinted

\* wrapUpHint.inject: at most once in a run.
Inject(hint) == hint = (~hinted /\ ShouldInject(conf.hint, Caps, Context.observed))
                /\ hinted' = (hinted \/ hint)

\* generateModelTurn until it waits for the provider.  The hint is decided before
\* the abort is noticed.
Ask(a) ==
  /\ phase = "ask" /\ a \in Wave /\ call[a] = "idle"
  /\ \A b \in Wave : b < a => call[b] # "idle"
  /\ \E hint \in BOOLEAN :
       /\ Inject(hint)
       /\ IF aborted
          THEN call' = [call EXCEPT ![a] = "failed"] /\ UNCHANGED Log
          ELSE /\ call' = [call EXCEPT ![a] = "called"]
               /\ Emit(Event("model-request", a, CallId(a), 0, {}, hint))
  /\ chunks' = [chunks EXCEPT ![a] = 0]
  /\ phase' = IF \A b \in Wave : b <= a THEN "turns" ELSE phase
  /\ UNCHANGED <<conf, round, reply, Tooling, RunVars, termination, clock, aborted,
                 settled>>

TurnsGoOn == phase \in {"turns", "over"}

\* A chunk of a streamed answer, dropped with the call if the run is aborted.
Chunk(a) ==
  /\ TurnsGoOn /\ call[a] = "called" /\ conf.streams /\ chunks[a] < MaxChunks
  /\ IF aborted
     THEN call' = [call EXCEPT ![a] = "failed"] /\ UNCHANGED <<Log, chunks>>
     ELSE /\ Emit(Plain("model-output-chunk", a))
          /\ chunks' = [chunks EXCEPT ![a] = @ + 1]
          /\ UNCHANGED call
  /\ UNCHANGED <<conf, phase, round, reply, Tooling, RunVars, termination, hinted, clock,
                 aborted, settled>>

\* The number that the latest such event of a bears.
LatestCall(type, a) ==
  LET such == {k \in DOMAIN events : events[k].type = type /\ events[k].agent = a}
  IN  events[CHOOSE k \in such : \A l \in such : l <= k].call

\* The number under which a asked.
AskedAs(a) == LatestCall("model-request", a)

RecordedCall(a) == [call |-> AskedAs(a), agent |-> a]

\* Mutant: an answer that comes after the abort still counts.
AnswerCounts_Always == TRUE

AnswerCounts == ~aborted

\* What the answer of an agent decides; its delegations are parsed without a context.
DecisionOf(response) == ParseDecision(response.output, NoContext)

\* recordProviderCall, then the decision is parsed: a malformed delegate block
\* throws.  The sequential protocol counts the cost and the call at once.
Answer(a) ==
  /\ TurnsGoOn /\ call[a] = "called"
  /\ \E response \in conf.answers :
       IF AnswerCounts
       THEN /\ call' = [call EXCEPT ![a] = IF DecisionOf(response).kind = "invalid"
                                           THEN "failed" ELSE "answered"]
            /\ reply' = [reply EXCEPT ![a] = response]
            /\ toolsLeft' = [toolsLeft EXCEPT ![a] = response.tools]
            /\ Emit(Event("model-response", a, AskedAs(a), response.cost, response.text,
                          FALSE))
            /\ IF Parallel THEN UNCHANGED <<providerCalls, totalCost>>
               ELSE /\ providerCalls' = Append(providerCalls, RecordedCall(a))
                    /\ totalCost' = totalCost + response.cost
       ELSE /\ call' = [call EXCEPT ![a] = "failed"]
            /\ UNCHANGED <<reply, toolsLeft, Log, providerCalls, totalCost>>
  /\ UNCHANGED <<conf, phase, round, toolResult, chunks, transcript, termination, hinted, clock, aborted,
                 settled>>

\* The provider rejects, for a reason of its own or because of the abort.
ProviderFails(a) ==
  /\ TurnsGoOn /\ call[a] = "called"
  /\ call' = [call EXCEPT ![a] = "failed"]
  /\ UNCHANGED <<conf, phase, round, reply, Tooling, chunks, Log, RunVars, termination,
                 hinted, clock, aborted, settled>>

Request(a) == Head(toolsLeft[a])

\* Tool calls are numbered in the order in which they are announced.
ToolCallId == Cardinality({k \in DOMAIN events : events[k].type = "tool-call"}) + 1

\* executor.execute: the call is announced, its input is checked and its execution
\* begun.  Nothing here looks at the signal, unless the tool does.
UseTool(a) ==
  /\ TurnsGoOn /\ call[a] = "answered" /\ toolsLeft[a] # <<>>
  /\ EmitAndRecord(Event("tool-call", a, ToolCallId, 0, {}, FALSE), NotCounted)
  /\ LET immediate == Immediate(Request(a), aborted)
     IN  IF CheckThrows(Request(a))
         THEN call' = [call EXCEPT ![a] = "failed"] /\ UNCHANGED toolResult
         ELSE IF immediate = {}
         THEN call' = [call EXCEPT ![a] = "tool"] /\ UNCHANGED toolResult
         ELSE /\ call' = [call EXCEPT ![a] = "tool-ended"]
              /\ \E code \in immediate : toolResult' = [toolResult EXCEPT ![a] = code]
  /\ UNCHANGED <<conf, phase, round, reply, toolsLeft, chunks, RunVars, termination, hinted,
                 clock, aborted, settled>>

ToolEndsWith(a, code) ==
  /\ TurnsGoOn /\ call[a] = "tool"
  /\ call' = [call EXCEPT ![a] = "tool-ended"]
  /\ toolResult' = [toolResult EXCEPT ![a] = code]
  /\ UNCHANGED <<conf, phase, round, reply, toolsLeft, chunks, Log, RunVars, termination,
                 hinted, clock, aborted, settled>>

\* The execution comes to its end; that of a sandbox that was cut short does not count.
ToolEnds(a) ==
  /\ call[a] = "tool" /\ ~(StopsOnAbort(Request(a)) /\ aborted)
  /\ \E end \in Request(a).ends : ToolEndsWith(a, ResultOf(Request(a), end))

\* executeSandboxWithPolicy: the listener of the signal, and the timer.
ToolIsAborted(a) ==
  call[a] = "tool" /\ StopsOnAbort(Request(a)) /\ aborted /\ ToolEndsWith(a, "aborted")

ToolTimesOut(a) ==
  call[a] = "tool" /\ HasLimit(Request(a)) /\ ~aborted /\ ToolEndsWith(a, "timeout")

\* The number of the tool call that a waits for.
ToolCalledAs(a) == LatestCall("tool-call", a)

\* The result is announced, be it an error.
ToolReturns(a) ==
  /\ TurnsGoOn /\ call[a] = "tool-ended"
  /\ call' = [call EXCEPT ![a] = "answered"]
  /\ toolsLeft' = [toolsLeft EXCEPT ![a] = Tail(@)]
  /\ EmitAndRecord(Event("tool-result", a, ToolCalledAs(a), 0, {toolResult[a]}, FALSE),
                   NotCounted)
  /\ UNCHANGED <<conf, phase, round, reply, toolResult, chunks, RunVars, termination, hinted,
                 clock, aborted, settled>>

\* The abort is noticed once more after the tools.
TurnEnds(a) ==
  /\ TurnsGoOn /\ call[a] = "answered" /\ toolsLeft[a] = <<>>
  /\ call' = [call EXCEPT ![a] = IF aborted THEN "failed" ELSE "done"]
  /\ UNCHANGED <<conf, phase, round, reply, Tooling, chunks, Log, RunVars, termination,
                 hinted, clock, aborted, settled>>

-----------------------------------------------------------------------------
(* The end of a wave                                                       *)

WaveDone == phase = "turns" /\ \A a \in Wave : call[a] = "done"

\* Promise.all rejects with the first failure; the other turns are not stopped.
WaveFails ==
  /\ phase = "turns" /\ \E a \in Wave : call[a] = "failed"
  /\ Throws
  /\ UNCHANGED <<conf, round, WaveVars, Log, RunVars, termination, hinted, clock,
                 aborted>>

TurnEvent(a, total) ==
  [Plain("agent-turn", a) EXCEPT !.total = total, !.text = reply[a].text]

\* Mutant: the index of the agent, which starts at zero.
Entry_ZeroBased(a) ==
  [agent |-> a - 1, text |-> reply[a].text, decision |-> DecisionOf(reply[a])]

Entry(a) == [agent |-> a, text |-> reply[a].text, decision |-> DecisionOf(reply[a])]

\* The decision about a turn counts its entry, that about a round all of its turns.
RecordWave(turns, total, extra) ==
  /\ events' = events \o turns \o extra
  /\ LET count == Len(transcript)
     IN  decisions' =
           decisions
           \o [k \in DOMAIN turns |-> Decision(Len(events) + k, turns[k], count + k, count + k)]
           \o [k \in DOMAIN extra |-> Decision(Len(events) + Len(turns) + k, extra[k], 0,
                                               count + Len(turns))]
  /\ totalCost' = total
  /\ transcript' = transcript \o [k \in DOMAIN turns |-> Entry(turns[k].agent)]
  /\ round' = round + 1 /\ phase' = "check"
  /\ UNCHANGED <<conf, WaveVars, termination, hinted, clock, aborted, settled>>

\* The cost of the answers of the first n agents.
CostUpTo[n \in 0..conf.agents] ==
  IF n = 0 THEN 0 ELSE CostUpTo[n - 1] + reply[n].cost

\* In the order of the agents, whoever answered first.
ParallelTurns == [k \in 1..Cardinality(Wave) |-> TurnEvent(k, totalCost + CostUpTo[k])]

\* The calls of the wave, in the order of their slots.
Slots == [k \in 1..Cardinality(Wave) |-> RecordedCall(k)]

SequentialRecord ==
  /\ conf.protocol = "sequential" /\ WaveDone
  /\ RecordWave(<<TurnEvent(round + 1, totalCost)>>, totalCost, <<>>)
  /\ UNCHANGED providerCalls

SharedRecord ==
  /\ conf.protocol = "shared" /\ WaveDone
  /\ RecordWave(ParallelTurns, totalCost + CostUpTo[Cardinality(Wave)], <<>>)
  /\ providerCalls' = providerCalls \o Slots

BroadcastRecord ==
  /\ conf.protocol = "broadcast" /\ WaveDone
  /\ LET total == totalCost + CostUpTo[Cardinality(Wave)]
     IN  RecordWave(ParallelTurns, total, <<[Plain("broadcast", 0) EXCEPT !.total = total]>>)
  /\ providerCalls' = providerCalls \o Slots

-----------------------------------------------------------------------------
(* The end of the run                                                      *)

LatestOf(S) == {k \in S : \A l \in S : l <= k}

Participating == {k \in DOMAIN transcript : IsParticipating(transcript[k].decision)}
Undecided     == {k \in DOMAIN transcript : transcript[k].decision = NoDecision}

\* Mutant: whoever spoke last is heard.
SequentialOutput_Last == LatestOf(DOMAIN transcript)

\* The entries of the transcript that make the output: the last that participates,
\* without one the last entry without a decision.
SequentialOutput ==
  IF Participating # {} THEN LatestOf(Participating) ELSE LatestOf(Undecided)

\* All entries of the only wave; those of the last round.
SharedOutput    == DOMAIN transcript
BroadcastOutput == {k \in DOMAIN transcript : k > Len(transcript) - conf.agents}

Output == CASE conf.protocol = "sequential" -> SequentialOutput
            [] conf.protocol = "shared"     -> SharedOutput
            [] conf.protocol = "broadcast"  -> BroadcastOutput

Final ==
  /\ phase = "output" /\ ~aborted
  /\ phase' = "evaluate"
  /\ EmitAndRecord([Plain("final", 0) EXCEPT !.text = Output], Len(transcript))
  /\ UNCHANGED <<conf, round, WaveVars, RunVars, termination, hinted, clock, aborted,
                 settled>>

\* The result is evaluated within the race, too; an evaluator may throw.
Evaluate ==
  /\ phase = "evaluate"
  /\ phase' = "over"
  /\ settled' \in IF settled # "no" THEN {settled}
                  ELSE IF Raced /\ aborted THEN {"rejected"} ELSE {"resolved", "rejected"}
  /\ UNCHANGED <<conf, round, WaveVars, Log, RunVars, termination, hinted, clock,
                 aborted>>

\* throwIfAborted at the start, in stopIfNeeded and before the final event.
AbortNoticed == phase \in {"setup", "check", "output"} /\ ThrowsIfAborted

\* createAbortRace
RaceLost ==
  /\ Raced /\ aborted /\ settled = "no"
  /\ settled' = "rejected"
  /\ UNCHANGED <<conf, phase, round, WaveVars, Log, RunVars, termination, hinted, clock,
                 aborted>>

\* The caller aborts.  A run with a timer has its own signal, which is no longer
\* connected once run() has settled.
CallerAborts ==
  /\ ~aborted /\ (settled = "no" \/ ~Raced)
  /\ aborted' = TRUE
  /\ UNCHANGED <<conf, phase, round, WaveVars, Log, RunVars, termination, hinted, clock,
                 settled>>

\* Mutant: the timer only fires if the protocol has a limit of its own.
TimerSet_BudgetOnly == "timeout" \in DOMAIN conf.budget

TimerSet == Raced

TimerFires ==
  /\ TimerSet /\ clock >= Caps["timeout"] /\ ~aborted /\ settled = "no"
  /\ aborted' = TRUE
  /\ UNCHANGED <<conf, phase, round, WaveVars, Log, RunVars, termination, hinted, clock,
                 settled>>

\* Time matters to a run that has a limit on it.
Tick ==
  /\ Raced /\ clock < MaxClock /\ settled = "no"
  /\ clock' = clock + 1
  /\ UNCHANGED <<conf, phase, round, WaveVars, Log, RunVars, termination, hinted, aborted,
                 settled>>

Done == phase = "over" /\ settled # "no" /\ UNCHANGED vars

Protocol ==
  \/ Start \/ Check \/ AbortNoticed
  \/ \E a \in Agents : Ask(a)
  \/ WaveFails \/ SequentialRecord \/ SharedRecord \/ BroadcastRecord
  \/ Final \/ Evaluate \/ RaceLost

Turn(a) ==
  \/ Chunk(a) \/ Answer(a) \/ ProviderFails(a)
  \/ UseTool(a) \/ ToolEnds(a) \/ ToolIsAborted(a) \/ ToolTimesOut(a) \/ ToolReturns(a)
  \/ TurnEnds(a)

Next ==
  \/ Protocol
  \/ \E a \in Agents : Turn(a)
  \/ CallerAborts \/ TimerFires \/ Tick
  \/ Done

Spec == Init /\ [][Next]_vars

AllAgents == UNION {1..options.agents : options \in Configs}

\* What a turn does by itself once its provider or its tool has answered, and what cuts
\* a sandbox short.
Continues(a) ==
  a \in Agents /\ (\/ UseTool(a) \/ ToolReturns(a) \/ TurnEnds(a)
                   \/ ToolIsAborted(a) \/ ToolTimesOut(a))

\* The event loop runs what can run, and time passes: nothing makes a provider or a
\* tool answer.
FairSpec ==
  /\ Spec
  /\ WF_vars(Protocol) /\ WF_vars(Tick) /\ WF_vars(TimerFires)
  /\ \A a \in AllAgents : WF_vars(Continues(a))

-----------------------------------------------------------------------------
(* Properties                                                              *)

\* The type of every variable.
TypeOK ==
  /\ conf \in Configs
  /\ phase \in {"setup", "check", "ask", "turns", "output", "evaluate", "over"}
  /\ round \in 0..Waves
  /\ call \in [Agents -> {"idle", "called", "answered", "tool", "tool-ended", "done", "failed"}]
  /\ reply \in [Agents -> conf.answers \cup {NoResponse}]
  /\ chunks \in [Agents -> 0..MaxChunks]
  /\ \A a \in Agents : \E n \in 0..Len(reply[a].tools) :
       toolsLeft[a] = SubSeq(reply[a].tools, n + 1, Len(reply[a].tools))
  /\ \A k \in DOMAIN events : events[k].agent \in 0..conf.agents
  /\ \A k \in DOMAIN transcript : transcript[k].agent \in Agents
  /\ totalCost \in Nat /\ clock \in 0..MaxClock
  /\ {hinted, aborted} \subseteq BOOLEAN
  /\ settled \in {"no", "resolved", "rejected"}

Of(type)       == {k \in DOMAIN events : events[k].type = type}
TurnsBefore(k) == Cardinality({j \in Of("agent-turn") : j < k})

\* The decisions of the trace are about its events other than those of provider calls,
\* in their order; what they say of turns and entries is what the events show.
DecisionsAgree ==
  /\ \A k \in DOMAIN decisions :
       LET d == decisions[k]
       IN  /\ d.type = events[d.index].type
           /\ k > 1 => decisions[k - 1].index < d.index
           /\ d.type = "agent-turn" <=> d.turn # 0
           /\ d.turn # 0 => d.turn = TurnsBefore(d.index + 1)
           /\ d.entries # NotCounted => d.entries = TurnsBefore(d.index + 1)
  /\ {decisions[k].index : k \in DOMAIN decisions}
       = {k \in DOMAIN events : events[k].type \notin Provenance \cup {"model-output-chunk"}}

\* The event at k is the n-th of its type for this n.
Nth(k) == Cardinality({j \in Of(events[k].type) : j < k}) + 1

\* The total that the last turn before k bears.
TotalBefore(k) ==
  LET turns == {j \in Of("agent-turn") : j < k}
  IN  IF turns = {} THEN 0 ELSE events[CHOOSE j \in turns : \A l \in turns : l <= j].total

\* Each call of its kind is numbered without a gap and has one answer, which comes later
\* and is for the agent that called.
AnsweredOnce(request, answer) ==
  /\ \A k \in Of(request) :
       /\ events[k].call = Nth(k)
       /\ \E r \in Of(answer) : /\ r > k /\ events[r].call = events[k].call
                               /\ events[r].agent = events[k].agent
  /\ \A r \in Of(answer) : \E k \in Of(request) : events[k].call = events[r].call
  /\ \A r, s \in Of(answer) : events[r].call = events[s].call => r = s

\* The calls, the turns and the costs of a resolved run tell one story, however the
\* answers arrived: calls are numbered from 1 without a gap and recorded in this
\* order, each asked and answered once; turn n is what call n answered, and adds the
\* cost of this answer to the total; every tool call has its result.  At any time the
\* decisions of the trace tell what its events show.
TurnLedger ==
  /\ DecisionsAgree
  /\ settled = "resolved" =>
       LET count == Len(transcript)
       IN  /\ providerCalls = [k \in 1..count |-> [call |-> k, agent |-> transcript[k].agent]]
           /\ Cardinality(Of("model-request")) = count
           /\ Cardinality(Of("agent-turn")) = count
           /\ AnsweredOnce("model-request", "model-response")
           /\ \A k \in Of("agent-turn") :
                /\ events[k].agent = transcript[Nth(k)].agent
                /\ \E r \in Of("model-response") :
                     /\ r < k /\ events[r].call = Nth(k)
                     /\ events[r].agent = events[k].agent /\ events[r].text = events[k].text
                     /\ events[k].total = TotalBefore(k) + events[r].own
           /\ totalCost = TotalBefore(Len(events) + 1)
           /\ AnsweredOnce("tool-call", "tool-result")

\* The hint is due at the k-th event, a request.
HintDue(k) ==
  \/ \E n \in conf.hint.atIteration : TurnsBefore(k) >= n
  \/ \E percent \in conf.hint.atFraction :
       \/ "iterations" \in DOMAIN Caps /\ Caps["iterations"] > 0
            /\ 100 * TurnsBefore(k) >= percent * Caps["iterations"]
       \/ "timeout" \in DOMAIN Caps /\ Caps["timeout"] > 0
            /\ 100 * events[k].at >= percent * Caps["timeout"]

\* The wrap-up hint goes out with the first request at or after its threshold, with
\* that one only, though all agents of a wave decide on it side by side.
HintOnce ==
  \A k \in Of("model-request") :
    events[k].hint <=> HintDue(k) /\ \A j \in Of("model-request") : j < k => ~HintDue(j)

BudgetsOf == {Conditions[k].caps :
                k \in {j \in DOMAIN Conditions : Conditions[j].kind = "budget"}}

\* No request is made once a cap on cost or turns is reached; a run that stops early
\* has a cap that is reached or, past the floor of its protocol, outputs that agree;
\* a run that does not has taken all its turns below every cap.
StopIsJustified ==
  /\ \A k \in Of("model-request") :
       \A caps \in BudgetsOf :
         /\ \A a \in {"cost", "tokens"} \cap DOMAIN caps : events[k].total < caps[a]
         /\ "iterations" \in DOMAIN caps => TurnsBefore(k) < caps["iterations"]
  /\ phase \in {"evaluate", "over"} /\ Of("final") # {} =>
       LET count == Len(transcript)
       IN  /\ Cardinality(Of("budget-stop")) =
                 (IF termination.stop /\ termination.reason = "budget" THEN 1 ELSE 0)
           /\ ~termination.stop =>
                /\ round = Waves
                /\ \A caps \in BudgetsOf :
                     /\ \A a \in {"cost", "tokens"} \cap DOMAIN caps : totalCost < caps[a]
                     /\ "iterations" \in DOMAIN caps => count < caps["iterations"]
           /\ termination.stop /\ termination.reason = "convergence" =>
                /\ IF conf.protocol = "broadcast" THEN round >= conf.floor
                   ELSE count >= conf.floor
                /\ count > 0
           /\ termination.stop /\ termination.reason = "budget" =>
                \E caps \in BudgetsOf, a \in Axis :
                  a \in DOMAIN caps /\ Context.observed[a] >= caps[a]

\* The output is made of what is valid at the end: sequential, of the last agent that
\* contributes and never of one that abstains or delegates; broadcast, of one entry
\* of each agent, all of the last round.
OutputIsCurrent ==
  \A f \in Of("final") :
    LET made == events[f].text
        said(how) == {k \in DOMAIN transcript : transcript[k].decision = Participates(how)}
        mute == said("abstain")
                \cup {k \in DOMAIN transcript : transcript[k].decision.kind = "delegate"}
    IN  /\ conf.protocol = "sequential" =>
             /\ made \cap mute = {} /\ Cardinality(made) <= 1
             /\ made = {} => mute = DOMAIN transcript
             /\ \A k \in made, l \in said("contribute") : l <= k /\ k \in said("contribute")
        /\ conf.protocol = "broadcast" /\ round > 0 =>
             /\ {transcript[k].agent : k \in made} = Agents
             /\ Cardinality(made) = conf.agents
             /\ \A k \in made : k > (round - 1) * conf.agents

Queried(filter) == QueryEvents(events, filter)
Exactly(n)      == [min |-> {n}, max |-> {n}]
UpTo(n)         == [NoRange EXCEPT !.max = {n}]

\* What the answers have cost after each number of events, and at last.
SpentUpTo(log) ==
  LET sum[k \in 0..Len(log)] ==
        IF k = 0 THEN 0
        ELSE sum[k - 1] + (IF log[k].type = "model-response" THEN log[k].own ELSE 0)
  IN  sum

Spent == SpentUpTo(events)[Len(events)]

\* What all observers of the run report.  While it goes on, the tracer counts what has
\* been spent and the metrics no more than that.  Of a resolved run, metrics, audit,
\* health and trace tell the same number of turns, cost and outcome; the spans of the
\* turns are closed, and the cost of each is what its turn added to the total.  A query
\* for the n-th turn finds it, and one for all turns up to a cost those up to some turn.
ReportsAgree ==
  LET spans   == SpansAfter(events)
      metrics == MetricsAfter(events)
      run     == RunSnapshot(events, totalCost)
      audit   == Audit(events)
      health  == Health(events, conf.budget, totalCost)
      accounting == RunAccounting(conf.budget, totalCost)
      changes == BudgetStateChanges(events)
      turns   == Of("agent-turn")
  IN  /\ spans.last = Spent
      /\ metrics.total <= spans.last
      /\ settled = "resolved" =>
           /\ metrics.total = totalCost /\ spans.last = totalCost
           /\ run.own = totalCost /\ audit.cost = totalCost
           /\ audit.status = run.outcome
           /\ run.outcome = (IF termination.stop /\ termination.reason = "budget"
                             THEN "budget-stopped" ELSE "completed")
           /\ {metrics.turns, run.turns, audit.turnCount, health.totalTurns}
                = {Len(transcript)}
           /\ spans.turns = {} /\ spans.calls = {}
           /\ Len(spans.ended) = Len(transcript)
           /\ \A k \in turns : spans.ended[Nth(k)] = events[k].total - TotalBefore(k)
           /\ conf.terminate = <<>> /\ ~termination.stop =>
                \A percent \in health.utilization : percent < 100
           /\ FinalOutput(events, Len(transcript)) = [cost |-> totalCost, entries |-> Len(transcript)]
           /\ \E k \in changes :
                events[k].total = totalCost /\ \A j \in changes : j <= k
           /\ \A j, k \in changes : j <= k => events[j].total <= events[k].total
           /\ \A percent \in health.utilization :
                conf.budget["cost"] > 0 => percent = accounting.utilization["cost"]
           /\ \A n \in DOMAIN transcript, a \in Agents :
                Queried([NoFilter EXCEPT !.agent = {a}, !.turns = {Exactly(n)}]) # {}
                  <=> transcript[n].agent = a
           /\ \A k \in turns :
                LET cheap == Queried([NoFilter EXCEPT !.type = {"agent-turn"},
                                                      !.cost = {UpTo(events[k].total)}])
                IN  k \in cheap /\ \A i \in cheap, j \in turns : j <= i => j \in cheap

\* A log without the events of provider calls, after each number of events and at last.
StrippedUpTo(log) ==
  LET kept[k \in 0..Len(log)] ==
        IF k = 0 THEN <<>>
        ELSE IF log[k].type \in Provenance THEN kept[k - 1] ELSE Append(kept[k - 1], log[k])
  IN  kept

Stripped(log) == StrippedUpTo(log)[Len(log)]

\* The calls that the events of a log are about.
CallsIn(log) == {<<log[k].type, log[k].agent, log[k].call>> :
                   k \in {j \in DOMAIN log : log[j].type \in Provenance}}

\* A trace that has lost the events of its provider calls gets them back on replay:
\* right before each turn the request and the response that the turn came from; a
\* trace that still has them is replayed as it is.
LegacyReplayAgrees ==
  settled = "resolved" =>
    LET replayed == Synthesize(Stripped(events), providerCalls)
    IN  /\ Synthesize(events, providerCalls) = events
        /\ Stripped(replayed) = Stripped(events)
        /\ CallsIn(replayed) = CallsIn(events)
        /\ \A k \in DOMAIN replayed : replayed[k].type = "agent-turn" =>
             /\ replayed[k - 2].type = "model-request"
             /\ replayed[k - 1].type = "model-response"
             /\ replayed[k - 1].call = replayed[k - 2].call
             /\ replayed[k - 1].agent = replayed[k].agent

Appended == {events'[k] : k \in (DOMAIN events' \ DOMAIN events)}

\* After an abort nothing is asked, no answer counts, and neither a stop nor a result
\* is announced; only turns that had already ended are recorded, and tools run.  After
\* the protocol has ended, the calls it left behind change nothing of its result.
EndIsQuiet ==
  [][/\ aborted => \A e \in Appended :
          e.type \in {"agent-turn", "broadcast", "tool-call", "tool-result"}
     /\ aborted /\ Raced /\ settled = "no" => settled' # "resolved"
     /\ phase = "over" =>
          /\ UNCHANGED <<transcript, providerCalls, totalCost, settled, round>>
          /\ \A e \in Appended : e.type \in {"model-response", "model-output-chunk",
                                             "tool-call", "tool-result"}]_vars

\* What may never end: a call, and a tool without a limit.
Waits(a) == call[a] = "called" \/ (call[a] = "tool" /\ ~HasLimit(Request(a)))

\* A run with a limit on time settles whatever its provider and its tools do, any
\* other run if every call and every tool without a limit ends in some way.  A sandbox
\* ends with its own limit, and with an abort of the run.
RunSettles ==
  \/ Raced
  \/ \A a \in AllAgents : []<>(a \notin Agents \/ ~Waits(a))
  => <>(settled # "no")
=============================================================================
