# Dogpile, verified

TLA+ specifications of the runtime of Dogpile (`@dogpile/sdk`), the TLC
configurations that check them on small instances, and proofs that TLAPS checks
for instances of every size.

Dogpile is a stateless TypeScript SDK. A *run* lets several LLM agents work on
one intent under a protocol (sequential, broadcast, shared, coordinator) and
returns a result with a trace, an event log, a transcript and a cost. A
coordinator may *delegate*: it starts child runs, several at a time, inside its
own run. Everything runs on one JavaScript thread, so concurrency is the
interleaving of tasks at `await`s - and of callbacks of subscribers, which are
called synchronously in the middle of the runtime's own steps.

Paths are relative to the repository; a file named without a directory is in
`src/runtime/`.

## Inventory

| component | state it keeps | operations | interacts with | what makes it correct |
|---|---|---|---|---|
| coordinator run (`coordinator.ts`) | transcript, events, total cost, dispatch count, stop record, trigger of abort mode | plan turn, dispatch wave, stop check, parallel worker turns, final synthesis, final event | model turn, tools, termination, delegate wave; the engine decides over its trace | one consistent ledger and transcript; bounded dispatch; no request after an abort or a stop; no child failure swallowed; every run settles |
| delegate wave (`coordinator.ts`) | per task: place, slot, child, failure; semaphore; first failure | queue, acquire, skip, refuse, start, complete, fail, release, settle, drain | child engines, the abort signal, the stream handle, the parent's cost | slots never over- or underused, FIFO, no start after a failure, one charge per child, prompt agrees with events, always settles |
| child call (`coordinator.ts`, `retry.ts`, `cancellation.ts`) | limits, timers, signals of run and child, attempts, sleep | clamp, arm, fire, attempt, back off, abort, classify | parent and child runs, provider adapters | no attempt after an abort; the error names who ended the call; settles as far as its limits reach |
| stream handle (`engine.ts`, `stream`) | status, emitted events, subscribers, iterator queue, abort signal, timer, result | publish, subscribe, unsubscribe, next, cancel, timeout, execute | engine run, subscribers (re-entrant), evaluator | all views agree, status and result agree, terminal event last, always settles |
| non-streaming run (`engine.ts`, `runNonStreamingProtocol`) | abort lifecycle, timer, instances of child errors | run, race, terminal throw, evaluate, translate the timeout | any protocol | the timeout wins over what it caused; calls left behind change nothing |
| sequential, broadcast, shared protocols | transcript, cost, stop record, numbers of calls | turn, round, stop check, output | model turn, tools, termination, hint | ledger, numbers of calls, order of contributions, output made of what is valid, floors and caps |
| model turn (`model.ts`) | one call, its record | request, chunks, answer | providers, abort signal | one request and one response per call, none counted after an abort |
| termination, wrap-up hint (`termination.ts`, `wrap-up.ts`) | "hint given" | budget, convergence, judge, first-of, floors, inject | every protocol | caps are inclusive, floors hold back quality stops only, first-of picks the first, one hint |
| replay and accounting (`defaults.ts`, `engine.ts`) | none | recompute accounting, replay, rebuild events of old traces | a saved trace | a replay says what the run said |
| tools (`tools.ts`, `tools/`) | none | validate, execute, cut short | protocols | one result per call, errors as results, aborts as aborts |
| decision parser (`decisions.ts`) | none | parse | protocols, coordinator | an answer means one thing or throws |
| providers (`src/providers/openai-compatible.ts`, `src/internal/vercel-ai.ts`) | none | call, name what went wrong | model turn, retry | an abort is an abort, a timeout a timeout |
| metrics, tracing | open spans, counters | observe events | event stream | counters agree with the run; every span is closed |
| introspection, health, audit, provenance | none | pure functions of a trace | callers | agree with each other and with the run |
| validation | none | check options | every entry point | what is run is what was checked |
| loggers, ids, benchmark, demo | I/O | - | - | - |

The hard behaviours, listed one by one with their lines under `hazards` in
`PROJECT.json`: several tasks and the parent acting between any two awaits;
callbacks that cancel the run in the middle of a segment; a wave of which some
children fail while others complete, wait or are drained; cost that reaches the
total on four paths; a stop, an abort, a timeout and a result racing for the
end of a run; answers that arrive in another order than they were asked for, or
after the run has rejected; retries around an abort; three clocks over one
call; and state changed before the events that are meant to report it.

## Modules

| module | models | checked with |
|---|---|---|
| `DelegateWave` | one dispatch wave, from the launch of its tasks to the next turn of the coordinator | `MCDelegateWave` |
| `SubRunLifecycle` | abstract: what a stream may report about the children of a wave | as a property of `DelegateWave` |
| `CoordinatorRun` | a whole coordinator run; waves are seen from outside | `MCCoordinatorRun` |
| `CoordinatorTrace` | the trace of a coordinator run as `Observers` and `Replay` see it | `MCCoordinatorRun` |
| `StreamHandle` | the handle of `stream()` | `MCStreamHandle` |
| `TurnProtocols` | a sequential, broadcast or shared `run()`, and the calls that outlive it | `MCTurnProtocols` |
| `ChildCall` | the clocks, retries and aborts over one provider call of a child, and the error `run()` rejects with | `MCChildCall` |
| `Termination` | stop conditions, floors and the wrap-up hint, as operators | in `TurnProtocols` |
| `Decisions` | what an agent's answer decides | in `TurnProtocols`, `ChildCall` |
| `Tools` | what a tool request comes to | in `TurnProtocols` |
| `Observers` | metrics, spans, health, audit, queries over events | in `TurnProtocols`, `CoordinatorTrace` |
| `Replay` | accounting and terminal throw of a replay, events of old traces | in `TurnProtocols`, `CoordinatorTrace` |
| `ProviderErrors` | how the two adapters name failures | in `ChildCall` |
| `DelegateWave_proofs` | proofs about `DelegateWave`: semaphore and cost; prompt, abort mode and reports | TLAPS |
| `StreamHandle_proofs` | proofs about `StreamHandle`: how it settles; what its events are and who has seen them | TLAPS |
| `CoordinatorRun_proofs` | proofs about `CoordinatorRun` and about `CoordinatorTrace` | TLAPS |
| `ChildCall_proofs` | proofs about `ChildCall` | TLAPS |
| `TurnProtocols_proofs`, `TurnLedger_proofs` | proofs about `TurnProtocols`: hint, output, stops; the ledger of calls, turns, costs and tools | TLAPS |
| `TurnReports_proofs` | proofs about `TurnProtocols` with `Observers` and `Replay`: what its observers report, what a replay makes of its trace | TLAPS |
| `InductionLemmas` | induction over sets of numbers; functions defined along a sequence | TLAPS |

How they compose: `TurnProtocols` EXTENDS the five modules of operators, so a
run checks them where the code uses them, with everything that can happen in
between; `CoordinatorTrace` INSTANCEs `Observers` and `Replay` over the log of
`CoordinatorRun`; `ChildCall` EXTENDS `Decisions`, which says what limits a
plan turn asks for, and `ProviderErrors`, which says what a call can throw;
`DelegateWave` is shown to implement `SubRunLifecycle`. A wave is a whole
module inside, and one step per child in `CoordinatorRun`; a child is a whole
module in `ChildCall` (or `TurnProtocols`), and an outcome in `DelegateWave`.

Definitions whose name has an underscore and a second part, such as
`Release_Twice`, are *mutants*: what the definition after them would be with a
plausible bug. No specification uses them. Putting each in the place of its
original must make TLC refute one property, which shows that the property
depends on the code.

### DelegateWave

`runCoordinator` maps the delegates of a plan turn to asynchronous tasks that
share a semaphore (`createSemaphore`). `pc[i]` is the place of task i: one value
for each await, and one for each point at which the task has just emitted an
event, since a subscriber's code runs there. `thread` names the task that is in
the middle of such a segment; while it is not 0 only that task or a callback
that cancels can act. The launch loop is a segment of its own: tasks run one by
one up to their `acquire()`, in index order.

| code | model |
|---|---|
| `sub-run-queued`, `semaphore.acquire()` | `AnnounceQueued`, `AcquireSlot` |
| check of `firstFailureIndex`, drained or not | `SkipClosed`, `SkipSibling`, `FinishSkip` |
| `dispatchDelegate` up to the child's run | `Refuse` (deadline), `Start`, `RunChild` |
| the child's engine | `ChildAnswer` (spend), `ChildTurn` (event that bears a cost), `ChildFinal` |
| its `catch` block | `CatchClosed`, `CatchOpen`, `FinishFail` |
| its success path | `Complete`, then `FinishComplete` or `FinishAborted` |
| `catch` and `finally` of the task | `HandleThrow`, `Deliver`, each with `Release` |
| after `Promise.allSettled` | `Settle`: replan, abort mode or rethrow |
| `drainOnParentAbort` | `Drain`, in `Cancel` and `TimeoutDrain` |
| caller's signal, deadline, timer | `CallerAbort`, `DeadlineElapses`, `TimeoutFires` |

A drain tells the children whose run has begun (`Started`: "aborted") from
those that have not: queued, waiting, about to start, or refused because the
deadline has passed, which stay open until a drain reports them as
"sibling-failed".

The provider's work is reduced to what the parent can tell apart: how much was
spent (`spend`), how much the last cost-bearing event reported (`costed`), and
how the child ended. Error payloads, traces and prompt text are left out; `log`
and `published` keep the kinds of the sub-run events as the coordinator emitted
them and as the stream handle let them through.

### CoordinatorRun

`phase` is where `runCoordinator` stands: waiting for a plan turn, deciding,
inside a wave, waiting for workers, recording them, waiting for synthesis, or
at a stop check. A wave is abstracted to the number of delegates that have not
settled and the kinds of failure seen; `DelegateWave` has the inside. The
events that bear a cost are kept in `log` with what each adds and with the
total after it. `evaluateTerminationStop` may answer what the configured
conditions allow: a cap on cost (usd or tokens) or iterations that is reached
always stops; elapsed time, convergence and judge may stop or not, the latter
two only from the protocol floor on. Abort can come between any two steps,
including where an event has just been emitted. `Resolve` is
`resolveRuntimeTerminalThrow` and what the engine makes of its answer.

Two events divide a step in two, because a subscriber may cancel in their
callback. `generateModelTurn` looks at the signal, emits `model-request`
(`Enter`, from `Check`, `Replan` and, for the next worker, `Call`) and calls the
provider without looking again (`Call`); while the request is `Asking`, only
the call or an abort can come. `dispatchDelegate` charges a completed child and
emits `sub-run-completed` (`ChildCompletes`); then the result becomes a
transcript entry (`KeepResult`), or the parent, aborted by then, gives up on it
(`GiveUp`), and the child has an event and no entry. What the drain of a
cancelled stream reports is not in `log`: it is `DelegateWave`'s.

### StreamHandle

Subscribers are called synchronously and may call back. `stack` holds the
calls in progress - `publish`, the replay of `subscribe`, `cancelRun`, the end
of `execute` - so that a callback's `cancel()`, `subscribe()` or
`unsubscribe()` nests as it does in the code, and the iteration over the set of
subscribers goes on with the set as it then is: `Unseen` has the positions of
those that the innermost `publish` has yet to call, `IsNext` the first of them.
An event is its index in `emitted`. The engine, the evaluator and the abort drain are external: they
emit, return, throw an error of class aborted, timeout or other, or never
answer. After the promise race is lost the engine may go on emitting.

### TurnProtocols

`run()` of one of three protocols, from its options to the settling of its
promise. A protocol takes turns in waves: sequential has one agent in each,
shared has one wave of all agents, broadcast has `maxRounds` of them. `call[a]`
is where the turn of agent a stands; `events`, `decisions`, `providerCalls`,
`transcript` and `totalCost` are the parts of the trace.

| code | model |
|---|---|
| validated options, effective conditions | `Accepted`, `Conditions`, `Caps` |
| `stopIfNeeded` with `evaluateTermination` | `Check` |
| prompt, hint, `model-request` | `Ask` |
| chunks, answer or failure of the provider | `Chunk`, `Answer`, `ProviderFails` |
| `executeModelResponseTurn`, its tools | `UseTool`, `ToolEnds`, `ToolIsAborted`, `ToolTimesOut`, `ToolReturns`, `TurnEnds` |
| `Promise.all` and the loop that records | `SequentialRecord`, `SharedRecord`, `BroadcastRecord`, `WaveFails` |
| final event, evaluator, abort race | `Final`, `Evaluate`, `RaceLost` |
| caller's signal, timer | `CallerAborts`, `TimerFires` |

The wave fails with its first failure, and the other turns go on unobserved:
`phase = "over"` is not the end of the behaviour, and `EndIsQuiet` is about
what such turns may still do. Text is a set of tokens, all that the similarity
of outputs looks at; a cost is one number, and so is a similarity or a
utilization (a percentage).

### ChildCall

A run delegates to one child, which makes one provider call through
`withRetry`. The limits are those of the decision (`asked`), of the parent
(`Deadline`), and the default; `childSignal` holds the first reason that
aborted the child. `Fail` takes a failure of the adapter - an HTTP status, a
malformed reply, an error of the transport - through `ProviderErrors` to an
error, and `Delays` is `chooseDelay`. A timer fires in the tick in which it is
due, before or after anything else in this tick: the clock does not pass a due
timer, which is the only assumption about time. Errors are a code and what
their `detail` names; who is blamed is what `BlameIsRight` says.

### Operators

`Termination`, `Decisions`, `Tools`, `Observers`, `Replay` and `ProviderErrors`
have no state. A condition is a sequence of leaves in the order `firstOf` tries
them. An answer is what the parser tells apart: the delegate block, the
participation fields that are filled in, the word in the participation line. A
tool request is its tool, input, policy and the ways its execution may end.
A trace is a sequence of events with type, own cost and running total.

## Runs

| run | result | what it shows |
|---|---|---|
| `DelegateWave` | passes, 589,320 states | semaphore (`SlotsInv`, `QueueInv`, `NoOvertaking`), cost (`CostRollUp`), reasons that tell who ran (`ReasonTellsWhoRan`), prompt and events (`PromptMatchesEvents`), abort mode (`AbortModeStops`), no start after a failure, and that the wave settles |
| `DelegateWaveReports` | passes, 426,838 states | reports implement `SubRunLifecycle` |
| `CoordinatorRun` | passes, 1,477,130 states | ledger (`RunningTotals`), transcript (`TranscriptMatchesEvents`), loop guard (`DispatchBounded`), caps (`NoTurnOverCap`), terminal throw (`NoSilentFailure`), abort (`AbortIsFinal`), metrics and replay of the trace (`MetricsAgree`, `ReplayParity`), and that the run settles |
| `StreamHandle` | passes, 962,976 states | views agree (`ViewsAgree`, `IteratorLosesNothing`), one story at the end (`SettledTogether`, `TerminalEventLast`), and that it settles |
| `TurnProtocols` | passes, 100,335 states | calls, turns, costs, tools and decisions are one ledger (`TurnLedger`); one hint, with the first request that is due (`HintOnce`); stops have a reason and no reason is missed (`StopIsJustified`); output (`OutputIsCurrent`); metrics, spans, audit, health and queries (`ReportsAgree`); old traces (`LegacyReplayAgrees`); what goes on after an abort or the end (`EndIsQuiet`); and that the run settles |
| `ChildCall` | passes, 652,033 states | the error names who ended the call (`BlameIsRight`), no attempt after an abort, past a limit or before its delay is over (`QuietAfterAbort`), and that the run settles as far as its limits reach |
| `DelegateWaveFailed` | violated | a drained child is reported completed after it was reported failed |
| `DelegateWaveTimeout` | violated | a timeout closes a stream without reporting its running children |
| `DelegateWaveAbortMode` | violated | abort mode rethrows the failure of the lowest index, not the last |
| `CoordinatorRunAbort` | violated | abort mode resolves when the trigger is not a `DogpileError` |
| `StreamHandleCancel` | violated | cancelling in the callback of the final event leaves status `completed` and a rejected result |
| `ChildCallTimeout` | violated | a child outlives the limit of its decision when its parent has a later deadline |

The violated properties state what the changelog, the documentation or a test
says; each finding in `PROJECT.json` quotes the line.

### Bounds

- `DelegateWave`: three delegates over two slots are the least with a task
  running, one failing or completing and one waiting, so that a release wakes a
  waiter while a sibling still runs. The slots of the turn are one or two, as a
  decision or a local provider may lower the run's limit; with one slot two
  tasks wait, and their order shows. One and two delegates are instances of the
  same run. A child spends at most one unit, enough to tell "reported" from
  "spent". The proofs hold for every number of delegates, slots and units.
- `DelegateWaveReports` excludes cancel() inside a callback. With it the
  lifecycle does not hold: a callback of `sub-run-completed` that cancels finds
  the child still open, and the drain reports it failed as well.
- `CoordinatorRun`: two workers, so that they can answer out of order; at most
  two children, in one wave or in two, and plan turns that ask for a third, so
  that the loop guard strikes (the code's constant is 8). Costs are 0 or 1, the
  caps are low enough to be reached by the plan turn, by children, by workers
  and by synthesis.
- `StreamHandle`: two subscribers, two engine events, one call from inside a
  callback.
- `TurnProtocols`: eleven sets of options (`MCConfigs`), ten of which the
  validation accepts; two agents, so that turns overtake each other, and once
  three, so that a convergence of two can come before the last. Every kind of
  limit, hint and tool is in at least one of them; a streamed call has at most
  one chunk (`MaxChunks`), and a limit on time is one tick (`MaxClock`): before
  it and at it is what the code tells apart.
- `ChildCall`: every combination of limits of 1, 2, 3 or none on a clock that
  stops at 5 (`MaxClock`), so that every order of two limits, and a sleep
  across each of them, occurs. The plan turn takes up to three ticks
  (`MaxPlanning`), enough to pass a deadline before a child starts. Three
  policies (no retry, two attempts with jitter, three with a growing delay) and
  four providers (two adapters, one of the caller that stops when it is told
  to, one that does not).

### Fairness

Continuations that are ready run: the event loop guarantees it. `DelegateWave`
also assumes that a child run ends, and `CoordinatorRun` that providers answer
or fail; without either the code would wait forever, as it would in reality.
`StreamHandle` assumes nothing of the engine: with a timeout the stream settles
even if no provider ever answers. `TurnProtocols` and `ChildCall` assume that
time passes and that timers fire, and `ChildCall` that a provider that obeys
its signal does so; nothing makes a provider or a tool answer the calls that the
properties are about (`ChildCall` lets the plan turn, which only comes before
them, be answered). What their runs
need beyond a time limit is the premise of `RunSettles`: without one, that
every call ends, or that the child has a limit and its provider obeys. Nothing
assumes that anyone cancels.

## Proofs

For all values of the constants that satisfy the named assumptions, which TLC
evaluates in every run:

| module | theorem | proves |
|---|---|---|
| `DelegateWave_proofs` | `TypeCorrect` | `TypeOK` |
| | `SlotsCorrect`, `QueueCorrect`, `NoOvertakingCorrect` | the semaphore |
| | `CostRollUpCorrect` | cost |
| | `ReasonCorrect` | `ReasonTellsWhoRan` |
| | `NoStartCorrect` | no child starts after a sibling's failure was handled |
| | `PromptCorrect` | `PromptMatchesEvents` |
| | `AbortModeCorrect` | `AbortModeStops` |
| | `ReportsCorrect` | `ReportsLifecycle`: `DelegateWave` implements `SubRunLifecycle` if no subscriber cancels inside a callback |
| `CoordinatorRun_proofs` | `TypeCorrect` | `TypeOK` |
| | `TotalsAdd` | `RunningTotals` |
| | `ChildrenBounded` | `DispatchBounded` |
| | `FailuresSurface` | `NoSilentFailure` |
| | `CapsHold`, `AbortStopsCalls` | the action properties `NoTurnOverCap`, `AbortIsFinal` |
| | `TranscriptTrue` | `TranscriptMatchesEvents` |
| | `MetricsTrue` | `MetricsAgree` |
| | `ReplayAgrees` | `ReplayParity` |
| `ChildCall_proofs` | `TypeCorrect` | `TypeOK` |
| | `RightBlame` | `BlameIsRight` |
| | `NoLateAttempt` | the action property `QuietAfterAbort` |
| `StreamHandle_proofs` | `OneStory` | `SettledTogether` |
| | `TypeCorrect` | `TypeOK` |
| | `NothingLost` | `IteratorLosesNothing` |
| | `TerminalLast` | `TerminalEventLast` |
| | `ViewsAreOne` | `ViewsAgree` |
| `TurnProtocols_proofs` | `TypeCorrect` | `TypeOK` |
| | `EndQuiet` | the action property `EndIsQuiet` |
| | `HintsOnce` | `HintOnce` |
| | `OutputTrue` | `OutputIsCurrent` |
| | `StopsJustified` | `StopIsJustified` |
| `TurnLedger_proofs` | `LedgerTrue` | `TurnLedger` |
| `TurnReports_proofs` | `ReportsTrue` | `ReportsAgree` |
| | `LegacyReplayTrue` | `LegacyReplayAgrees` |

None of the invariants is inductive by itself; each module proves one that is,
with one step for each action.

- **DelegateWave, semaphore and cost.** The semaphore's invariants hold
  together, and only with `LaunchInv`, which says how the launch loop proceeds:
  every task before `thread` has been launched, every task after it has not.
  That is why a new waiter is always the youngest, so that the queue stays
  sorted. `CostRollUp` needs `LedgerInv`: for each task, what its place in the
  code implies about its charge, its event log and `closed`, e.g. that a task
  about to complete has been charged nothing unless an abort drained it.
  `ReasonTellsWhoRan` needs `RanInv`: a task that has not begun its run, a
  refused one included, has spent nothing, and its log tells of no run.
- **DelegateWave, outcome.** `FailureInv`, `VerdictInv` and `StoryInv` add what
  the place of a task says of its outcome, when it counts as a failure, and
  which failure a settled wave goes by. That a wave implements
  `SubRunLifecycle` rests on `ReportInv`: which reports the stream has
  published about a task at each place, so that every step of the wave is a step
  of the lifecycle or leaves it alone. It is proved for waves whose
  subscribers do not cancel inside a callback (the assumption of its run): with
  such a subscriber it is false.
- **CoordinatorRun.** `DispatchBounded` counts events, the loop guard counts
  dispatches; `CountInv` relates the two in each phase. `NoSilentFailure` is
  about the end of a run: `TriggerInv` says where the trigger of abort mode
  comes from, `SynthesisInv` that a run that ends without a stop has a
  synthesis behind every failure. `AnswersInv` is what the recording of workers
  needs for the types. `CallInv` keeps requests and provider calls together: at
  most one request is without its call, and workers, who ask one after another,
  are below every cap all the while; `CapsHold` and `AbortStopsCalls` rest on
  it. `GivenUpInv`: a run that gave up on a child is aborted and can only
  throw, so that no entry comes after the missing one. `TranscriptMatchesEvents`
  needs to know which events a step appends, what the count of an event's
  predecessors becomes, and how many entries the transcript owes.
- **CoordinatorTrace.** What the metrics hook counts follows from the ledger
  alone: after each event of the log its total is the running total that the
  event shows, its part of the children is their sum so far (`CountedStep`, by
  induction along the log). A trace that replays has its final event last and a
  trigger that does not throw (`ResolvedInv`); the rest is `TriggerInv` and
  `NoSilentFailure`: a failure that `replay()` would take for the last one has a
  synthesis behind it.
- **ChildCall.** `ClockInv`: no limit that has a timer is exceeded in silence,
  and no sleep is cut short; `SignalInv`: how the signals of run and child
  relate, and which limit each reason proves to have run out; `PhaseInv`: what
  each place of the code says of attempts, errors and outcome. The assumptions
  state the types of configurations, plans and failures; limits are any natural
  numbers, and the exponential delay is only assumed to be one.
- **StreamHandle, end.** The stack of calls is seen as the procedures in
  progress. `StackInv` says which of them stand only at its bottom - the end of
  a run and its failure always, a cancel unless a callback made it - and
  `HandleInv` what each of them finds and leaves. Lemmas say what a push, a pop
  and a change of the top frame do to it; publishing, replays and callbacks
  change nothing that `HandleInv` looks at. It holds for any number of
  re-entrant calls.
- **StreamHandle, events.** `PlacedInv`: an event is either with the iterator or
  in one `publish` that is still in progress, never in two places, which is
  what a callback that publishes in the middle of a publication could upset.
  `EndInv`: the innermost call that is about to close the stream has published
  the terminal event. `ViewsInv`, for streams without re-entrant calls:
  deliveries do not nest, and each subscriber has what the delivery in progress
  implies.
- **TurnProtocols.** `QuietInv`: the protocol is over only after its promise
  has settled, and a sequential run has no call open but that of the agent whose
  turn it is - which is why its late answers cannot add to the total, as an
  answer does there. `HintInv`: the hint is spent once a request was made for
  which it was due, and not before, unless an abort came between; what decides
  is the number of turns in the transcript, and `CountInv` says that the log
  shows as many. `RosterInv` places the agents of the last round of a broadcast;
  `ParsedInv` says which decisions an entry may have; `FinalInv` that the final
  event was made of the transcript as it stays. `DecidedInv`, `BelowInv` and
  `JustifiedInv` follow a stop from its check to the end: what it rests on does
  not change any more, and who may ask is below every cap.
  `ConfigsAssumption` states the types of the options.
- **TurnProtocols, ledger.** `TurnLedger` is about resolved runs; `LedgerInv` says
  what the ledger looks like on the way there. `WaveInv`: outside a wave no call
  is open, inside only its agents', and they ask in order; `RequestInv` and
  `ResponseInv`: the number of a call is the position of its agent after the
  turns that are recorded, so that no answer can reach the turn of another
  agent, whatever the order of arrival. `TurnInv` and `SpentInv`: each turn has a
  request and an answer before it, and the total is that of the last turn, in a
  sequential wave with the answer that is not recorded yet. `ProviderInv` says
  when the record of a call precedes its turn (sequential) and when it follows
  the order of agents (parallel); `ToolInv`, that a call without a result has
  its agent waiting for it, or failed. Calls that outlive
  a protocol that failed or was aborted break these, so most conjuncts speak of
  a run that may still resolve, or has (`Healthy`).
- **TurnProtocols, reports.** `ReportsAgree` compares what four observers made
  of the log with the result. The tracer alone keeps state of its own, so
  `ReportInv` follows it through a wave. `OpenInv`: the open spans are those of
  the agents that have asked, the open calls those without an answer, and what
  is gathered for an agent is what its answer cost; `EndedInv`: a span that is
  closed holds what its turn added to the total, in the order of the turns.
  Both, and `CostInv` - what has been spent is the total of the run and, in a
  parallel wave, the answers that are `Due` for it - hold of runs in which no
  turn has failed (`Sound`): a failed turn leaves its spans open and its cost
  uncounted, for good. `LastInv` needs no such condition: whatever happens, the
  cost that the tracer would report for a failed run is what its answers have
  cost, because every answer finds its call open (`OpenCallInv`), and a total
  that an event sets it to counts the same answers. `BearInv` and `EndInv`: the totals of the log never fall, and
  a final event is the last and bears the total, which is what accounting, audit
  and health go by. That a wave is recorded by turns of different agents
  (`SpeakersDiffer`) is what lets a broadcast close its spans one by one.
- **TurnProtocols, replay.** `LegacyReplayAgrees` follows from `LedgerInv`, by two
  inductions along the log: when the events of calls are taken away the n-th turn
  stays the n-th (`Remains`), and when they are put back (`Rebuilt`), what is
  there so far holds the calls of the turns so far, each pair in front of its
  turn. That these are the calls that the trace has lost is the ledger's part:
  the number of a call is the position of its turn, and no call is left over
  (`CallsOfRun`).
- **Induction.** Sums of costs and what observers and replay compute along a log
  are recursive functions: that they exist and what they yield needs induction,
  which `InductionLemmas` proves from the library's theorem on minimal elements,
  as a statement about sets of numbers (`NaturalInduction`).

Every invariant and every action property that a run checks is proved. Only
model-checked are the liveness properties (`WaveSettles`, `StreamSettles` and
`RunSettles` of the other modules): liveness under fairness is out of reach of
the provers. The violated properties are refuted by TLC, not by a proof.

## Other observations

Met while modelling. Where they concern what is modelled, the models follow the
code; none has a run of its own.

- `replay()` throws for some traces whose live run resolved: a child failed
  with a plain `Error`, or abort mode has a trigger without an instance
  (`engine.ts:1583-1660`). `ReplayParity` excludes plain errors for this reason.
- `stream()` does not pass the wrap-up hint on to the runner, `run()` does
  (`engine.ts:251-292`).
- A caller aborts with a plain reason while a child of a run without a time
  limit sleeps in `withRetry`, or a provider rejects with the reason itself:
  the run rejects with `invalid-configuration`, reason `child-run-failed`
  (`coordinator.ts:1519-1532`), where `docs/reference.md:139` has `aborted`.
- A timeout of the parent surfaces on its child as code `timeout`;
  `CHANGELOG.md:119` describes `aborted` with `detail.reason: "timeout"`.
- `docs/developer-usage.md:750` calls a `TypeError` retryable, but the
  OpenAI-compatible adapter makes a `provider-error` of it, which is not
  (`src/providers/openai-compatible.ts:437-464`, `retry.ts:16-20`).
- The wrapper of `withRetry` keeps neither `modelId` nor `metadata.locality`
  (`retry.ts:149-150`), so a wrapped local provider is not clamped to one slot.
- A decision's `budget.maxTokens` and `maxIterations` are parsed, and only its
  `timeoutMs` reaches the child.
- A default child timeout does not end a child whose provider ignores its
  signal when the run has no time limit; the premise of `ChildCall!RunSettles`
  says so.
- A retry that the AI SDK gives up because of an abort becomes `aborted` with
  `detail.reason` "abort", a third value beside the two of the runtime.
- No protocol gives a judge's verdict to its stop check: a judge condition
  never stops a run.
- With `maxUsd` 0 health reports a utilization of 100 % and the accounting 0.
- A subscriber that cancels in the callback of `model-request` has the run
  aborted and closed, and the provider is called all the same, with a signal
  that is aborted already (`model.ts:31-46`). `AbortIsFinal` allows this one
  call.
- `replayStream` expands completed children only; the tracer's running cost
  leaves out a child until the next event of the parent that bears a cost.

## Not modelled

`PROJECT.json` lists every component with its status.

- Loggers, identifiers, benchmark, demo and testing helpers: output and
  scaffolding, not part of the runtime's logic.
- Of the public types, what is not the shape of a modelled record; most of the
  validation, which is stateless checks of types; the requests, usage and
  metadata of provider calls; attributes and export of spans; provenance and
  the near-miss threshold of health.
- Left out of the models that exist: prompt and error texts, trace payloads,
  nesting of waves (a child is an outcome), provider calls of a child after its
  parent's abort, more than one outstanding `next()`, a policy's own `retryOn`
  and `sleep`, tools inside a coordinator's turns (they are in
  `TurnProtocols`), protocol decisions of a coordinator's trace, the reports of
  an abort drain in the log of `CoordinatorRun` (they are in `DelegateWave`).
- `StreamHandle!Replay`: a subscriber that throws while `subscribe()` replays to
  it (`engine.ts:217-219`, without the `try` of `publish`) gets the rest of the
  history never and the live events all the same. `ViewsAgree` is about
  subscribers that do not throw.
- `ChildCall!Replan` stands for the rest of the parent's run, which notices an
  abort or resolves: that it throws the child's failure after all
  (`engine.ts:1583-1604`) is `CoordinatorRun!TerminalThrow`, and that a later
  call fails like the child's is left out.

## Plan

Done: the three protocols and the coordinator, the wave, the handle, the child
call, and the operators they use. Left, in order of value:

1. Nested coordinators: two levels of waves with one instance map each, and
   deadlines that shrink with depth.
2. Protocol decisions of a coordinator's trace with drains inside callbacks.
3. `stream()` over `TurnProtocols` instead of an external engine.
