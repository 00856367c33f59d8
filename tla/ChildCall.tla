------------------------------- MODULE ChildCall -------------------------------
(***************************************************************************)
(* The clocks over one provider call of a child run, and whose failure it  *)
(* is in the end.                                                          *)
(*                                                                         *)
(* A coordinator run() delegates to one child, which calls its provider    *)
(* through withRetry.  Three parties can abort the call: the caller, the   *)
(* timer of the run, and the timer of the child; the first reason stays    *)
(* in the child's signal.  A run with a time limit is raced against its    *)
(* signal and rejects at once; without one only the child can end it.      *)
(*                                                                         *)
(* An error is its code and what its detail names: the reason of an        *)
(* aborted, the source of a provider-timeout.  "plain" is what is not a    *)
(* DogpileError, such as the reason of a caller's abort().  A timer fires  *)
(* in the tick in which it is due, before or after anything else there.    *)
(***************************************************************************)
EXTENDS Integers, Decisions, ProviderErrors

CONSTANTS Configs,      \* limits, retry policies, providers
          Plans,        \* what the plan turn may answer
          Failures,     \* adapter -> what may go wrong in a call
          MaxPlanning,  \* bound: a plan turn is over by then
          MaxClock      \* bound: the clock stops here, and nothing sleeps longer

Never == MaxClock + 1       \* a limit that is not set

ASSUME ClockAssumption == MaxClock \in Nat /\ MaxPlanning \in 0..MaxClock

NoError       == Error("none", "none")
Plain         == Error("plain", "none")
RunTimeout    == Error("timeout", "none")
EngineTimeout == Error("provider-timeout", "engine")
ChildRunFailed  == Error("invalid-configuration", "child-run-failed")
InvalidDelegate == Error("invalid-configuration", "delegate-validation")
Aborted(reason) == Error("aborted", reason)

ASSUME ConfigsAssumption ==
  /\ Configs \subseteq
       [budget : 0..Never, terminate : 0..Never, default : 0..Never, maxDepth : Nat,
        abortMode : BOOLEAN, attempts : Nat \ {0}, delay : Nat, maxDelay : Nat,
        jitter : BOOLEAN, adapter : {"openai", "vercel", "own"}, obeys : BOOLEAN]
  /\ \A c \in Configs : \A n \in 0..c.attempts : c.delay * 2 ^ n \in Nat

\* The caps of an answer are any integers, but a timeout is no longer than the clock.
ASSUME PlansAssumption ==
  \A answer \in Plans : \A block \in answer.delegate :
    /\ DOMAIN block.items = 1..Len(block.items) /\ Len(block.items) \in Nat
    /\ block.items = <<>> <=> Len(block.items) = 0
    /\ \A k \in 1..Len(block.items) :
         LET caps == block.items[k].budget.caps
         IN  "timeout" \in DOMAIN caps => caps["timeout"] \in Int /\ caps["timeout"] <= MaxClock

\* A provider without an adapter throws errors of a provider, or no DogpileError.
FailureCodes ==
  {"plain", "network", "provider-authentication", "provider-invalid-request",
   "provider-invalid-response", "provider-not-found", "provider-rate-limited",
   "provider-timeout", "provider-unavailable", "provider-unsupported", "provider-error",
   "unknown"}

ASSUME FailuresAssumption ==
  /\ DOMAIN Failures = {"openai", "vercel", "own"}
  /\ \A failure \in Failures["openai"] \cup Failures["vercel"] :
       \/ failure.kind = "status" /\ failure.status \in Int
       \/ failure.kind = "reply"
       \/ failure.kind = "thrown"
  /\ \A failure \in Failures["own"] :
       failure.error \in [code : FailureCodes, detail : {"none"}]
  /\ \A adapter \in DOMAIN Failures : \A failure \in Failures[adapter] :
       failure.retryAfter \in 0..Never

IsDogpileError(error) == error.code \notin {"plain", "network"}

VARIABLES
  conf,         \* budget, terminate, default: limits; maxDepth, abortMode; attempts, delay,
                \* maxDelay, jitter: the retry policy; adapter, obeys: the provider
  clock,
  signal,       \* reason of the run's aborted signal, or NoError
  phase,        \* of the coordinator and of the child's call
  asked,        \* decision.budget.timeoutMs
  timeout,      \* childTimeoutMs
  startedAt,    \* when the child was started
  childSignal,  \* reason of the child's aborted signal, or NoError
  attempt,      \* attempts of the call made
  wakeAt,       \* end of the sleep before the next attempt
  childError,   \* what the child run threw, enriched
  outcome       \* what run() settled with: NoError while it is pending

vars == <<conf, clock, signal, phase, asked, timeout, startedAt, childSignal, attempt,
          wakeAt, childError, outcome>>

Resolved  == Error("resolved", "none")
ChildRuns == phase \in {"attempt", "calling", "sleeping", "finishing"}
Pending   == outcome = NoError

Least(m, n) == IF m <= n THEN m ELSE n

\* runtimeTimeoutMs: the timer of the run, and the race.  Only a budget makes a deadline
\* for the children.
TimeLimit == Least(conf.budget, conf.terminate)
Raced     == TimeLimit # Never
Deadline  == conf.budget

\* The coordinator is at depth 0, and its delegates must name its provider or none.
Decide(answer) == ParseDecision(answer, ParseContext("parent", 0, conf.maxDepth))

Plan(kinds) == \E answer \in Plans : Decide(answer).kind \in kinds

\* What a delegation asks for; its first delegate is the child.
TimeoutAsked(decision) ==
  LET caps == decision.items[1].budget.caps
  IN  IF "timeout" \in DOMAIN caps THEN caps["timeout"] ELSE Never

-----------------------------------------------------------------------------
(* Errors                                                                  *)

ClassifyAbortReason(reason) == IF reason.code = "timeout" THEN "timeout" ELSE "parent-aborted"

\* Mutant: the reason of the signal is not taken over.
FromSignal_Anonymous(reason) == Aborted(ClassifyAbortReason(reason))

\* createAbortErrorFromSignal: a DogpileError is thrown as it is.
FromSignal(reason) ==
  IF IsDogpileError(reason) THEN reason ELSE Aborted(ClassifyAbortReason(reason))

\* What is known about the parent goes into an error that does not say.
Enriched(error) ==
  IF error.detail # "none" THEN error
  ELSE CASE error.code = "aborted" /\ signal # NoError -> Aborted(ClassifyAbortReason(signal))
         [] error.code = "provider-timeout" -> Error("provider-timeout", "provider")
         [] OTHER -> error

\* A plain error becomes a delegate-validation error, which no policy survives.
Rethrown(error) == conf.abortMode \/ ~IsDogpileError(error)
Surfaced(error) == IF IsDogpileError(error) THEN error ELSE ChildRunFailed

-----------------------------------------------------------------------------
Init ==
  /\ conf \in Configs
  /\ clock = 0 /\ signal = NoError /\ phase = "planning"
  /\ asked = Never /\ timeout = Never /\ startedAt = 0 /\ childSignal = NoError
  /\ attempt = 0 /\ wakeAt = 0 /\ childError = NoError /\ outcome = NoError

CallVars  == <<attempt, wakeAt>>
ChildVars == <<asked, timeout, startedAt>>

SettleWith(error) == outcome' = IF Pending THEN error ELSE outcome

\* The coordinator or its plan turn throws.
Throw(error) == phase' = "over" /\ SettleWith(error)

PlanAborted ==
  /\ phase = "planning" /\ signal # NoError
  /\ Throw(FromSignal(signal))
  /\ UNCHANGED <<conf, clock, signal, ChildVars, childSignal, CallVars, childError>>

\* The answer of the plan turn is no valid delegation: the run fails.
Rejected ==
  /\ phase = "planning" /\ signal = NoError /\ Plan({"invalid"})
  /\ Throw(InvalidDelegate)
  /\ UNCHANGED <<conf, clock, signal, ChildVars, childSignal, CallVars, childError>>

\* The answer delegates nothing: the run goes on without a child.
NoChild ==
  /\ phase = "planning" /\ signal = NoError /\ Plan({"none", "participate"})
  /\ phase' = "replanning"
  /\ UNCHANGED <<conf, clock, signal, ChildVars, childSignal, CallVars, childError, outcome>>

\* The deadline has passed: no child is started.
Refused ==
  /\ phase = "planning" /\ signal = NoError /\ Plan({"delegate"})
  /\ Deadline # Never /\ clock >= Deadline
  /\ Throw(Aborted("timeout"))
  /\ UNCHANGED <<conf, clock, signal, ChildVars, childSignal, CallVars, childError>>

\* decision > what remains to the parent > default > none; the decision is clamped.
ChildTimeout(wanted) ==
  IF Deadline # Never THEN Least(wanted, Deadline - clock)
  ELSE IF wanted # Never THEN wanted ELSE conf.default

\* dispatchDelegate: the child is started and listens to the signal of the run.
Start ==
  /\ phase = "planning" /\ signal = NoError
  /\ Deadline = Never \/ clock < Deadline
  /\ \E answer \in Plans :
       /\ Decide(answer).kind = "delegate"
       /\ asked' = TimeoutAsked(Decide(answer))
  /\ timeout' = ChildTimeout(asked')
  /\ phase' = "attempt" /\ startedAt' = clock
  /\ UNCHANGED <<conf, clock, signal, childSignal, CallVars, childError, outcome>>

-----------------------------------------------------------------------------
(* withRetry                                                               *)

\* dispatchDelegate's catch, and the coordinator's: rethrow, or go on planning.
ChildThrows(error) ==
  /\ childError' = Enriched(error)
  /\ IF Rethrown(Enriched(error)) THEN Throw(Surfaced(Enriched(error)))
     ELSE phase' = "replanning" /\ UNCHANGED outcome

\* Mutant: an abort while the call does not sleep is not looked for.
CallIsAborted_Asleep == childSignal # NoError /\ phase = "sleeping"

CallIsAborted == childSignal # NoError

\* The head of the loop, or the sleep, finds the signal aborted and throws its reason;
\* before the first attempt the child has looked at it.
RetryAborted ==
  /\ phase \in {"attempt", "sleeping"} /\ CallIsAborted
  /\ ChildThrows(IF attempt = 0 THEN FromSignal(childSignal) ELSE childSignal)
  /\ UNCHANGED <<conf, clock, signal, ChildVars, childSignal, CallVars>>

Attempt ==
  /\ phase = "attempt" /\ ~CallIsAborted
  /\ phase' = "calling" /\ attempt' = attempt + 1
  /\ UNCHANGED <<conf, clock, signal, ChildVars, childSignal, wakeAt, childError, outcome>>

\* The answer: generateModelTurn looks at the signal before it counts.
Answer ==
  /\ phase = "calling"
  /\ IF childSignal # NoError THEN ChildThrows(FromSignal(childSignal))
     ELSE phase' = "finishing" /\ UNCHANGED <<childError, outcome>>
  /\ UNCHANGED <<conf, clock, signal, ChildVars, childSignal, CallVars>>

Retryable(error) ==
  error.code \in {"network", "provider-rate-limited", "provider-timeout", "provider-unavailable"}

\* Mutant: one attempt too many.
LastAttempt_Exceeded == attempt > conf.attempts

LastAttempt == attempt >= conf.attempts

\* chooseDelay: what the provider asks for, or an exponential delay with jitter.
Delays(failure) ==
  LET capped == Least(conf.maxDelay, conf.delay * 2 ^ (attempt - 1))
  IN  IF failure.retryAfter # Never THEN {Least(conf.maxDelay, failure.retryAfter)}
      ELSE IF conf.jitter /\ capped > 0 THEN 0..(capped - 1) ELSE {capped}

\* The provider fails by itself.  A delay of zero is no sleep.
Fail ==
  /\ phase = "calling"
  /\ \E failure \in Failures[conf.adapter] :
       LET error == ProviderError(conf.adapter, failure)
       IN  IF childSignal # NoError \/ LastAttempt \/ ~Retryable(error)
           THEN ChildThrows(error) /\ UNCHANGED wakeAt
           ELSE \E delay \in Delays(failure) :
                  /\ phase' = IF delay = 0 THEN "attempt" ELSE "sleeping"
                  /\ wakeAt' = Least(clock + delay, MaxClock)
                  /\ UNCHANGED <<childError, outcome>>
  /\ UNCHANGED <<conf, clock, signal, ChildVars, childSignal, attempt>>

\* The provider notices the abort.
Obey ==
  /\ phase = "calling" /\ conf.obeys /\ childSignal # NoError
  /\ \E error \in AbortedErrors(conf.adapter, childSignal, Plain) : ChildThrows(error)
  /\ UNCHANGED <<conf, clock, signal, ChildVars, childSignal, CallVars>>

WakeUp ==
  /\ phase = "sleeping" /\ clock >= wakeAt /\ childSignal = NoError
  /\ phase' = "attempt"
  /\ UNCHANGED <<conf, clock, signal, ChildVars, childSignal, CallVars, childError, outcome>>

\* The rest of the child is checked, too, but for its very end.
Finish ==
  /\ phase = "finishing"
  /\ \/ childSignal # NoError /\ ChildThrows(FromSignal(childSignal))
     \/ /\ IF signal # NoError THEN Throw(FromSignal(signal))
           ELSE phase' = "replanning" /\ UNCHANGED outcome
        /\ UNCHANGED childError
  /\ UNCHANGED <<conf, clock, signal, ChildVars, childSignal, CallVars>>

\* The rest of the run: it notices an abort, or resolves.
Replan ==
  /\ phase = "replanning"
  /\ Throw(IF signal # NoError THEN FromSignal(signal) ELSE Resolved)
  /\ UNCHANGED <<conf, clock, signal, ChildVars, childSignal, CallVars, childError>>

-----------------------------------------------------------------------------
(* Aborts and time                                                         *)

\* The run's signal is aborted; it is forwarded to a running child, where an earlier
\* reason stays, and a raced run rejects.
AbortRun(reason) ==
  /\ signal = NoError /\ Pending
  /\ signal' = reason
  /\ childSignal' = IF ChildRuns /\ childSignal = NoError THEN reason ELSE childSignal
  /\ outcome' = IF Raced THEN FromSignal(reason) ELSE outcome
  /\ UNCHANGED <<conf, clock, phase, ChildVars, CallVars, childError>>

CallerAborts == AbortRun(Plain)

RunTimerDue == Raced /\ clock >= TimeLimit /\ signal = NoError /\ Pending

RunTimerFires == RunTimerDue /\ AbortRun(RunTimeout)

\* Mutant: the default limit sets no timer.
TimerIsSet_DecisionOnly == asked # Never /\ Deadline = Never

\* A child whose parent has a deadline has no timer of its own, whatever its limit.
TimerIsSet == timeout # Never /\ Deadline = Never

ChildTimerDue == TimerIsSet /\ ChildRuns /\ clock >= startedAt + timeout /\ childSignal = NoError

ChildTimerFires ==
  /\ ChildTimerDue
  /\ childSignal' = EngineTimeout
  /\ UNCHANGED <<conf, clock, signal, phase, ChildVars, CallVars, childError, outcome>>

\* Time passes while a provider or a sleep is waited for, and not past a timer that is due.
Tick ==
  /\ \/ phase = "planning" /\ clock < MaxPlanning
     \/ phase \in {"calling", "sleeping"} /\ clock < MaxClock
  /\ ~RunTimerDue /\ ~ChildTimerDue /\ ~(phase = "sleeping" /\ clock >= wakeAt)
  /\ clock' = clock + 1
  /\ UNCHANGED <<conf, signal, phase, ChildVars, childSignal, CallVars, childError, outcome>>

Done == phase = "over" /\ UNCHANGED vars

\* What the program does by itself.
Engine ==
  \/ PlanAborted \/ Rejected \/ NoChild \/ Refused
  \/ RetryAborted \/ Attempt \/ WakeUp \/ Finish \/ Replan
  \/ RunTimerFires \/ ChildTimerFires

Next == Engine \/ Start \/ Answer \/ Fail \/ Obey \/ CallerAborts \/ Tick \/ Done

Spec == Init /\ [][Next]_vars

\* Timers fire, time passes, and a provider that obeys stops when it is told to.  Nothing
\* makes a provider answer.
FairSpec == Spec /\ WF_vars(Engine) /\ WF_vars(Tick) /\ WF_vars(Obey)

-----------------------------------------------------------------------------
(* Properties                                                              *)

Codes == {"none", "resolved", "plain", "network", "timeout", "aborted",
          "invalid-configuration", "provider-authentication", "provider-invalid-request",
          "provider-invalid-response", "provider-not-found", "provider-rate-limited",
          "provider-timeout", "provider-unavailable", "provider-unsupported",
          "provider-error", "unknown"}

Details == {"none", "engine", "provider", "timeout", "parent-aborted", "abort",
            "child-run-failed", "delegate-validation"}

Errors == [code : Codes, detail : Details]

\* The type of every variable.
TypeOK ==
  /\ conf \in Configs /\ clock \in 0..MaxClock
  /\ phase \in {"planning", "attempt", "calling", "sleeping", "finishing", "replanning", "over"}
  /\ signal \in {NoError, Plain, RunTimeout}
  /\ childSignal \in {NoError, Plain, RunTimeout, EngineTimeout}
  /\ asked \in 0..Never /\ timeout \in 0..Never /\ startedAt \in 0..MaxClock
  /\ attempt \in 0..conf.attempts /\ wakeAt \in Nat
  /\ childError \in Errors /\ outcome \in Errors

\* A run is blamed on what happened: a timeout on a timer that was set and has run out,
\* with the reason of whoever came first; an abort on the caller; a failure of the
\* provider on an error that could not be retried, was the last, or came after the abort.
\* A raced run that is aborted says so, and no run resolves after an abort.
BlameIsRight ==
  /\ outcome = RunTimeout => signal = RunTimeout /\ clock >= TimeLimit
  /\ outcome = Aborted("timeout") => Deadline # Never /\ clock >= Deadline /\ attempt = 0
  /\ outcome = Aborted("parent-aborted") => signal = Plain
  /\ outcome = EngineTimeout =>
       /\ childSignal = EngineTimeout /\ Deadline = Never
       /\ clock >= startedAt + timeout /\ timeout \in {asked, conf.default}
  /\ outcome = InvalidDelegate => attempt = 0 /\ Plan({"invalid"})
  /\ attempt > 0 => conf.maxDepth >= 1
  /\ outcome = Resolved => signal = NoError
  /\ Raced /\ signal # NoError => outcome = FromSignal(signal)
  /\ outcome = ChildRunFailed => childError \in {Plain, Error("network", "none")}
  /\ outcome # Resolved /\ childSignal = NoError /\ Retryable(childError) =>
       attempt = conf.attempts
  /\ outcome.code = "provider-timeout" => outcome.detail \in {"engine", "provider"}
  /\ phase = "over" => ~Pending

\* No attempt is made after an abort, after the run has settled, or once a time limit
\* that has a timer is exceeded, nor before the delay that the failure asked for is over.
QuietAfterAbort ==
  [][attempt' # attempt =>
       /\ {signal, childSignal, outcome} = {NoError}
       /\ attempt' = attempt + 1 /\ attempt' <= conf.attempts
       /\ clock <= TimeLimit /\ clock >= wakeAt
       /\ Deadline = Never => clock <= startedAt + timeout]_vars

\* A run with a time limit settles whatever its provider does.  Without one it settles
\* if the calls end, or if its child has a limit and its provider stops when it is told to.
RunSettles ==
  \/ Raced
  \/ /\ []<>(phase # "planning")
     /\ []<>(phase # "calling" \/ (conf.obeys /\ timeout # Never))
  => <>~Pending

\* The documented precedence: the limit of the decision comes before all others.  A
\* child that is over the limit its decision asked for has been aborted.
DecisionTimeoutHolds ==
  ChildRuns /\ childSignal = NoError => clock <= startedAt + asked
=============================================================================
