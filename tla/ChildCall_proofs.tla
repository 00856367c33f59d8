---------------------------- MODULE ChildCall_proofs ----------------------------
(***************************************************************************)
(* Proofs about ChildCall for every set of limits, retry policies, plans   *)
(* and failures.  The inductive invariant IInv adds to the checked ones    *)
(* how far each place of the code lies behind the limits (ClockInv), how   *)
(* the two signals relate (SignalInv), and what is settled where           *)
(* (PhaseInv).                                                             *)
(***************************************************************************)
EXTENDS ChildCall, WellFoundedInduction, TLAPS

NetworkError == Error("network", "none")

\* No limit that has a timer is exceeded in silence, and no sleep is cut short.
ClockInv ==
  /\ signal = NoError /\ Pending => clock <= TimeLimit
  /\ ChildRuns /\ childSignal = NoError /\ Deadline = Never => clock <= startedAt + timeout
  /\ phase = "attempt" => clock >= wakeAt

\* The run's abort reaches its child, where only the child's own timer can come first.
SignalInv ==
  /\ ChildRuns /\ signal # NoError => childSignal # NoError
  /\ childSignal \in {Plain, RunTimeout} => signal = childSignal
  /\ signal = RunTimeout => Raced /\ clock >= TimeLimit
  /\ childSignal = EngineTimeout =>
       Deadline = Never /\ clock >= startedAt + timeout /\ timeout \in {asked, conf.default}

\* What the places in the code say about the attempts, the errors and the outcome.
PhaseInv ==
  /\ phase = "planning" => attempt = 0 /\ wakeAt = 0 /\ childSignal = NoError
  /\ phase \in {"attempt", "sleeping"} => attempt < conf.attempts
  /\ phase = "calling" => attempt >= 1
  /\ ChildRuns => conf.maxDepth >= 1
  /\ ChildRuns /\ Deadline = Never => timeout \in {asked, conf.default}
  /\ childError # NoError => phase \in {"replanning", "over"}
  /\ phase # "over" /\ ~Pending => signal # NoError /\ outcome = FromSignal(signal)
  /\ Retryable(childError) /\ childSignal = NoError => attempt = conf.attempts

IInv == TypeOK /\ ClockInv /\ SignalInv /\ PhaseInv /\ BlameIsRight

-----------------------------------------------------------------------------
(* What a delegation that parses asks for                                  *)

\* A nonempty set of natural numbers has a least element.
LEMMA LeastExists ==
  ASSUME NEW S \in SUBSET Nat, S # {}
  PROVE  \E k \in S : \A l \in S : k <= l
<1>1. IsWellFoundedOn(OpToRel(<, Nat), Nat)
  BY NatLessThanWellFounded
<1>2. PICK k \in S : \A l \in S : ~(<<l, k>> \in OpToRel(<, Nat))
  BY <1>1, WFMin
<1>3. \A l \in S : ~(l < k)
  BY <1>2 DEF OpToRel
<1> QED
  BY <1>3

\* The parser passes an item only if its caps are no negative numbers and its children
\* stay within the depth limit.
LEMMA ItemThatParses ==
  ASSUME NEW item, NEW context, ParseItem(item, context).kind # "invalid"
  PROVE  /\ BudgetIsValid(item.budget)
         /\ \A d \in context.depth : ~DepthOverflow(d.now, d.max)
<1> DEFINE checks == ItemChecks(item, context)
           failed == {k \in DOMAIN checks : ~checks[k].ok}
<1>1. failed = {}
  BY DEF ParseItem, Invalid
<1>2. 5 \in DOMAIN checks /\ 7 \in DOMAIN checks
  BY DEF ItemChecks
<1>3. /\ checks[5].ok = BudgetIsValid(item.budget)
      /\ checks[7].ok = \A d \in context.depth : ~DepthOverflow(d.now, d.max)
  BY DEF ItemChecks
<1> QED
  BY <1>1, <1>2, <1>3

\* A delegation asks for no limit, or one that the clock can measure, and needs a
\* run that may have children.
LEMMA DelegationAsks ==
  ASSUME NEW answer \in Plans, Decide(answer).kind = "delegate", conf.maxDepth \in Nat
  PROVE  TimeoutAsked(Decide(answer)) \in 0..Never /\ conf.maxDepth >= 1
<1> DEFINE context == ParseContext("parent", 0, conf.maxDepth)
           block   == CHOOSE json \in answer.delegate : TRUE
           bad     == {k \in DOMAIN block.items :
                         ParseItem(block.items[k], context).kind = "invalid"}
<1>1. answer.delegate # {} /\ Decide(answer) = ParseDelegate(block, context)
  <2>1. ParseParticipation(answer).kind # "delegate"
    BY DEF ParseParticipation, Participates, NoDecision
  <2> QED
    BY <2>1 DEF Decide, ParseDecision
<1>2. block \in answer.delegate
  BY <1>1
<1>3. /\ DOMAIN block.items = 1..Len(block.items) /\ Len(block.items) \in Nat
      /\ block.items = <<>> <=> Len(block.items) = 0
  BY <1>2, PlansAssumption
<1>4. block.parses /\ block.items # <<>>
  <2>1. CASE ~block.parses
    <3>1. ParseDelegate(block, context) = Invalid("decision")
      BY <2>1 DEF ParseDelegate
    <3> QED
      BY <1>1, <3>1 DEF Invalid
  <2>2. CASE block.parses /\ block.items = <<>>
    <3>1. ParseDelegate(block, context) = Invalid("decision")
      BY <2>2 DEF ParseDelegate
    <3> QED
      BY <1>1, <3>1 DEF Invalid
  <2> QED
    BY <2>1, <2>2
<1>5. bad = {}
  <2> SUFFICES ASSUME bad # {} PROVE FALSE
    OBVIOUS
  <2> DEFINE first == CHOOSE k \in bad : \A l \in bad : k <= l
  <2>1. bad \in SUBSET Nat
    <3>1. \A k \in bad : k \in 1..Len(block.items)
      BY <1>3
    <3> HIDE DEF bad, block
    <3>2. Len(block.items) \in Nat
      BY <1>3
    <3> QED
      BY <3>1, <3>2
  <2>2. \E k \in bad : \A l \in bad : k <= l
    <3> HIDE DEF bad
    <3> QED
      BY <2>1, LeastExists
  <2>3. first \in bad
    <3> HIDE DEF bad
    <3> QED
      BY <2>2
  <2>4. Decide(answer) = ParseItem(block.items[first], context)
    BY <1>1, <1>4 DEF ParseDelegate
  <2> QED
    BY <2>3, <2>4
<1>6. Decide(answer).items = block.items
  BY <1>1, <1>4, <1>5 DEF ParseDelegate, Delegates
<1>7. 1 \in DOMAIN block.items
  BY <1>3, <1>4
<1>8. ParseItem(block.items[1], context).kind # "invalid"
  BY <1>5, <1>7
<1>9. BudgetIsValid(block.items[1].budget)
      /\ \A d \in context.depth : ~DepthOverflow(d.now, d.max)
  BY <1>8, ItemThatParses
<1>10. conf.maxDepth >= 1
  <2>1. context.depth = {[now |-> 0, max |-> conf.maxDepth]}
    BY DEF ParseContext
  <2>2. ~DepthOverflow(0, conf.maxDepth)
    <3> HIDE DEF context
    <3> QED
      BY <1>9, <2>1
  <2> QED
    BY <2>2 DEF DepthOverflow
<1>11. TimeoutAsked(Decide(answer)) \in 0..Never
  <2> DEFINE caps == block.items[1].budget.caps
  <2>1. "timeout" \in DOMAIN caps =>
          caps["timeout"] \in Int /\ caps["timeout"] <= MaxClock
    BY <1>2, <1>3, <1>7, PlansAssumption
  <2>2. "timeout" \in DOMAIN caps => caps["timeout"] >= 0
    BY <1>9 DEF BudgetIsValid
  <2> QED
    BY <1>6, <2>1, <2>2, ClockAssumption DEF TimeoutAsked, Never
<1> QED
  BY <1>10, <1>11

-----------------------------------------------------------------------------
(* What may be thrown, and what becomes of it                              *)

\* Two errors are the same if their codes and their details are.
LEMMA ErrorsDiffer ==
  /\ NoError \notin {Plain, RunTimeout, EngineTimeout, Resolved, ChildRunFailed, InvalidDelegate}
  /\ \A reason : Aborted(reason) \notin {NoError, Plain, RunTimeout, EngineTimeout, Resolved,
                                        ChildRunFailed, InvalidDelegate}
  /\ Aborted("timeout") # Aborted("parent-aborted")
  /\ Plain \notin {RunTimeout, EngineTimeout, Resolved, ChildRunFailed, InvalidDelegate}
  /\ RunTimeout \notin {EngineTimeout, Resolved, ChildRunFailed, InvalidDelegate}
  /\ EngineTimeout \notin {Resolved, ChildRunFailed, InvalidDelegate}
  /\ Resolved \notin {ChildRunFailed, InvalidDelegate}
  /\ ChildRunFailed # InvalidDelegate
BY DEF Error, NoError, Plain, RunTimeout, EngineTimeout, Resolved, ChildRunFailed,
       InvalidDelegate, Aborted

\* An abort for a timeout is thrown as that timeout, and any other as a parent's.
LEMMA ThrownReasons ==
  /\ FromSignal(Plain) = Aborted("parent-aborted")
  /\ FromSignal(RunTimeout) = RunTimeout
  /\ FromSignal(EngineTimeout) = EngineTimeout
BY DEF FromSignal, IsDogpileError, ClassifyAbortReason, Error, Plain, RunTimeout, EngineTimeout

\* What a provider throws by itself: never an error of the engine.
CallErrors ==
  {error \in [code : FailureCodes \cup {"aborted"}, detail : {"none", "provider", "abort"}] :
     /\ error.code \in {"plain", "network"} => error.detail = "none"
     /\ error.code = "provider-timeout" => error.detail # "abort"}

LEMMA CallError ==
  ASSUME NEW code \in FailureCodes \cup {"aborted"}, NEW detail \in {"none", "provider", "abort"},
         code \in {"plain", "network"} => detail = "none",
         code = "provider-timeout" => detail # "abort"
  PROVE  Error(code, detail) \in CallErrors
BY DEF Error, CallErrors

LEMMA StatusCode ==
  ASSUME NEW status \in Int
  PROVE  CodeForStatus(status) \in
           {"provider-authentication", "provider-not-found", "provider-timeout",
            "provider-rate-limited", "provider-unavailable", "provider-invalid-request",
            "provider-error"}
BY DEF CodeForStatus

LEMMA NameCode ==
  ASSUME NEW name
  PROVE  CodeForName(name) \in FailureCodes \ {"plain", "network", "provider-timeout"}
BY DEF CodeForName, FailureCodes

\* Whatever goes wrong in a call, the adapter names it as a failure of the provider.
LEMMA ProviderThrows ==
  ASSUME NEW adapter \in {"openai", "vercel", "own"}, NEW failure \in Failures[adapter]
  PROVE  ProviderError(adapter, failure) \in CallErrors
<1>1. CASE adapter = "openai"
  <2>1. ProviderError(adapter, failure) = OpenAIError(failure)
    BY <1>1 DEF ProviderError
  <2>2. CASE failure.kind = "status" /\ failure.status \in Int
    <3>1. OpenAIError(failure) = StatusError(failure.status)
      BY <2>2 DEF OpenAIError
    <3> QED
      BY <2>1, <2>2, <3>1, StatusCode, CallError DEF StatusError, FailureCodes
  <2>3. CASE failure.kind = "reply"
    <3>1. OpenAIError(failure) = Error("provider-invalid-response", "none")
      BY <2>3 DEF OpenAIError
    <3> QED
      BY <2>1, <3>1, CallError DEF FailureCodes
  <2>4. CASE failure.kind = "thrown"
    <3>1. OpenAIError(failure) = FetchError(failure.name)
      BY <2>4 DEF OpenAIError
    <3> QED
      BY <2>1, <3>1, CallError DEF FetchError, FailureCodes
  <2> QED
    BY <1>1, <2>2, <2>3, <2>4, FailuresAssumption
<1>2. CASE adapter = "vercel"
  <2>1. ProviderError(adapter, failure) = VercelError(failure)
    BY <1>2 DEF ProviderError
  <2>2. CASE failure.kind = "status" /\ failure.status \in Int
    <3> DEFINE code == CodeForSdkStatus(failure.status)
    <3>1. VercelError(failure) =
            Error(IF code = "unknown" THEN CodeForName("AI_APICallError") ELSE code, "none")
      BY <2>2 DEF VercelError
    <3>2. code \in FailureCodes \ {"plain", "network"}
      BY <2>2, StatusCode DEF CodeForSdkStatus, FailureCodes
    <3> HIDE DEF code
    <3> QED
      BY <2>1, <3>1, <3>2, NameCode, CallError
  <2>3. CASE failure.kind = "reply"
    <3>1. VercelError(failure) = Error(CodeForName("AI_NoContentGeneratedError"), "none")
      BY <2>3 DEF VercelError
    <3> QED
      BY <2>1, <3>1, NameCode, CallError
  <2>4. CASE failure.kind = "thrown"
    <3>1. VercelError(failure) \in {Error("aborted", "none"), Error("aborted", "abort"),
                                    Error(CodeForName(failure.name), "none")}
      BY <2>4 DEF VercelError
    <3> QED
      BY <2>1, <3>1, NameCode, CallError
  <2> QED
    BY <1>2, <2>2, <2>3, <2>4, FailuresAssumption
<1>3. CASE adapter = "own"
  <2>1. ProviderError(adapter, failure) = failure.error
    BY <1>3 DEF ProviderError
  <2>2. failure.error \in [code : FailureCodes, detail : {"none"}]
    BY <1>3, FailuresAssumption
  <2> QED
    BY <2>1, <2>2 DEF CallErrors
<1> QED
  BY <1>1, <1>2, <1>3

\* A provider that notices an abort throws its reason, or an abort of its own.
LEMMA ObeyThrows ==
  ASSUME NEW adapter \in {"openai", "vercel", "own"}, NEW reason,
         NEW error \in AbortedErrors(adapter, reason, Plain)
  PROVE  error = reason \/ error \in CallErrors
<1>1. error \in {reason, Plain, Error("aborted", "none"), Error("aborted", "abort")}
  BY DEF AbortedErrors, FetchError
<1>2. {Plain, Error("aborted", "none"), Error("aborted", "abort")} \subseteq CallErrors
  BY CallError DEF Plain, FailureCodes
<1> QED
  BY <1>1, <1>2

\* What the child may throw where it stands.
Throwable(error) ==
  \/ childSignal # NoError /\ error \in {childSignal, FromSignal(childSignal)}
  \/ /\ error \in CallErrors
     /\ childSignal = NoError => LastAttempt \/ ~Retryable(error)

\* The enriched error of the child, and what the run surfaces of it.
Blames(known, surfaced) ==
  /\ known \in Errors /\ known # NoError
  /\ surfaced \in Errors /\ surfaced \notin {NoError, Resolved, InvalidDelegate}
  /\ surfaced \in {RunTimeout, Aborted("timeout")} => signal = RunTimeout
  /\ surfaced = Aborted("parent-aborted") => signal = Plain
  /\ surfaced = EngineTimeout => childSignal = EngineTimeout
  /\ surfaced = ChildRunFailed => known \in {Plain, NetworkError}
  /\ surfaced.code = "provider-timeout" => surfaced.detail \in {"engine", "provider"}
  /\ Retryable(known) /\ childSignal = NoError => LastAttempt

\* The enrichment blames the run's timer or its caller only if they aborted the run, and
\* the child's timer only if it aborted the child.
LEMMA EnrichedBlames ==
  ASSUME TypeOK, SignalInv, NEW error, Throwable(error)
  PROVE  Blames(Enriched(error), Surfaced(Enriched(error)))
<1>1. CASE childSignal # NoError /\ error \in {childSignal, FromSignal(childSignal)}
  <2>1. CASE error = Plain
    <3>1. Enriched(error) = Plain /\ Surfaced(Enriched(error)) = ChildRunFailed
      BY <2>1 DEF Enriched, Surfaced, IsDogpileError, Plain, Error
    <3>2. childSignal = Plain
      BY <1>1, <2>1, ErrorsDiffer, ThrownReasons DEF TypeOK
    <3> QED
      BY <1>1, <3>1, <3>2, ErrorsDiffer
      DEF Blames, Errors, Codes, Details, Plain, ChildRunFailed, Error
  <2>2. CASE error = Aborted("parent-aborted")
    <3>1. Enriched(error) = error /\ Surfaced(Enriched(error)) = error
      BY <2>2 DEF Enriched, Surfaced, IsDogpileError, Aborted, Error
    <3>2. childSignal = Plain
      BY <1>1, <2>2, ErrorsDiffer, ThrownReasons DEF TypeOK
    <3>3. signal = Plain
      BY <3>2 DEF SignalInv
    <3> QED
      BY <1>1, <2>2, <3>1, <3>3, ErrorsDiffer
      DEF Blames, Errors, Codes, Details, Aborted, Error
  <2>3. CASE error = RunTimeout
    <3>1. Enriched(error) = error /\ Surfaced(Enriched(error)) = error
      BY <2>3 DEF Enriched, Surfaced, IsDogpileError, RunTimeout, Error
    <3>2. childSignal = RunTimeout
      BY <1>1, <2>3, ErrorsDiffer, ThrownReasons DEF TypeOK
    <3>3. signal = RunTimeout
      BY <3>2 DEF SignalInv
    <3> QED
      BY <1>1, <2>3, <3>1, <3>3, ErrorsDiffer
      DEF Blames, Errors, Codes, Details, RunTimeout, Error
  <2>4. CASE error = EngineTimeout
    <3>1. Enriched(error) = error /\ Surfaced(Enriched(error)) = error
      BY <2>4 DEF Enriched, Surfaced, IsDogpileError, EngineTimeout, Error
    <3>2. childSignal = EngineTimeout
      BY <1>1, <2>4, ErrorsDiffer, ThrownReasons DEF TypeOK
    <3> QED
      BY <1>1, <2>4, <3>1, <3>2, ErrorsDiffer
      DEF Blames, Errors, Codes, Details, EngineTimeout, Error
  <2> QED
    BY <1>1, <2>1, <2>2, <2>3, <2>4, ThrownReasons DEF TypeOK
<1>2. CASE error \in CallErrors /\ (childSignal = NoError => LastAttempt \/ ~Retryable(error))
  <2> DEFINE known == Enriched(error)
  <2> SUFFICES Blames(known, Surfaced(known))
    OBVIOUS
  <2>1. error.code \in FailureCodes \cup {"aborted"} /\ error.detail \in {"none", "provider", "abort"}
        /\ error = Error(error.code, error.detail)
        /\ (error.code \in {"plain", "network"} => error.detail = "none")
        /\ (error.code = "provider-timeout" => error.detail # "abort")
    BY <1>2 DEF CallErrors, Error
  <2>2. CASE error.code \in {"plain", "network"}
    <3>1. known = error
      BY <2>1, <2>2 DEF Enriched
    <3>2. known \in {Plain, NetworkError} /\ Surfaced(known) = ChildRunFailed
      BY <2>1, <2>2, <3>1 DEF Surfaced, IsDogpileError, Plain, NetworkError
    <3> QED
      BY <1>2, <3>1, <3>2, ErrorsDiffer
      DEF Blames, Errors, Codes, Details, Plain, NetworkError, NoError, ChildRunFailed, Error
  <2>3. CASE error.code = "aborted"
    <3>1. \/ known = error
          \/ signal # NoError /\ known = Aborted(ClassifyAbortReason(signal))
      BY <2>3 DEF Enriched
    <3>2. CASE known = error
      <4>1. Surfaced(known) = known
        BY <2>3, <3>2 DEF Surfaced, IsDogpileError
      <4> QED
        BY <1>2, <2>1, <2>3, <3>2, <4>1
        DEF Blames, Errors, Codes, Details, Retryable, Error, NoError, Resolved, InvalidDelegate,
            RunTimeout, EngineTimeout, ChildRunFailed, Aborted
    <3>3. CASE signal # NoError /\ known = Aborted(ClassifyAbortReason(signal))
      <4>1. Surfaced(known) = known
        BY <3>3 DEF Surfaced, IsDogpileError, Aborted, Error
      <4>2. \/ signal = RunTimeout /\ known = Aborted("timeout")
            \/ signal = Plain /\ known = Aborted("parent-aborted")
        BY <3>3 DEF TypeOK, ClassifyAbortReason, RunTimeout, Plain, Error
      <4> HIDE DEF known
      <4> QED
        BY <4>1, <4>2, ErrorsDiffer
        DEF Blames, Errors, Codes, Details, Retryable, Aborted, Error
    <3> QED
      BY <3>1, <3>2, <3>3
  <2>4. CASE error.code \notin {"plain", "network", "aborted"}
    <3>1. known.code = error.code /\ known = Error(known.code, known.detail)
          /\ known.detail \in {"none", "provider", "abort"}
          /\ (error.code = "provider-timeout" => known.detail = "provider")
      BY <2>1, <2>4 DEF Enriched, Error
    <3>2. known.code \in FailureCodes \ {"plain", "network"}
      BY <2>1, <2>4, <3>1
    <3>3. Surfaced(known) = known
      BY <2>4, <3>1 DEF Surfaced, IsDogpileError
    <3>4. Retryable(known) <=> Retryable(error)
      BY <3>1 DEF Retryable
    <3> HIDE DEF known
    <3>5. known \in Errors
      BY <3>1, <3>2 DEF Errors, Codes, Details, FailureCodes, Error
    <3>6. known \notin {NoError, Resolved, InvalidDelegate, RunTimeout, ChildRunFailed,
                       Aborted("timeout"), Aborted("parent-aborted"), EngineTimeout}
      BY <3>1, <3>2 DEF FailureCodes, NoError, Resolved, InvalidDelegate, RunTimeout,
                        ChildRunFailed, Aborted, EngineTimeout, Error
    <3> QED
      BY <1>2, <3>1, <3>3, <3>4, <3>5, <3>6 DEF Blames
  <2> QED
    BY <2>2, <2>3, <2>4
<1> QED
  BY <1>1, <1>2 DEF Throwable

-----------------------------------------------------------------------------
(* The inductive invariant                                                 *)

LEMMA ConfigFacts ==
  ASSUME conf \in Configs
  PROVE  /\ conf.budget \in 0..Never /\ conf.terminate \in 0..Never
         /\ conf.default \in 0..Never /\ conf.maxDepth \in Nat
         /\ conf.attempts \in Nat \ {0} /\ conf.delay \in Nat /\ conf.maxDelay \in Nat
         /\ conf.adapter \in {"openai", "vercel", "own"}
         /\ \A n \in 0..conf.attempts : conf.delay * 2 ^ n \in Nat
         /\ Never \in Nat /\ MaxClock \in Nat /\ MaxClock < Never
         /\ TimeLimit \in 0..Never /\ Deadline \in 0..Never
         /\ Deadline # Never => Raced
<1>1. /\ conf.budget \in 0..Never /\ conf.terminate \in 0..Never
      /\ conf.default \in 0..Never /\ conf.maxDepth \in Nat
      /\ conf.attempts \in Nat \ {0} /\ conf.delay \in Nat /\ conf.maxDelay \in Nat
      /\ conf.adapter \in {"openai", "vercel", "own"}
      /\ \A n \in 0..conf.attempts : conf.delay * 2 ^ n \in Nat
  BY ConfigsAssumption
<1>2. Never \in Nat /\ MaxClock \in Nat /\ MaxClock < Never
  BY ClockAssumption DEF Never
<1> QED
  BY <1>1, <1>2 DEF TimeLimit, Deadline, Raced, Least

\* The reason of an aborted run is none of the errors that a run fails with by itself.
LEMMA SignalOutcomes ==
  ASSUME signal \in {Plain, RunTimeout}
  PROVE  /\ FromSignal(signal) \in Errors
         /\ FromSignal(signal) \notin {NoError, EngineTimeout, InvalidDelegate, Resolved,
                                      ChildRunFailed, Aborted("timeout")}
         /\ FromSignal(signal) = RunTimeout => signal = RunTimeout
         /\ FromSignal(signal) = Aborted("parent-aborted") => signal = Plain
         /\ FromSignal(signal).code # "provider-timeout"
BY ErrorsDiffer, ThrownReasons DEF Errors, Codes, Details, RunTimeout, Aborted, Error

\* What a run that is still pending may fail with, when its child threw known.
Blameable(error, known) ==
  /\ error = RunTimeout => signal = RunTimeout
  /\ error = Aborted("timeout") => Deadline # Never /\ clock >= Deadline /\ attempt = 0
  /\ error = Aborted("parent-aborted") => signal = Plain
  /\ error = EngineTimeout => childSignal = EngineTimeout
  /\ error = InvalidDelegate => attempt = 0 /\ Plan({"invalid"})
  /\ error = Resolved => signal = NoError
  /\ error = ChildRunFailed => known \in {Plain, NetworkError}
  /\ error.code = "provider-timeout" => error.detail \in {"engine", "provider"}

ErrorFits(known) ==
  known \in Errors /\ (Retryable(known) /\ childSignal = NoError => attempt = conf.attempts)

\* The run is over: it settles with a fitting error, or had settled before.
LEMMA RunIsOver ==
  ASSUME IInv, phase # "over", NEW error \in Errors, error # NoError,
         Throw(error), Pending => Blameable(error, childError'), ErrorFits(childError'),
         UNCHANGED <<conf, clock, signal, asked, timeout, startedAt, childSignal, attempt, wakeAt>>
  PROVE  IInv'
<1> USE DEF IInv
<1>1. /\ phase' = "over"
      /\ outcome' = IF Pending THEN error ELSE outcome
  BY DEF Throw, SettleWith
<1>2. outcome' \in Errors /\ outcome' # NoError
  BY <1>1 DEF TypeOK, Pending
<1>3. TypeOK'
  BY <1>1, <1>2 DEF TypeOK, ErrorFits
<1>4. ClockInv'
  BY <1>1, <1>2 DEF ClockInv, ChildRuns, Pending
<1>5. SignalInv'
  BY <1>1 DEF SignalInv, ChildRuns, Raced, TimeLimit, Deadline
<1>6. PhaseInv'
  BY <1>1 DEF PhaseInv, ChildRuns, ErrorFits, Retryable
<1>7. BlameIsRight'
  <2>1. CASE Pending
    <3>1. outcome' = error
      BY <1>1, <2>1
    <3>2. ~(Raced /\ signal # NoError)
      BY <2>1, SignalOutcomes DEF BlameIsRight, Pending, TypeOK
    <3> QED
      BY <1>1, <1>2, <2>1, <3>1, <3>2
      DEF BlameIsRight, Blameable, ErrorFits, SignalInv, Raced, TimeLimit, Deadline, Pending,
          Plan, Decide, Retryable, NetworkError
  <2>2. CASE ~Pending
    <3>1. outcome' = outcome /\ outcome = FromSignal(signal) /\ signal \in {Plain, RunTimeout}
      BY <1>1, <2>2 DEF PhaseInv, TypeOK
    <3>2. FromSignal(signal)' = FromSignal(signal)
      BY DEF FromSignal
    <3> QED
      BY <1>1, <1>2, <2>2, <3>1, <3>2, SignalOutcomes
      DEF BlameIsRight, ErrorFits, SignalInv, Raced, TimeLimit, Deadline, Pending, Retryable
  <2> QED
    BY <2>1, <2>2
<1> QED
  BY <1>3, <1>4, <1>5, <1>6, <1>7

\* The coordinator goes on planning: nothing but the child's error is new.
LEMMA RunGoesOn ==
  ASSUME IInv, phase # "over", phase' = "replanning", ErrorFits(childError'),
         UNCHANGED <<conf, clock, signal, asked, timeout, startedAt, childSignal, attempt,
                     wakeAt, outcome>>
  PROVE  IInv'
<1> USE DEF IInv
<1>1. outcome \notin {ChildRunFailed, InvalidDelegate, Aborted("timeout")}
  BY SignalOutcomes, ErrorsDiffer DEF PhaseInv, TypeOK, Pending
<1>2. TypeOK'
  BY DEF TypeOK, ErrorFits
<1>3. ClockInv'
  BY DEF ClockInv, ChildRuns, Pending, TimeLimit
<1>4. SignalInv'
  BY DEF SignalInv, ChildRuns, Raced, TimeLimit, Deadline
<1>5. PhaseInv'
  BY DEF PhaseInv, ChildRuns, ErrorFits, Retryable, Pending, FromSignal
<1>6. BlameIsRight'
  BY <1>1 DEF BlameIsRight, ErrorFits, Raced, TimeLimit, Deadline, Retryable, FromSignal
<1> QED
  BY <1>2, <1>3, <1>4, <1>5, <1>6

\* The child throws what it may throw where it stands.
LEMMA ChildThrowsInv ==
  ASSUME IInv, ChildRuns, NEW error, Throwable(error), ChildThrows(error),
         UNCHANGED <<conf, clock, signal, asked, timeout, startedAt, childSignal, attempt, wakeAt>>
  PROVE  IInv'
<1> DEFINE known == Enriched(error)
<1>1. Blames(known, Surfaced(known))
  BY EnrichedBlames DEF IInv
<1>2. /\ childError' = known
      /\ \/ Throw(Surfaced(known))
         \/ phase' = "replanning" /\ outcome' = outcome
  BY DEF ChildThrows
<1> HIDE DEF known
<1>3. phase # "over"
  BY DEF ChildRuns
<1>4. ErrorFits(known)
  <2>1. LastAttempt => attempt = conf.attempts
    <3>1. conf \in Configs /\ attempt \in 0..conf.attempts
      BY DEF IInv, TypeOK
    <3>2. conf.attempts \in Nat
      BY <3>1, ConfigFacts
    <3> QED
      BY <3>1, <3>2 DEF LastAttempt
  <2> QED
    BY <1>1, <2>1 DEF Blames, ErrorFits
<1>5. ErrorFits(childError')
  BY <1>2, <1>4
<1>6. CASE Throw(Surfaced(known))
  <2>1. Pending => Blameable(Surfaced(known), childError')
    <3>1. Pending => signal # RunTimeout
      <4> SUFFICES ASSUME signal = RunTimeout PROVE ~Pending
        OBVIOUS
      <4>1. Raced /\ signal # NoError
        BY ErrorsDiffer DEF IInv, SignalInv
      <4>2. outcome = FromSignal(signal)
        BY <4>1 DEF IInv, BlameIsRight
      <4> QED
        BY <4>2, SignalOutcomes DEF Pending
    <3> QED
      BY <1>1, <1>2, <3>1, ErrorsDiffer DEF Blames, Blameable
  <2>2. Surfaced(known) \in Errors /\ Surfaced(known) # NoError
    BY <1>1 DEF Blames
  <2> QED
    BY <1>3, <1>5, <1>6, <2>1, <2>2, RunIsOver
<1>7. CASE phase' = "replanning" /\ outcome' = outcome
  BY <1>3, <1>5, <1>7, RunGoesOn
<1> QED
  BY <1>2, <1>6, <1>7

LEMMA InitInv == ASSUME Init PROVE IInv
<1>1. ~ChildRuns /\ Pending
  BY DEF Init, ChildRuns, Pending
<1>2. /\ TimeLimit \in 0..Never /\ Never \in Nat /\ conf.attempts \in Nat
      /\ NoError \in Errors /\ MaxClock \in Nat
  BY ConfigFacts DEF Init, Errors, Codes, Details, NoError, Error
<1>3. TypeOK
  BY <1>2 DEF Init, TypeOK
<1>4. ClockInv
  BY <1>1, <1>2 DEF Init, ClockInv
<1>5. SignalInv
  BY <1>1, ErrorsDiffer DEF Init, SignalInv
<1>6. PhaseInv
  BY <1>1 DEF Init, PhaseInv, Retryable, NoError, Error
<1>7. BlameIsRight
  BY ErrorsDiffer DEF Init, BlameIsRight, Retryable, NoError, Error
<1> QED
  BY <1>3, <1>4, <1>5, <1>6, <1>7 DEF IInv

\* What withRetry sleeps is a number.
LEMMA DelaysAreNumbers ==
  ASSUME TypeOK, attempt >= 1, NEW failure, failure.retryAfter \in 0..Never,
         NEW delay \in Delays(failure)
  PROVE  delay \in Nat
<1> DEFINE capped == Least(conf.maxDelay, conf.delay * 2 ^ (attempt - 1))
<1>1. /\ conf.maxDelay \in Nat /\ conf.attempts \in Nat /\ Never \in Nat
      /\ \A n \in 0..conf.attempts : conf.delay * 2 ^ n \in Nat
  BY ConfigFacts DEF TypeOK
<1>2. attempt - 1 \in 0..conf.attempts
  BY <1>1 DEF TypeOK
<1>3. capped \in Nat
  BY <1>1, <1>2 DEF Least
<1>4. Least(conf.maxDelay, failure.retryAfter) \in Nat
  BY <1>1 DEF Least
<1>5. delay \in {Least(conf.maxDelay, failure.retryAfter), capped} \cup 0..(capped - 1)
  BY DEF Delays
<1> HIDE DEF capped
<1> QED
  BY <1>3, <1>4, <1>5

LEMMA AbortRunInv ==
  ASSUME IInv, NEW reason \in {Plain, RunTimeout}, AbortRun(reason),
         reason = RunTimeout => Raced /\ clock >= TimeLimit
  PROVE  IInv'
<1> USE DEF IInv
<1>1. /\ signal = NoError /\ Pending /\ signal' = reason
      /\ childSignal' = IF ChildRuns /\ childSignal = NoError THEN reason ELSE childSignal
      /\ outcome' = IF Raced THEN FromSignal(reason) ELSE outcome
      /\ UNCHANGED <<conf, clock, phase, asked, timeout, startedAt, attempt, wakeAt, childError>>
  BY DEF AbortRun, ChildVars, CallVars
<1>2. FromSignal(signal)' = FromSignal(reason)
  BY <1>1 DEF FromSignal, IsDogpileError, ClassifyAbortReason
<1>3. /\ FromSignal(reason) \in Errors
      /\ FromSignal(reason) \notin {NoError, EngineTimeout, InvalidDelegate, Resolved,
                                   ChildRunFailed, Aborted("timeout")}
      /\ FromSignal(reason) = RunTimeout => reason = RunTimeout
      /\ FromSignal(reason) = Aborted("parent-aborted") => reason = Plain
      /\ FromSignal(reason).code # "provider-timeout"
  BY ErrorsDiffer, ThrownReasons DEF Errors, Codes, Details, RunTimeout, Aborted, Error
<1>4. TypeOK'
  BY <1>1, <1>3 DEF TypeOK
<1>5. ClockInv'
  BY <1>1, ErrorsDiffer DEF ClockInv, ChildRuns, Deadline
<1>6. SignalInv'
  BY <1>1, ErrorsDiffer DEF SignalInv, ChildRuns, Raced, TimeLimit, Deadline, PhaseInv, TypeOK
<1>7. PhaseInv'
  BY <1>1, <1>2, ErrorsDiffer DEF PhaseInv, ChildRuns, Deadline, Retryable, Pending
<1>8. BlameIsRight'
  BY <1>1, <1>2, <1>3, ErrorsDiffer
  DEF BlameIsRight, Raced, TimeLimit, Deadline, Retryable, Pending, NetworkError, Plan, Decide
<1> QED
  BY <1>4, <1>5, <1>6, <1>7, <1>8

-----------------------------------------------------------------------------
(* Every step keeps the invariant                                          *)

\* The coordinator throws, with the error of its child as it was.
LEMMA CoordinatorThrows ==
  ASSUME IInv, phase \in {"planning", "finishing", "replanning"},
         NEW error \in Errors \ {NoError}, Blameable(error, childError), Throw(error),
         UNCHANGED <<conf, clock, signal, asked, timeout, startedAt, childSignal, attempt, wakeAt,
                     childError>>
  PROVE  IInv'
<1>1. phase # "over" /\ ErrorFits(childError') /\ Blameable(error, childError')
  BY DEF IInv, TypeOK, PhaseInv, ErrorFits
<1> QED
  BY <1>1, RunIsOver

\* A run that throws the reason of its signal blames it rightly.
LEMMA SignalBlames ==
  ASSUME TypeOK, signal # NoError, NEW known
  PROVE  FromSignal(signal) \in Errors \ {NoError} /\ Blameable(FromSignal(signal), known)
<1>1. signal \in {Plain, RunTimeout}
  BY DEF TypeOK
<1> QED
  BY <1>1, SignalOutcomes DEF Blameable

LEMMA PlanningInv ==
  ASSUME IInv, PlanAborted \/ Rejected \/ NoChild \/ Refused
  PROVE  IInv'
<1>1. CASE PlanAborted
  <2>1. FromSignal(signal) \in Errors \ {NoError} /\ Blameable(FromSignal(signal), childError)
    BY <1>1, SignalBlames DEF PlanAborted, IInv
  <2> QED
    BY <1>1, <2>1, CoordinatorThrows DEF PlanAborted, ChildVars, CallVars
<1>2. CASE Rejected
  <2>1. InvalidDelegate \in Errors \ {NoError}
    BY ErrorsDiffer DEF Errors, Codes, Details, InvalidDelegate, Error
  <2>2. Blameable(InvalidDelegate, childError)
    BY <1>2, ErrorsDiffer DEF Blameable, Rejected, IInv, PhaseInv, InvalidDelegate, Error
  <2> QED
    BY <1>2, <2>1, <2>2, CoordinatorThrows DEF Rejected, ChildVars, CallVars
<1>3. CASE NoChild
  <2>1. ErrorFits(childError')
    BY <1>3 DEF NoChild, IInv, TypeOK, PhaseInv, ErrorFits
  <2> QED
    BY <1>3, <2>1, RunGoesOn DEF NoChild, ChildVars, CallVars
<1>4. CASE Refused
  <2>1. Aborted("timeout") \in Errors \ {NoError}
    BY ErrorsDiffer DEF Errors, Codes, Details, Aborted, Error
  <2>2. Blameable(Aborted("timeout"), childError)
    BY <1>4, ErrorsDiffer DEF Blameable, Refused, IInv, PhaseInv, Aborted, Error
  <2> QED
    BY <1>4, <2>1, <2>2, CoordinatorThrows DEF Refused, ChildVars, CallVars
<1> QED
  BY <1>1, <1>2, <1>3, <1>4

\* The child starts with all of its time before it, in a run that may have children.
LEMMA StartInv ==
  ASSUME IInv, Start
  PROVE  IInv'
<1> USE DEF IInv
<1>1. /\ phase = "planning" /\ signal = NoError /\ phase' = "attempt" /\ startedAt' = clock
      /\ timeout' = ChildTimeout(asked')
      /\ Deadline = Never \/ clock < Deadline
      /\ UNCHANGED <<conf, clock, signal, childSignal, attempt, wakeAt, childError, outcome>>
  BY DEF Start, CallVars
<1>2. attempt = 0 /\ wakeAt = 0 /\ childSignal = NoError /\ Pending
  BY <1>1 DEF PhaseInv
<1>3. /\ conf.default \in 0..Never /\ conf.attempts \in Nat \ {0} /\ conf.maxDepth \in Nat
      /\ Never \in Nat /\ TimeLimit \in 0..Never /\ Deadline \in 0..Never
      /\ MaxClock \in Nat /\ clock \in 0..MaxClock
  BY ConfigFacts DEF TypeOK
<1>4. asked' \in 0..Never /\ conf.maxDepth >= 1
  BY <1>3, DelegationAsks DEF Start
<1>5. timeout' \in 0..Never /\ (Deadline = Never => timeout' \in {asked', conf.default})
  BY <1>1, <1>3, <1>4 DEF ChildTimeout, Least
<1>6. TypeOK'
  BY <1>1, <1>3, <1>4, <1>5 DEF TypeOK
<1>7. ClockInv'
  BY <1>1, <1>2, <1>3, <1>5 DEF ClockInv, Pending, TimeLimit
<1>8. SignalInv'
  BY <1>1, <1>2, ErrorsDiffer DEF SignalInv, ChildRuns
<1>9. PhaseInv'
  BY <1>1, <1>2, <1>3, <1>4, <1>5 DEF PhaseInv, Pending, Deadline, Retryable, NoError, Error
<1>10. BlameIsRight'
  BY <1>1, <1>2, ErrorsDiffer DEF BlameIsRight, Retryable, Pending, PhaseInv, NoError, Error
<1> QED
  BY <1>6, <1>7, <1>8, <1>9, <1>10

LEMMA CallInv ==
  ASSUME IInv, RetryAborted \/ Answer \/ Fail \/ Obey \/ Finish
  PROVE  IInv'
<1>1. CASE RetryAborted
  <2> DEFINE error == IF attempt = 0 THEN FromSignal(childSignal) ELSE childSignal
  <2>1. ChildRuns /\ Throwable(error) /\ ChildThrows(error)
    BY <1>1 DEF RetryAborted, CallIsAborted, ChildRuns, Throwable
  <2> HIDE DEF error
  <2> QED
    BY <1>1, <2>1, ChildThrowsInv DEF RetryAborted, ChildVars, CallVars
<1>2. CASE Answer
  <2>1. CASE childSignal # NoError
    <3>1. ChildRuns /\ Throwable(FromSignal(childSignal)) /\ ChildThrows(FromSignal(childSignal))
      BY <1>2, <2>1 DEF Answer, ChildRuns, Throwable
    <3> QED
      BY <1>2, <3>1, ChildThrowsInv DEF Answer, ChildVars, CallVars
  <2>2. CASE childSignal = NoError
    <3>1. /\ phase = "calling" /\ phase' = "finishing"
          /\ UNCHANGED <<conf, clock, signal, asked, timeout, startedAt, childSignal, attempt,
                         wakeAt, childError, outcome>>
      BY <1>2, <2>2 DEF Answer, ChildVars, CallVars
    <3> QED
      BY <3>1 DEF IInv, TypeOK, ClockInv, SignalInv, PhaseInv, BlameIsRight, ChildRuns, Pending,
                  Raced, TimeLimit, Deadline, Retryable, FromSignal, Plan, Decide
  <2> QED
    BY <2>1, <2>2
<1>3. CASE Fail
  <2>1. PICK failure \in Failures[conf.adapter] :
          LET error == ProviderError(conf.adapter, failure)
          IN  IF childSignal # NoError \/ LastAttempt \/ ~Retryable(error)
              THEN ChildThrows(error) /\ UNCHANGED wakeAt
              ELSE \E delay \in Delays(failure) :
                     /\ phase' = IF delay = 0 THEN "attempt" ELSE "sleeping"
                     /\ wakeAt' = Least(clock + delay, MaxClock)
                     /\ UNCHANGED <<childError, outcome>>
    BY <1>3 DEF Fail
  <2> DEFINE error == ProviderError(conf.adapter, failure)
  <2>2. /\ phase = "calling"
        /\ UNCHANGED <<conf, clock, signal, asked, timeout, startedAt, childSignal, attempt>>
    BY <1>3 DEF Fail, ChildVars
  <2>3. conf.adapter \in {"openai", "vercel", "own"}
    BY ConfigFacts DEF IInv, TypeOK
  <2>4. error \in CallErrors
    BY <2>3, ProviderThrows
  <2>5. CASE childSignal # NoError \/ LastAttempt \/ ~Retryable(error)
    <3>1. ChildThrows(error) /\ UNCHANGED wakeAt
      BY <2>1, <2>5
    <3>2. ChildRuns /\ Throwable(error)
      BY <2>2, <2>4, <2>5 DEF ChildRuns, Throwable
    <3> HIDE DEF error
    <3> QED
      BY <2>2, <3>1, <3>2, ChildThrowsInv
  <2>6. CASE ~(childSignal # NoError \/ LastAttempt \/ ~Retryable(error))
    <3>1. PICK delay \in Delays(failure) :
            /\ phase' = IF delay = 0 THEN "attempt" ELSE "sleeping"
            /\ wakeAt' = Least(clock + delay, MaxClock)
            /\ UNCHANGED <<childError, outcome>>
      BY <2>1, <2>6
    <3>2. failure.retryAfter \in 0..Never
      BY <2>3, FailuresAssumption
    <3>3. delay \in Nat
      BY <2>2, <3>2, DelaysAreNumbers DEF IInv, PhaseInv
    <3>4. clock \in 0..MaxClock /\ MaxClock \in Nat /\ conf.attempts \in Nat
          /\ attempt \in 0..conf.attempts
      BY ConfigFacts DEF IInv, TypeOK
    <3>5. attempt < conf.attempts
      BY <2>6, <3>4 DEF LastAttempt
    <3>6. wakeAt' \in Nat /\ (phase' = "attempt" => clock >= wakeAt')
      BY <3>1, <3>3, <3>4 DEF Least
    <3>7. phase' \in {"attempt", "sleeping"}
      BY <3>1
    <3> QED
      BY <2>2, <3>1, <3>5, <3>6, <3>7
      DEF IInv, TypeOK, ClockInv, SignalInv, PhaseInv, BlameIsRight, ChildRuns, Pending,
          Raced, TimeLimit, Deadline, Retryable, FromSignal, Plan, Decide
  <2> QED
    BY <2>5, <2>6
<1>4. CASE Obey
  <2>1. PICK error \in AbortedErrors(conf.adapter, childSignal, Plain) : ChildThrows(error)
    BY <1>4 DEF Obey
  <2>2. conf.adapter \in {"openai", "vercel", "own"}
    BY ConfigFacts DEF IInv, TypeOK
  <2>3. error = childSignal \/ error \in CallErrors
    BY <2>2, ObeyThrows
  <2>4. ChildRuns /\ Throwable(error)
    BY <1>4, <2>3 DEF Obey, ChildRuns, Throwable
  <2> QED
    BY <1>4, <2>1, <2>4, ChildThrowsInv DEF Obey, ChildVars, CallVars
<1>5. CASE Finish
  <2>1. /\ phase = "finishing"
        /\ UNCHANGED <<conf, clock, signal, asked, timeout, startedAt, childSignal, attempt, wakeAt>>
    BY <1>5 DEF Finish, ChildVars, CallVars
  <2>2. CASE childSignal # NoError /\ ChildThrows(FromSignal(childSignal))
    <3>1. ChildRuns /\ Throwable(FromSignal(childSignal))
      BY <2>1, <2>2 DEF ChildRuns, Throwable
    <3> QED
      BY <2>1, <2>2, <3>1, ChildThrowsInv
  <2>3. CASE signal # NoError /\ Throw(FromSignal(signal)) /\ UNCHANGED childError
    <3>1. FromSignal(signal) \in Errors \ {NoError} /\ Blameable(FromSignal(signal), childError)
      BY <2>3, SignalBlames DEF IInv
    <3> QED
      BY <2>1, <2>3, <3>1, CoordinatorThrows
  <2>4. CASE signal = NoError /\ phase' = "replanning" /\ UNCHANGED <<childError, outcome>>
    <3>1. ErrorFits(childError')
      BY <2>1, <2>4 DEF IInv, TypeOK, PhaseInv, ErrorFits
    <3> QED
      BY <2>1, <2>4, <3>1, RunGoesOn
  <2> QED
    BY <1>5, <2>2, <2>3, <2>4 DEF Finish
<1> QED
  BY <1>1, <1>2, <1>3, <1>4, <1>5

\* A step of withRetry that makes no call of its own changes only where the child is.
LEMMA LoopInv ==
  ASSUME IInv, Attempt \/ WakeUp
  PROVE  IInv'
<1>1. CASE Attempt
  <2>1. /\ phase = "attempt" /\ childSignal = NoError
        /\ phase' = "calling" /\ attempt' = attempt + 1
        /\ UNCHANGED <<conf, clock, signal, asked, timeout, startedAt, childSignal, wakeAt,
                       childError, outcome>>
    BY <1>1 DEF Attempt, CallIsAborted, ChildVars
  <2>2. attempt \in 0..conf.attempts /\ conf.attempts \in Nat /\ attempt < conf.attempts
    BY <2>1, ConfigFacts DEF IInv, TypeOK, PhaseInv
  <2>3. childError = NoError /\ conf.maxDepth >= 1
    BY <2>1 DEF IInv, PhaseInv, ChildRuns
  <2>4. Pending
    BY <2>1 DEF IInv, PhaseInv, SignalInv, ChildRuns
  <2> QED
    BY <2>1, <2>2, <2>3, <2>4, ErrorsDiffer
    DEF IInv, TypeOK, ClockInv, SignalInv, PhaseInv, BlameIsRight, ChildRuns, Pending,
        Raced, TimeLimit, Deadline, Retryable, FromSignal, NoError, Error
<1>2. CASE WakeUp
  <2>1. /\ phase = "sleeping" /\ phase' = "attempt" /\ clock >= wakeAt
        /\ UNCHANGED <<conf, clock, signal, asked, timeout, startedAt, childSignal, attempt,
                       wakeAt, childError, outcome>>
    BY <1>2 DEF WakeUp, ChildVars, CallVars
  <2> QED
    BY <2>1
    DEF IInv, TypeOK, ClockInv, SignalInv, PhaseInv, BlameIsRight, ChildRuns, Pending,
        Raced, TimeLimit, Deadline, Retryable, FromSignal, Plan, Decide
<1> QED
  BY <1>1, <1>2

LEMMA ReplanInv ==
  ASSUME IInv, Replan
  PROVE  IInv'
<1>1. CASE signal # NoError
  <2>1. FromSignal(signal) \in Errors \ {NoError} /\ Blameable(FromSignal(signal), childError)
    BY <1>1, SignalBlames DEF IInv
  <2> QED
    BY <1>1, <2>1, CoordinatorThrows DEF Replan, ChildVars, CallVars
<1>2. CASE signal = NoError
  <2>1. Resolved \in Errors \ {NoError}
    BY ErrorsDiffer DEF Errors, Codes, Details, Resolved, Error
  <2>2. Blameable(Resolved, childError)
    BY <1>2, ErrorsDiffer DEF Blameable, Resolved, Error
  <2> QED
    BY <1>2, <2>1, <2>2, CoordinatorThrows DEF Replan, ChildVars, CallVars
<1> QED
  BY <1>1, <1>2

\* The timer of a child ends it when its time is over, and no earlier.
LEMMA ChildTimerInv ==
  ASSUME IInv, ChildTimerFires
  PROVE  IInv'
<1>1. /\ Deadline = Never /\ ChildRuns /\ clock >= startedAt + timeout
      /\ childSignal = NoError /\ childSignal' = EngineTimeout
      /\ UNCHANGED <<conf, clock, signal, phase, asked, timeout, startedAt, attempt, wakeAt,
                     childError, outcome>>
  BY DEF ChildTimerFires, ChildTimerDue, TimerIsSet, ChildVars, CallVars
<1>2. timeout \in {asked, conf.default} /\ phase # "planning"
  BY <1>1 DEF IInv, PhaseInv, ChildRuns
<1>3. outcome # EngineTimeout
  BY <1>1, ErrorsDiffer DEF IInv, BlameIsRight
<1> QED
  BY <1>1, <1>2, <1>3, ErrorsDiffer
  DEF IInv, TypeOK, ClockInv, SignalInv, PhaseInv, BlameIsRight, ChildRuns, Pending,
      Raced, TimeLimit, Deadline, Retryable, FromSignal, Plan, Decide

\* Time does not pass a timer that is due.
LEMMA TickInv ==
  ASSUME IInv, Tick
  PROVE  IInv'
<1> USE DEF IInv
<1>1. /\ phase \in {"planning", "calling", "sleeping"}
      /\ ~RunTimerDue /\ ~ChildTimerDue /\ clock' = clock + 1
      /\ UNCHANGED <<conf, signal, phase, asked, timeout, startedAt, childSignal, attempt,
                     wakeAt, childError, outcome>>
  BY DEF Tick, ChildVars, CallVars
<1>2. /\ clock \in Nat /\ clock' \in 0..MaxClock /\ MaxClock \in Nat /\ MaxClock < Never
      /\ Never = MaxClock + 1
      /\ TimeLimit \in 0..Never /\ Deadline \in 0..Never
  <2>1. clock \in 0..MaxClock
    BY DEF TypeOK
  <2> QED
    BY <1>1, <2>1, ClockAssumption, ConfigFacts DEF Tick, TypeOK, Never
<1>3. startedAt \in 0..MaxClock /\ timeout \in 0..Never
  BY DEF TypeOK
<1>4. TypeOK'
  BY <1>1, <1>2 DEF TypeOK
<1>5. ClockInv'
  <2>1. signal = NoError /\ Pending => clock' <= TimeLimit
    BY <1>1, <1>2 DEF RunTimerDue, Raced
  <2>2. ChildRuns /\ childSignal = NoError /\ Deadline = Never => clock' <= startedAt + timeout
    BY <1>1, <1>2, <1>3 DEF ChildTimerDue, TimerIsSet
  <2> QED
    BY <1>1, <2>1, <2>2 DEF ClockInv, Pending, TimeLimit, ChildRuns, Deadline
<1>6. SignalInv'
  BY <1>1, <1>2, <1>3 DEF SignalInv, ChildRuns, Raced, TimeLimit, Deadline
<1>7. PhaseInv'
  BY <1>1 DEF PhaseInv, ChildRuns, Deadline, Pending, FromSignal, Retryable
<1>8. BlameIsRight'
  BY <1>1, <1>2, <1>3
  DEF BlameIsRight, Raced, TimeLimit, Deadline, FromSignal, Retryable, Pending, Plan, Decide
<1> QED
  BY <1>4, <1>5, <1>6, <1>7, <1>8

LEMMA StepInv ==
  ASSUME IInv, [Next]_vars
  PROVE  IInv'
<1>1. CASE UNCHANGED vars
  BY <1>1
  DEF vars, IInv, TypeOK, ClockInv, SignalInv, PhaseInv, BlameIsRight, ChildRuns, Pending,
      Raced, TimeLimit, Deadline, Retryable, FromSignal, Plan, Decide
<1>2. CASE Engine
  <2>1. CASE PlanAborted \/ Rejected \/ NoChild \/ Refused
    BY <2>1, PlanningInv
  <2>2. CASE RetryAborted \/ Finish
    BY <2>2, CallInv
  <2>3. CASE Attempt \/ WakeUp
    BY <2>3, LoopInv
  <2>4. CASE Replan
    BY <2>4, ReplanInv
  <2>5. CASE RunTimerFires
    BY <2>5, AbortRunInv DEF RunTimerFires, RunTimerDue
  <2>6. CASE ChildTimerFires
    BY <2>6, ChildTimerInv
  <2> QED
    BY <1>2, <2>1, <2>2, <2>3, <2>4, <2>5, <2>6 DEF Engine
<1>3. CASE Start
  BY <1>3, StartInv
<1>4. CASE Answer \/ Fail \/ Obey
  BY <1>4, CallInv
<1>5. CASE CallerAborts
  BY <1>5, AbortRunInv, ErrorsDiffer DEF CallerAborts
<1>6. CASE Tick
  BY <1>6, TickInv
<1>7. CASE Done
  BY <1>1, <1>7 DEF Done
<1> QED
  BY <1>1, <1>2, <1>3, <1>4, <1>5, <1>6, <1>7 DEF Next

-----------------------------------------------------------------------------
(* The theorems                                                            *)

\* The inductive invariant holds for every combination of limits, retry policies, plans
\* and failures of the providers.
THEOREM Invariance == Spec => []IInv
<1>1. Init => IInv
  BY InitInv
<1>2. IInv /\ [Next]_vars => IInv'
  BY StepInv
<1> QED
  BY <1>1, <1>2, PTL DEF Spec

\* Every variable keeps its type: no attempt beyond the policy, no limit below zero
\* whatever the plan turn asks for, and no error without a known code.
THEOREM TypeCorrect == Spec => []TypeOK
<1>1. IInv => TypeOK
  BY DEF IInv
<1> QED
  BY <1>1, Invariance, PTL

\* The error that run() rejects with names the party that ended the run.
THEOREM RightBlame == Spec => []BlameIsRight
<1>1. IInv => BlameIsRight
  BY DEF IInv
<1> QED
  BY <1>1, Invariance, PTL

\* No attempt of a retried call is made after an abort, after the run has settled, beyond
\* a limit that has a timer, or before its delay is over.
THEOREM NoLateAttempt == Spec => QuietAfterAbort
<1> DEFINE Quiet ==
      attempt' # attempt =>
        /\ {signal, childSignal, outcome} = {NoError}
        /\ attempt' = attempt + 1 /\ attempt' <= conf.attempts
        /\ clock <= TimeLimit /\ clock >= wakeAt
        /\ Deadline = Never => clock <= startedAt + timeout
<1>1. IInv /\ [Next]_vars => [Quiet]_vars
  <2> SUFFICES ASSUME IInv, [Next]_vars, attempt' # attempt PROVE Quiet
    OBVIOUS
  <2>1. Attempt
    BY DEF Next, Engine, PlanAborted, Rejected, NoChild, Refused, RetryAborted, WakeUp, Finish,
           Replan, RunTimerFires, ChildTimerFires, Start, Answer, Fail, Obey, CallerAborts,
           AbortRun, Tick, Done, vars, CallVars
  <2>2. phase = "attempt" /\ childSignal = NoError /\ attempt' = attempt + 1
    BY <2>1 DEF Attempt, CallIsAborted
  <2>3. attempt \in 0..conf.attempts /\ conf.attempts \in Nat /\ attempt < conf.attempts
    BY <2>2, ConfigFacts DEF IInv, TypeOK, PhaseInv
  <2>4. signal = NoError /\ Pending
    BY <2>2 DEF IInv, SignalInv, PhaseInv, ChildRuns
  <2> QED
    BY <2>2, <2>3, <2>4 DEF IInv, ClockInv, Pending, ChildRuns
<1> QED
  BY <1>1, Invariance, PTL DEF Spec, QuietAfterAbort
=============================================================================
