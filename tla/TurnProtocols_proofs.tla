-------------------------- MODULE TurnProtocols_proofs --------------------------
(***************************************************************************)
(* Proofs about the runs of the sequential, the broadcast and the shared   *)
(* protocol, for any agents, costs, tools and limits: the types, the quiet *)
(* end of a run, its one wrap-up hint, the output that is never stale and  *)
(* the reason behind every stop.                                           *)
(***************************************************************************)
EXTENDS TurnProtocols, InductionLemmas, SequenceTheorems, FiniteSetTheorems, TLAPS

-----------------------------------------------------------------------------
(* Sums                                                                    *)

\* A set of numbers that is not empty has a least element.
LEMMA LeastIsLeast ==
  ASSUME NEW S \in SUBSET Nat, S # {}
  PROVE  LeastOf(S) \in S /\ \A n \in S : LeastOf(S) <= n
BY LeastExists DEF LeastOf

\* The sums that CostUpTo stands for exist.
LEMMA SumsExist ==
  ASSUME NEW N \in Nat, NEW summands
  PROVE  \E sums : sums = [n \in 0..N |-> IF n = 0 THEN 0
                                          ELSE sums[n - 1] + summands[n].cost]
<1> DEFINE IsSum(sums, M) ==
             sums = [n \in 0..M |-> IF n = 0 THEN 0 ELSE sums[n - 1] + summands[n].cost]
           Summed == {M \in Nat : \E sums : IsSum(sums, M)}
<1>1. 0 \in Summed
  <2>1. IsSum([n \in 0..0 |-> 0], 0)
    OBVIOUS
  <2> QED
    BY <2>1
<1>2. ASSUME NEW M \in Summed
      PROVE  M + 1 \in Summed
  <2>1. PICK sums : IsSum(sums, M)
    OBVIOUS
  <2> DEFINE longer == [n \in 0..(M + 1) |-> IF n = M + 1 THEN sums[M] + summands[n].cost
                                             ELSE sums[n]]
  <2>2. \A n \in 0..M : sums[n] = IF n = 0 THEN 0 ELSE sums[n - 1] + summands[n].cost
    BY <2>1
  <2>3. \A n \in 0..(M + 1) :
          longer[n] = IF n = 0 THEN 0 ELSE longer[n - 1] + summands[n].cost
    BY <2>2
  <2>4. IsSum(longer, M + 1)
    BY <2>3
  <2> HIDE DEF IsSum, longer
  <2>5. \E some : IsSum(some, M + 1)
    BY <2>4
  <2> QED
    BY <2>5
<1>3. Summed = Nat
  <2> HIDE DEF Summed
  <2>1. Summed \in SUBSET Nat
    BY DEF Summed
  <2> QED
    BY <1>1, <1>2, <2>1, NaturalInduction
<1> QED
  BY <1>3

LEMMA CostUpToSums ==
  ASSUME conf.agents \in Nat
  PROVE  CostUpTo = [n \in 0..conf.agents |-> IF n = 0 THEN 0
                                              ELSE CostUpTo[n - 1] + reply[n].cost]
<1>1. \E sums : sums = [n \in 0..conf.agents |-> IF n = 0 THEN 0
                                                 ELSE sums[n - 1] + reply[n].cost]
  BY SumsExist
<1> QED
  BY <1>1 DEF CostUpTo

LEMMA CostUpToType ==
  ASSUME conf.agents \in Nat, \A a \in Agents : reply[a].cost \in Nat
  PROVE  CostUpTo \in [0..conf.agents -> Nat]
<1> DEFINE Typed == {n \in Nat : n <= conf.agents => CostUpTo[n] \in Nat}
<1>1. \A n \in 0..conf.agents :
        CostUpTo[n] = IF n = 0 THEN 0 ELSE CostUpTo[n - 1] + reply[n].cost
  BY CostUpToSums
<1>2. 0 \in Typed
  BY <1>1
<1>3. ASSUME NEW n \in Typed
      PROVE  n + 1 \in Typed
  <2> SUFFICES ASSUME n + 1 <= conf.agents
               PROVE  CostUpTo[n + 1] \in Nat
    OBVIOUS
  <2>1. CostUpTo[n + 1] = CostUpTo[n] + reply[n + 1].cost
    BY <1>1
  <2>2. CostUpTo[n] \in Nat /\ reply[n + 1].cost \in Nat
    BY DEF Agents
  <2> QED
    BY <2>1, <2>2
<1>4. Typed = Nat
  <2> HIDE DEF Typed
  <2>1. Typed \in SUBSET Nat
    BY DEF Typed
  <2> QED
    BY <1>2, <1>3, <2>1, NaturalInduction
<1>5. \A n \in 0..conf.agents : CostUpTo[n] \in Nat
  BY <1>4
<1> HIDE DEF Typed
<1> QED
  BY <1>5, CostUpToSums

-----------------------------------------------------------------------------
(* Sequences                                                               *)

IsSeq(s) == s \in Seq(Range(s))

LEMMA SeqFacts ==
  ASSUME NEW s, IsSeq(s)
  PROVE  Len(s) \in Nat /\ DOMAIN s = 1..Len(s)
BY LenProperties DEF IsSeq

LEMMA EmptyIsSeq == IsSeq(<<>>) /\ Len(<<>>) = 0
BY EmptySeq DEF IsSeq

LEMMA AppendFacts ==
  ASSUME NEW s, IsSeq(s), NEW e
  PROVE  /\ IsSeq(Append(s, e))
         /\ Len(Append(s, e)) = Len(s) + 1
         /\ DOMAIN Append(s, e) = 1..(Len(s) + 1)
         /\ Append(s, e)[Len(s) + 1] = e
         /\ \A k \in 1..Len(s) : Append(s, e)[k] = s[k]
<1> DEFINE All == Range(s) \cup {e}
<1>1. s \in Seq(All)
  <2>1. Range(s) \subseteq All
    OBVIOUS
  <2> QED
    BY <2>1, SeqMonotonic DEF IsSeq
<1>2. e \in All
  OBVIOUS
<1> HIDE DEF All
<1>3. /\ Append(s, e) \in Seq(All)
      /\ Len(Append(s, e)) = Len(s) + 1
      /\ Append(s, e)[Len(s) + 1] = e
      /\ \A k \in 1..Len(s) : Append(s, e)[k] = s[k]
  BY <1>1, <1>2, AppendProperties
<1>4. IsSeq(Append(s, e))
  BY <1>3, SeqOfRange DEF IsSeq
<1>5. DOMAIN Append(s, e) = 1..Len(Append(s, e))
  BY <1>3, LenProperties
<1> QED
  BY <1>3, <1>4, <1>5

LEMMA ConcatFacts ==
  ASSUME NEW s, IsSeq(s), NEW t, IsSeq(t)
  PROVE  /\ IsSeq(s \o t)
         /\ Len(s \o t) = Len(s) + Len(t)
         /\ DOMAIN (s \o t) = 1..(Len(s) + Len(t))
         /\ \A k \in 1..Len(s) : (s \o t)[k] = s[k]
         /\ \A k \in 1..Len(t) : (s \o t)[Len(s) + k] = t[k]
<1> DEFINE All == Range(s) \cup Range(t)
<1>1. s \in Seq(All) /\ t \in Seq(All)
  <2>1. Range(s) \subseteq All /\ Range(t) \subseteq All
    OBVIOUS
  <2> QED
    BY <2>1, SeqMonotonic DEF IsSeq
<1> HIDE DEF All
<1>2. s \o t \in Seq(All) /\ Len(s \o t) = Len(s) + Len(t)
      /\ \A i \in 1 .. Len(s) + Len(t) : (s \o t)[i] = IF i <= Len(s) THEN s[i]
                                                        ELSE t[i - Len(s)]
  BY <1>1, ConcatProperties
<1>3. IsSeq(s \o t)
  BY <1>2, SeqOfRange DEF IsSeq
<1>4. Len(s) \in Nat /\ Len(t) \in Nat /\ DOMAIN (s \o t) = 1..Len(s \o t)
  BY <1>1, <1>2, LenProperties
<1>5. \A k \in 1..Len(s) : (s \o t)[k] = s[k]
  BY <1>2, <1>4
<1>6. ASSUME NEW k \in 1..Len(t)
      PROVE  (s \o t)[Len(s) + k] = t[k]
  <2>1. Len(s) + k \in 1 .. Len(s) + Len(t) /\ ~(Len(s) + k <= Len(s))
    BY <1>4
  <2>2. Len(s) + k - Len(s) = k
    BY <1>4
  <2> QED
    BY <1>2, <2>1, <2>2
<1> QED
  BY <1>2, <1>3, <1>4, <1>5, <1>6

\* A function on 1..n is a sequence.
LEMMA FunctionIsSeq ==
  ASSUME NEW n \in Nat, NEW f, DOMAIN f = 1..n, f = [k \in 1..n |-> f[k]]
  PROVE  IsSeq(f) /\ Len(f) = n
<1>1. f \in [1..n -> Range(f)]
  BY DEF Range
<1>2. f \in Seq(Range(f))
  BY <1>1, SeqDef
<1>3. Len(f) \in Nat /\ DOMAIN f = 1..Len(f)
  BY <1>2, LenProperties
<1> QED
  BY <1>2, <1>3 DEF IsSeq

\* A log only grows, by elements of some kinds.
Extends(new, old) ==
  /\ IsSeq(new) /\ Len(old) <= Len(new)
  /\ \A k \in 1..Len(old) : new[k] = old[k]

Added(new, old) == {new[k] : k \in (Len(old) + 1)..Len(new)}

LEMMA AppendExtends ==
  ASSUME NEW s, IsSeq(s), NEW e
  PROVE  Extends(Append(s, e), s) /\ Added(Append(s, e), s) = {e}
<1>1. Len(s) \in Nat
  BY SeqFacts
<1>2. Extends(Append(s, e), s)
  BY <1>1, AppendFacts DEF Extends
<1>3. (Len(s) + 1)..Len(Append(s, e)) = {Len(s) + 1}
  BY <1>1, AppendFacts
<1> QED
  BY <1>2, <1>3, AppendFacts DEF Added

LEMMA ConcatExtends ==
  ASSUME NEW s, IsSeq(s), NEW t, IsSeq(t)
  PROVE  Extends(s \o t, s) /\ Added(s \o t, s) = Range(t)
<1>1. Len(s) \in Nat /\ Len(t) \in Nat /\ DOMAIN t = 1..Len(t)
  BY SeqFacts
<1>2. Extends(s \o t, s)
  BY <1>1, ConcatFacts DEF Extends
<1>3. ASSUME NEW k \in (Len(s) + 1)..Len(s \o t)
      PROVE  (s \o t)[k] \in Range(t)
  <2>1. k - Len(s) \in 1..Len(t) /\ k = Len(s) + (k - Len(s))
    BY <1>1, ConcatFacts
  <2>2. (s \o t)[k] = t[k - Len(s)]
    BY <2>1, ConcatFacts
  <2> QED
    BY <1>1, <2>1, <2>2 DEF Range
<1>4. ASSUME NEW k \in 1..Len(t)
      PROVE  t[k] \in Added(s \o t, s)
  <2>1. Len(s) + k \in (Len(s) + 1)..Len(s \o t)
    BY <1>1, ConcatFacts
  <2>2. (s \o t)[Len(s) + k] = t[k]
    BY ConcatFacts
  <2> QED
    BY <2>1, <2>2 DEF Added
<1> QED
  BY <1>1, <1>2, <1>3, <1>4 DEF Added, Range

\* The log r is s with t at its end.
Joined(r, s, t) ==
  /\ IsSeq(r) /\ Extends(r, s) /\ Added(r, s) = Range(t)
  /\ Len(r) = Len(s) + Len(t)
  /\ \A k \in 1..Len(t) : r[Len(s) + k] = t[k]

LEMMA ConcatJoins ==
  ASSUME NEW s, IsSeq(s), NEW t, IsSeq(t)
  PROVE  Joined(s \o t, s, t)
BY ConcatExtends, ConcatFacts DEF Joined

-----------------------------------------------------------------------------
(* The options of a run                                                    *)

RunOK == conf \in {options \in Configs : Accepted(options)}

LEMMA RunFacts ==
  ASSUME RunOK
  PROVE  /\ conf.protocol \in {"sequential", "broadcast", "shared"}
         /\ conf.agents \in Nat \ {0} /\ conf.limit \in Nat \ {0} /\ conf.floor \in Nat
         /\ \A response \in conf.answers :
              response.cost \in Nat /\ response.tools \in Seq(Range(response.tools))
BY ConfigsAssumption DEF RunOK, Accepted

\* The active agents are the first ones.
LEMMA WaveFacts ==
  ASSUME RunOK
  PROVE  /\ Cardinality(ActiveAgents) \in 1..conf.agents
         /\ ActiveAgents = 1..Cardinality(ActiveAgents)
         /\ ActiveAgents \subseteq Agents
         /\ conf.protocol = "broadcast" => Cardinality(ActiveAgents) = conf.agents
         /\ Waves \in Nat \ {0}
         /\ conf.protocol = "sequential" => Waves = Cardinality(ActiveAgents)
<1> DEFINE size == IF conf.protocol = "broadcast" THEN conf.agents
                   ELSE Least(conf.agents, conf.limit)
<1>1. size \in 1..conf.agents
  BY RunFacts DEF Least
<1>2. ActiveAgents = 1..size
  BY DEF ActiveAgents, Agents
<1>3. Cardinality(1..size) = size
  <2>1. 1 \in Int /\ size \in Int /\ 1 <= size
    BY <1>1, RunFacts
  <2> HIDE DEF size
  <2> QED
    BY <2>1, FS_Interval
<1>4. Cardinality(ActiveAgents) = size
  BY <1>2, <1>3
<1>5. Waves \in Nat \ {0}
  BY <1>1, <1>4, RunFacts DEF Waves
<1>6. conf.protocol = "sequential" => Waves = Cardinality(ActiveAgents)
  BY DEF Waves
<1>7. 1..size \subseteq Agents
  BY <1>1, RunFacts DEF Agents
<1> QED
  BY <1>1, <1>2, <1>4, <1>5, <1>6, <1>7

LEMMA ConfKept == [Next]_vars => conf' = conf
BY DEF vars, Next, Protocol, Turn, Start, Check, AbortNoticed, ThrowsIfAborted, Ask, WaveFails,
       SequentialRecord, SharedRecord, BroadcastRecord, RecordWave, Final, Evaluate, RaceLost,
       Chunk, Answer, ProviderFails, UseTool, ToolEnds, ToolIsAborted, ToolTimesOut,
       ToolEndsWith, ToolReturns, TurnEnds, CallerAborts, TimerFires, Tick, Done

\* What depends on the options only stays as it is.
LEMMA OptionsKept ==
  ASSUME conf' = conf
  PROVE  /\ RunOK' = RunOK
         /\ Agents' = Agents /\ ActiveAgents' = ActiveAgents /\ Waves' = Waves
         /\ Parallel' = Parallel /\ Conditions' = Conditions /\ Caps' = Caps /\ Raced' = Raced
         /\ BudgetsOf' = BudgetsOf
BY DEF RunOK, Agents, ActiveAgents, Waves, Parallel, Conditions, Caps, Raced, BudgetsOf

-----------------------------------------------------------------------------
(* What the actions do, in the terms that the invariants share             *)

\* The log of events, and the phases in which it is about to change.
LogOK ==
  /\ IsSeq(events) /\ IsSeq(transcript)
  /\ phase = "setup" => events = <<>> /\ transcript = <<>>

\* A step of a turn: at most one event, and nothing that a protocol decides.
TurnTypes == {"model-output-chunk", "model-response", "tool-call", "tool-result"}

TurnStep ==
  /\ phase \in {"turns", "over"}
  /\ UNCHANGED <<conf, phase, round, transcript, termination, hinted, clock, aborted, settled>>
  /\ Parallel => UNCHANGED totalCost
  /\ \/ UNCHANGED events
     \/ \E e : /\ events' = Append(events, e)
               /\ e.type \in TurnTypes /\ e.agent \in Agents

\* A step outside of the turns and of what the protocol records: the abort and the
\* clock, and the end.
OuterStep ==
  /\ UNCHANGED <<conf, round, WaveVars, Log, RunVars, termination, hinted>>
  /\ clock' = clock \/ (clock < MaxClock /\ clock' = clock + 1)
  /\ aborted' = aborted \/ aborted' = TRUE
  /\ phase' = phase \/ phase' = "over"

LEMMA TurnSteps ==
  ASSUME NEW a \in Agents, Turn(a)
  PROVE  TurnStep
<1> USE DEF TurnStep, TurnsGoOn, TurnTypes, Emit, EmitAndRecord, Log, RunVars, Event, Plain
<1>1. CASE Chunk(a)
  BY <1>1 DEF Chunk
<1>2. CASE Answer(a)
  BY <1>2 DEF Answer
<1>3. CASE ProviderFails(a)
  BY <1>3 DEF ProviderFails
<1>4. CASE UseTool(a)
  BY <1>4 DEF UseTool
<1>5. CASE ToolEnds(a) \/ ToolIsAborted(a) \/ ToolTimesOut(a)
  BY <1>5 DEF ToolEnds, ToolIsAborted, ToolTimesOut, ToolEndsWith
<1>6. CASE ToolReturns(a)
  BY <1>6 DEF ToolReturns
<1>7. CASE TurnEnds(a)
  BY <1>7 DEF TurnEnds
<1> QED
  BY <1>1, <1>2, <1>3, <1>4, <1>5, <1>6, <1>7 DEF Turn

LEMMA OuterSteps ==
  ASSUME AbortNoticed \/ WaveFails \/ Evaluate \/ RaceLost \/ CallerAborts \/ TimerFires \/ Tick
         \/ UNCHANGED vars
  PROVE  OuterStep
BY DEF OuterStep, AbortNoticed, ThrowsIfAborted, Throws, WaveFails, Evaluate, RaceLost,
       CallerAborts, TimerFires, Tick, vars, WaveVars, RunVars, Log, Tooling

Record == SequentialRecord \/ SharedRecord \/ BroadcastRecord

\* Every step is one of these.
LEMMA StepKinds ==
  ASSUME [Next]_vars
  PROVE  \/ Start \/ Check \/ (\E a \in Agents : Ask(a)) \/ (\E a \in Agents : Turn(a))
         \/ Record \/ Final
         \/ (\/ AbortNoticed \/ WaveFails \/ Evaluate \/ RaceLost \/ CallerAborts \/ TimerFires
             \/ Tick \/ UNCHANGED vars)
BY DEF Next, Protocol, Record, Done

\* A step that records a wave: n turns, of the agents in their order, and the end of the
\* round in a broadcast.
Speaker(k) == IF Parallel THEN k ELSE round + 1

\* What has been spent when the k-th turn of the wave is counted.
Spending(k) == IF Parallel THEN totalCost + CostUpTo[k] ELSE totalCost

RecordStep(n) ==
  /\ WaveDone /\ n = Cardinality(Wave) /\ n \in Nat \ {0}
  /\ \A k \in 1..n : Speaker(k) \in Wave
  /\ UNCHANGED <<conf, WaveVars, termination, hinted, clock, aborted, settled>>
  /\ phase' = "check" /\ round' = round + 1
  /\ totalCost' = IF Parallel THEN totalCost + CostUpTo[n] ELSE totalCost
  /\ Extends(events', events) /\ Extends(transcript', transcript)
  /\ Len(transcript') = Len(transcript) + n
  /\ \A k \in 1..n : transcript'[Len(transcript) + k] = Entry(Speaker(k))
  /\ Len(events') = Len(events) + n + (IF conf.protocol = "broadcast" THEN 1 ELSE 0)
  /\ \A k \in 1..n : /\ events'[Len(events) + k].type = "agent-turn"
                     /\ events'[Len(events) + k].agent = Speaker(k)
                     /\ events'[Len(events) + k].text = reply[Speaker(k)].text
                     /\ events'[Len(events) + k].total = Spending(k)
  /\ conf.protocol = "broadcast" =>
       /\ events'[Len(events) + n + 1].type = "broadcast"
       /\ events'[Len(events) + n + 1].agent = 0
       /\ events'[Len(events) + n + 1].total = totalCost'

LEMMA WaveSize ==
  ASSUME RunOK
  PROVE  /\ Cardinality(Wave) \in Nat \ {0} /\ Cardinality(Wave) <= conf.agents
         /\ Parallel => Wave = 1..Cardinality(Wave)
         /\ ~Parallel => Wave = {round + 1} /\ Cardinality(Wave) = 1
<1>1. CASE Parallel
  BY <1>1, WaveFacts, RunFacts DEF Wave
<1>2. CASE ~Parallel
  <2>1. Wave = {round + 1} /\ Cardinality({round + 1}) = 1
    BY <1>2, FS_Singleton DEF Wave
  <2> QED
    BY <1>2, <2>1, RunFacts
<1> QED
  BY <1>1, <1>2

\* The logs after turns and, maybe, one more event.
LEMMA Recorded ==
  ASSUME RunOK, LogOK, WaveDone, NEW n \in Nat, n = Cardinality(Wave), NEW turns, NEW extra, NEW total,
         IsSeq(turns), Len(turns) = n,
         \A k \in 1..n : /\ turns[k].type = "agent-turn" /\ turns[k].agent = Speaker(k)
                         /\ turns[k].text = reply[Speaker(k)].text
                         /\ turns[k].total = Spending(k),
         IF conf.protocol = "broadcast"
         THEN \E e : extra = <<e>> /\ e.type = "broadcast" /\ e.agent = 0 /\ e.total = total
         ELSE extra = <<>>,
         total = IF Parallel THEN totalCost + CostUpTo[n] ELSE totalCost,
         RecordWave(turns, total, extra)
  PROVE  RecordStep(n)
<1> DEFINE entries == [k \in DOMAIN turns |-> Entry(turns[k].agent)]
<1>1. n \in Nat \ {0} /\ \A k \in 1..n : Speaker(k) \in Wave
  BY WaveSize DEF Speaker
<1>2. IsSeq(turns) /\ Len(turns) = n /\ DOMAIN turns = 1..n
  BY SeqFacts
<1>3. IsSeq(extra) /\ Len(extra) = IF conf.protocol = "broadcast" THEN 1 ELSE 0
  <2>1. CASE conf.protocol = "broadcast"
    <3>1. PICK e : extra = <<e>>
      BY <2>1
    <3>2. <<e>> \in Seq({e}) /\ Len(<<e>>) = 1
      OBVIOUS
    <3> QED
      BY <2>1, <3>1, <3>2, SeqOfRange DEF IsSeq
  <2>2. CASE conf.protocol # "broadcast"
    BY <2>2, EmptyIsSeq
  <2> QED
    BY <2>1, <2>2
<1>4. IsSeq(entries) /\ Len(entries) = n
  BY <1>2, FunctionIsSeq
<1>5. events' = (events \o turns) \o extra /\ transcript' = transcript \o entries
  BY DEF RecordWave
<1>6. /\ UNCHANGED <<conf, WaveVars, termination, hinted, clock, aborted, settled>>
      /\ phase' = "check" /\ round' = round + 1 /\ totalCost' = total
  BY DEF RecordWave
<1> HIDE DEF entries
<1>7. /\ Extends(transcript', transcript) /\ Len(transcript') = Len(transcript) + n
      /\ \A k \in 1..n : transcript'[Len(transcript) + k] = entries[k]
  <2>1. IsSeq(transcript) /\ transcript' = transcript \o entries
    BY <1>5 DEF LogOK
  <2>2. Joined(transcript', transcript, entries)
    BY <1>4, <2>1, ConcatJoins
  <2> QED
    BY <1>4, <2>2 DEF Joined
<1>8. \A k \in 1..n : entries[k] = Entry(Speaker(k))
  BY <1>2 DEF entries
<1> DEFINE middle == events \o turns
<1>9. /\ IsSeq(middle) /\ Extends(middle, events)
      /\ Len(middle) = Len(events) + n
      /\ \A k \in 1..n : middle[Len(events) + k] = turns[k]
  <2>1. IsSeq(events)
    BY DEF LogOK
  <2>2. Joined(middle, events, turns)
    BY <1>2, <2>1, ConcatJoins
  <2> HIDE DEF middle
  <2> QED
    BY <1>2, <2>2 DEF Joined
<1>10. /\ Extends(events', middle)
       /\ Len(events') = Len(middle) + Len(extra)
       /\ \A k \in 1..Len(extra) : events'[Len(middle) + k] = extra[k]
  <2>1. events' = middle \o extra
    BY <1>5
  <2> HIDE DEF middle
  <2> QED
    <3>1. Joined(events', middle, extra)
      BY <1>3, <1>9, <2>1, ConcatJoins
    <3> QED
      BY <3>1 DEF Joined
<1> HIDE DEF middle
<1>11. Len(events) \in Nat
  BY SeqFacts DEF LogOK
<1>12. Extends(events', events)
  BY <1>9, <1>10, <1>11, <1>3 DEF Extends
<1>13. Len(events') = Len(events) + n + (IF conf.protocol = "broadcast" THEN 1 ELSE 0)
  BY <1>3, <1>9, <1>10
<1>14. ASSUME NEW k \in 1..n
       PROVE  /\ events'[Len(events) + k].type = "agent-turn"
              /\ events'[Len(events) + k].agent = Speaker(k)
              /\ events'[Len(events) + k].text = reply[Speaker(k)].text
              /\ events'[Len(events) + k].total = Spending(k)
  <2>1. Len(events) + k \in 1..Len(middle)
    BY <1>9, <1>11
  <2> QED
    BY <1>9, <1>10, <2>1 DEF Extends
<1>15. ASSUME conf.protocol = "broadcast"
       PROVE  /\ events'[Len(events) + n + 1].type = "broadcast"
              /\ events'[Len(events) + n + 1].agent = 0
              /\ events'[Len(events) + n + 1].total = totalCost'
  <2>1. PICK e : extra = <<e>> /\ e.type = "broadcast" /\ e.agent = 0 /\ e.total = total
    BY <1>15
  <2>2. extra[1] = e
    BY <2>1
  <2> QED
    BY <1>3, <1>6, <1>9, <1>10, <1>15, <2>1, <2>2
<1> QED
  BY <1>1, <1>6, <1>7, <1>8, <1>12, <1>13, <1>14, <1>15 DEF RecordStep

LEMMA RecordSteps ==
  ASSUME RunOK, LogOK, Record
  PROVE  \E n \in Nat : RecordStep(n)
<1> DEFINE n == Cardinality(Wave)
<1>1. n \in Nat /\ n <= conf.agents /\ WaveDone
  BY WaveSize DEF Record, SequentialRecord, SharedRecord, BroadcastRecord
<1>2. \A k, total : /\ TurnEvent(k, total).type = "agent-turn" /\ TurnEvent(k, total).agent = k
                    /\ TurnEvent(k, total).text = reply[k].text
                    /\ TurnEvent(k, total).total = total
  BY DEF TurnEvent, Plain, Event
<1>3. CASE SequentialRecord
  <2> DEFINE turns == <<TurnEvent(round + 1, totalCost)>>
  <2>1. ~Parallel /\ n = 1
    BY <1>3, WaveSize DEF SequentialRecord, Parallel
  <2>2. DOMAIN turns = 1..1 /\ turns[1] = TurnEvent(round + 1, totalCost)
    OBVIOUS
  <2>3. turns = [k \in 1..1 |-> turns[k]]
    OBVIOUS
  <2>4. RecordWave(turns, totalCost, <<>>)
    BY <1>3 DEF SequentialRecord
  <2>5. \A k \in 1..1 : /\ turns[k].type = "agent-turn" /\ turns[k].agent = Speaker(k)
                        /\ turns[k].text = reply[Speaker(k)].text
                        /\ turns[k].total = Spending(k)
    BY <1>2, <2>1, <2>2 DEF Speaker, Spending
  <2>6. conf.protocol # "broadcast"
    BY <2>1 DEF Parallel
  <2> HIDE DEF turns
  <2>7. IsSeq(turns) /\ Len(turns) = n
    BY <2>1, <2>2, <2>3, FunctionIsSeq
  <2> QED
    BY <1>1, <2>1, <2>7, <2>4, <2>5, <2>6, Recorded
<1>4. CASE SharedRecord \/ BroadcastRecord
  <2> DEFINE total == totalCost + CostUpTo[n]
             round_ == [Plain("broadcast", 0) EXCEPT !.total = total]
             extra == IF conf.protocol = "broadcast" THEN <<round_>> ELSE <<>>
  <2>1. Parallel
    BY <1>4 DEF SharedRecord, BroadcastRecord, Parallel
  <2>2. RecordWave(ParallelTurns, total, extra)
    BY <1>4 DEF SharedRecord, BroadcastRecord
  <2>3. DOMAIN ParallelTurns = 1..n /\ ParallelTurns = [k \in 1..n |-> ParallelTurns[k]]
    BY DEF ParallelTurns
  <2>4. \A k \in 1..n : /\ ParallelTurns[k].type = "agent-turn"
                        /\ ParallelTurns[k].agent = Speaker(k)
                        /\ ParallelTurns[k].text = reply[Speaker(k)].text
                        /\ ParallelTurns[k].total = Spending(k)
    BY <1>2, <2>1 DEF ParallelTurns, Speaker, Spending
  <2>5. round_.type = "broadcast" /\ round_.agent = 0 /\ round_.total = total
    BY DEF Plain, Event
  <2> HIDE DEF round_
  <2>6. IF conf.protocol = "broadcast"
        THEN \E e : extra = <<e>> /\ e.type = "broadcast" /\ e.agent = 0 /\ e.total = total
        ELSE extra = <<>>
    BY <2>5
  <2> HIDE DEF extra
  <2>7. IsSeq(ParallelTurns) /\ Len(ParallelTurns) = n
    BY <1>1, <2>3, FunctionIsSeq
  <2> QED
    BY <1>1, <2>1, <2>2, <2>7, <2>4, <2>6, Recorded
<1> QED
  BY <1>3, <1>4 DEF Record

\* The roles are assigned: the first events.
LEMMA StartSteps ==
  ASSUME RunOK, LogOK, Start
  PROVE  /\ IsSeq(events') /\ Len(events) = 0
         /\ \A k \in DOMAIN events' :
              events'[k].type = "role-assignment" /\ events'[k].agent \in Agents
<1> DEFINE size == Cardinality(ActiveAgents)
<1>1. size \in Nat /\ ActiveAgents = 1..size /\ ActiveAgents \subseteq Agents
  BY WaveFacts
<1>2. /\ DOMAIN events' = ActiveAgents
      /\ events' = [k \in ActiveAgents |-> events'[k]]
      /\ \A k \in ActiveAgents : events'[k] = Plain("role-assignment", k)
  BY DEF Start
<1>3. IsSeq(events')
  BY <1>1, <1>2, FunctionIsSeq
<1>4. Len(events) = 0
  BY EmptyIsSeq DEF Start, LogOK
<1>5. \A k : /\ Plain("role-assignment", k).type = "role-assignment"
             /\ Plain("role-assignment", k).agent = k
  BY DEF Plain, Event
<1> QED
  BY <1>1, <1>2, <1>3, <1>4, <1>5

\* At most one event, of one of the types, and of one of the agents or of none.
Adds(types, agents) ==
  \/ UNCHANGED events
  \/ \E e : /\ events' = Append(events, e)
            /\ e.type \in types /\ e.agent \in agents

LEMMA AddsExtends ==
  ASSUME LogOK, NEW types, NEW agents, Adds(types, agents)
  PROVE  /\ Extends(events', events)
         /\ \A e \in Added(events', events) : e.type \in types /\ e.agent \in agents
<1>1. CASE UNCHANGED events
  <2>1. Len(events) \in Nat
    BY SeqFacts DEF LogOK
  <2>2. Extends(events, events) /\ Added(events, events) = {}
    BY <2>1 DEF LogOK, Extends, Added
  <2> QED
    BY <1>1, <2>2
<1>2. ASSUME NEW e, events' = Append(events, e), e.type \in types, e.agent \in agents
      PROVE  /\ Extends(events', events)
             /\ \A f \in Added(events', events) : f.type \in types /\ f.agent \in agents
  BY <1>2, AppendExtends DEF LogOK
<1> QED
  BY <1>1, <1>2 DEF Adds

LEMMA SmallSteps ==
  /\ Check => Adds({"budget-stop"}, {0})
  /\ \A a : Ask(a) => Adds({"model-request"}, {a})
  /\ TurnStep => Adds(TurnTypes, Agents)
  /\ Final => Adds({"final"}, {0})
  /\ OuterStep => UNCHANGED events
<1> USE DEF Adds, Emit, EmitAndRecord, Log, Plain, Event
<1>1. Check => Adds({"budget-stop"}, {0})
  BY DEF Check, StopIfNeeded
<1>2. ASSUME NEW a, Ask(a)
      PROVE  Adds({"model-request"}, {a})
  BY <1>2 DEF Ask
<1>3. TurnStep => Adds(TurnTypes, Agents)
  BY DEF TurnStep
<1>4. ASSUME Final
      PROVE  Adds({"final"}, {0})
  <2> DEFINE final == [Plain("final", 0) EXCEPT !.text = Output]
  <2>1. final.type = "final" /\ final.agent = 0
    OBVIOUS
  <2>2. events' = Append(events, final)
    BY <1>4 DEF Final
  <2> HIDE DEF final
  <2> QED
    BY <2>1, <2>2
<1>5. OuterStep => UNCHANGED events
  BY DEF OuterStep
<1> QED
  BY <1>1, <1>2, <1>3, <1>4, <1>5

LEMMA LogStep ==
  ASSUME RunOK, LogOK, [Next]_vars
  PROVE  LogOK' /\ Extends(events', events) /\ Extends(transcript', transcript)
<1>0. ASSUME transcript' = transcript
      PROVE  IsSeq(transcript') /\ Extends(transcript', transcript)
  BY <1>0, SeqFacts DEF LogOK, Extends
<1>1. CASE Start
  <2>1. IsSeq(events') /\ Len(events) = 0 /\ Len(events') \in Nat
    BY <1>1, StartSteps, SeqFacts
  <2>2. Extends(events', events)
    BY <2>1 DEF Extends
  <2>3. phase' # "setup" /\ transcript' = transcript
    BY <1>1 DEF Start, RunVars
  <2> QED
    BY <2>1, <2>2, <2>3, <1>0 DEF LogOK
<1>2. ASSUME NEW types, NEW agents, Adds(types, agents), transcript' = transcript,
             phase' = "setup" => phase = "setup" /\ UNCHANGED events
      PROVE  LogOK' /\ Extends(events', events) /\ Extends(transcript', transcript)
  <2>1. Extends(events', events)
    BY <1>2, AddsExtends
  <2> QED
    BY <1>0, <1>2, <2>1 DEF LogOK, Extends
<1>3. CASE Check
  BY <1>2, <1>3, SmallSteps DEF Check, RunVars
<1>4. ASSUME NEW a \in Agents, Ask(a)
      PROVE  LogOK' /\ Extends(events', events) /\ Extends(transcript', transcript)
  BY <1>2, <1>4, SmallSteps DEF Ask, RunVars
<1>5. ASSUME NEW a \in Agents, Turn(a)
      PROVE  LogOK' /\ Extends(events', events) /\ Extends(transcript', transcript)
  <2>1. TurnStep
    BY <1>5, TurnSteps
  <2> QED
    BY <1>2, <2>1, SmallSteps DEF TurnStep
<1>6. CASE Record
  <2>1. PICK n \in Nat : RecordStep(n)
    BY <1>6, RecordSteps
  <2> QED
    BY <2>1 DEF RecordStep, LogOK, Extends
<1>7. CASE Final
  BY <1>2, <1>7, SmallSteps DEF Final, RunVars
<1>8. CASE \/ AbortNoticed \/ WaveFails \/ Evaluate \/ RaceLost \/ CallerAborts \/ TimerFires
           \/ Tick \/ UNCHANGED vars
  <2>1. OuterStep
    BY <1>8, OuterSteps
  <2>2. Adds({}, {}) /\ transcript' = transcript
        /\ (phase' = "setup" => phase = "setup" /\ UNCHANGED events)
    BY <2>1, SmallSteps DEF OuterStep, RunVars, Adds
  <2> QED
    BY <1>2, <2>2
<1> QED
  BY <1>1, <1>3, <1>4, <1>5, <1>6, <1>7, <1>8, StepKinds

-----------------------------------------------------------------------------
(* Types                                                                   *)

CallStates == {"idle", "called", "answered", "tool", "tool-ended", "done", "failed"}

Suffix(rest, all) == \E n \in 0..Len(all) : rest = SubSeq(all, n + 1, Len(all))

CallOK ==
  /\ call \in [Agents -> CallStates]
  /\ reply \in [Agents -> conf.answers \cup {NoResponse}]
  /\ chunks \in [Agents -> 0..MaxChunks]
  /\ DOMAIN toolsLeft = Agents
  /\ \A a \in Agents : Suffix(toolsLeft[a], reply[a].tools)
  /\ \A a \in Agents : call[a] \in {"tool", "tool-ended"} => toolsLeft[a] # <<>>

FlagsOK ==
  /\ phase \in {"setup", "check", "ask", "turns", "output", "evaluate", "over"}
  /\ round \in 0..Waves
  /\ phase \in {"ask", "turns"} => round < Waves
  /\ totalCost \in Nat /\ clock \in 0..MaxClock
  /\ {hinted, aborted} \subseteq BOOLEAN
  /\ settled \in {"no", "resolved", "rejected"}

SpeakersOK ==
  /\ \A k \in DOMAIN events : events[k].agent \in 0..conf.agents
  /\ \A k \in DOMAIN transcript : transcript[k].agent \in Agents

TypeInv == RunOK /\ LogOK /\ CallOK /\ FlagsOK /\ SpeakersOK

LEMMA TypeInvTypes == TypeInv => TypeOK
BY DEF TypeInv, RunOK, CallOK, CallStates, FlagsOK, SpeakersOK, Suffix, TypeOK

LEMMA RepliesTyped ==
  ASSUME RunOK, CallOK, NEW a \in Agents
  PROVE  reply[a].cost \in Nat /\ IsSeq(reply[a].tools)
<1>1. NoResponse.cost = 0 /\ NoResponse.tools = <<>>
  BY DEF NoResponse
<1>2. \A response \in conf.answers : response.cost \in Nat /\ IsSeq(response.tools)
  BY RunFacts DEF IsSeq
<1>3. CASE reply[a] = NoResponse
  BY <1>1, <1>3, EmptyIsSeq
<1>4. CASE reply[a] \in conf.answers
  BY <1>2, <1>4
<1> QED
  BY <1>3, <1>4 DEF CallOK

LEMMA SuffixFacts ==
  ASSUME NEW all, IsSeq(all)
  PROVE  /\ Suffix(all, all)
         /\ \A rest : Suffix(rest, all) /\ rest # <<>> => Suffix(Tail(rest), all)
<1>0. Len(all) \in Nat /\ all \in Seq(Range(all))
  BY SeqFacts DEF IsSeq
<1>1. Suffix(all, all)
  <2>1. all = SubSeq(all, 0 + 1, Len(all))
    BY <1>0, SubSeqFull
  <2> QED
    BY <1>0, <2>1 DEF Suffix
<1>2. ASSUME NEW rest, Suffix(rest, all), rest # <<>>
      PROVE  Suffix(Tail(rest), all)
  <2>1. PICK n \in 0..Len(all) : rest = SubSeq(all, n + 1, Len(all))
    BY <1>2 DEF Suffix
  <2>2. n < Len(all)
    <3> SUFFICES ASSUME n = Len(all)
                 PROVE  FALSE
      BY <1>0
    <3>1. SubSeq(all, n + 1, Len(all)) = <<>>
      BY <1>0, SubSeqEmpty
    <3> QED
      BY <1>2, <2>1, <3>1
  <2>3. Tail(rest) = SubSeq(all, (n + 1) + 1, Len(all))
    <3>1. n + 1 \in 1..Len(all) /\ Len(all) \in (n + 1)..Len(all)
      BY <1>0, <2>2
    <3> QED
      BY <1>0, <2>1, <3>1, HeadTailOfSubSeq
  <2>4. n + 1 \in 0..Len(all)
    BY <1>0, <2>2
  <2> QED
    BY <2>3, <2>4 DEF Suffix
<1> QED
  BY <1>1, <1>2

\* A step that leaves the tools as they are.
LEMMA CallKept ==
  ASSUME RunOK, CallOK, conf' = conf, UNCHANGED <<reply, toolsLeft>>,
         call' \in [Agents -> CallStates], chunks' \in [Agents -> 0..MaxChunks],
         \A b \in Agents : call'[b] \in {"tool", "tool-ended"} =>
            call[b] \in {"tool", "tool-ended"} \/ toolsLeft[b] # <<>>
  PROVE  CallOK'
BY OptionsKept DEF CallOK

LEMMA TurnCallStep ==
  ASSUME RunOK, CallOK, NEW a \in Agents, Turn(a)
  PROVE  CallOK'
<1> USE DEF CallStates
<1>0. conf' = conf
  BY ConfKept DEF Next
<1>1. CASE Chunk(a)
  <2>1. chunks' \in [Agents -> 0..MaxChunks]
    BY <1>1, BoundsAssumption DEF Chunk, CallOK
  <2>2. /\ call' \in [Agents -> CallStates] /\ UNCHANGED <<reply, toolsLeft>>
        /\ \A b \in Agents : call'[b] \in {"tool", "tool-ended"} => call[b] = call'[b]
    BY <1>1 DEF Chunk, CallOK, Tooling
  <2> QED
    BY <1>0, <2>1, <2>2, CallKept
<1>2. CASE Answer(a)
  <2>1. PICK response \in conf.answers :
          \/ /\ reply' = [reply EXCEPT ![a] = response]
             /\ toolsLeft' = [toolsLeft EXCEPT ![a] = response.tools]
          \/ UNCHANGED <<reply, toolsLeft>>
    BY <1>2 DEF Answer
  <2>2. /\ call' \in [Agents -> CallStates] /\ chunks' = chunks
        /\ \A b \in Agents : call'[b] \in {"tool", "tool-ended"} => b # a /\ call[b] = call'[b]
    BY <1>2 DEF Answer, CallOK
  <2>3. IsSeq(response.tools)
    BY RunFacts DEF IsSeq
  <2>4. CASE UNCHANGED <<reply, toolsLeft>>
    BY <1>0, <2>2, <2>4, CallKept DEF CallOK
  <2>5. CASE /\ reply' = [reply EXCEPT ![a] = response]
             /\ toolsLeft' = [toolsLeft EXCEPT ![a] = response.tools]
    <3>1. reply' \in [Agents -> conf.answers \cup {NoResponse}] /\ DOMAIN toolsLeft' = Agents
      BY <2>5 DEF CallOK
    <3>2. ASSUME NEW b \in Agents
          PROVE  Suffix(toolsLeft'[b], reply'[b].tools)
      BY <2>3, <2>5, SuffixFacts DEF CallOK
    <3>3. ASSUME NEW b \in Agents, call'[b] \in {"tool", "tool-ended"}
          PROVE  toolsLeft'[b] # <<>>
      BY <2>2, <2>5, <3>3 DEF CallOK
    <3> QED
      BY <1>0, <2>2, <3>1, <3>2, <3>3, OptionsKept DEF CallOK
  <2> QED
    BY <2>1, <2>4, <2>5
<1>3. CASE ProviderFails(a) \/ TurnEnds(a) \/ UseTool(a) \/ ToolEnds(a) \/ ToolIsAborted(a)
           \/ ToolTimesOut(a)
  <2>1. /\ call' \in [Agents -> CallStates] /\ UNCHANGED <<reply, toolsLeft, chunks>>
        /\ \A b \in Agents : call'[b] \in {"tool", "tool-ended"} =>
             call[b] \in {"tool", "tool-ended"} \/ toolsLeft[b] # <<>>
    BY <1>3 DEF ProviderFails, TurnEnds, UseTool, ToolEnds, ToolIsAborted, ToolTimesOut,
                ToolEndsWith, CallOK, Tooling
  <2> QED
    BY <1>0, <2>1, CallKept DEF CallOK
<1>4. CASE ToolReturns(a)
  <2>1. /\ call' \in [Agents -> CallStates] /\ UNCHANGED <<reply, chunks>>
        /\ toolsLeft' = [toolsLeft EXCEPT ![a] = Tail(@)]
        /\ \A b \in Agents : call'[b] \in {"tool", "tool-ended"} => b # a /\ call[b] = call'[b]
    BY <1>4 DEF ToolReturns, CallOK
  <2>2. IsSeq(reply[a].tools)
    BY RepliesTyped
  <2>3. toolsLeft[a] # <<>>
    BY <1>4 DEF ToolReturns, CallOK
  <2>4. ASSUME NEW b \in Agents
        PROVE  Suffix(toolsLeft'[b], reply'[b].tools)
    BY <2>1, <2>2, <2>3, SuffixFacts DEF CallOK
  <2>5. ASSUME NEW b \in Agents, call'[b] \in {"tool", "tool-ended"}
        PROVE  toolsLeft'[b] # <<>>
    BY <2>1, <2>5 DEF CallOK
  <2> QED
    BY <1>0, <2>1, <2>4, <2>5, OptionsKept DEF CallOK
<1> QED
  BY <1>1, <1>2, <1>3, <1>4 DEF Turn

LEMMA CallStep ==
  ASSUME TypeInv, [Next]_vars
  PROVE  CallOK'
<1> USE DEF CallStates
<1>0. conf' = conf /\ RunOK /\ LogOK /\ CallOK
  BY ConfKept DEF TypeInv
<1>1. ASSUME UNCHANGED WaveVars
      PROVE  CallOK'
  BY <1>0, <1>1, CallKept DEF WaveVars, CallOK
<1>2. CASE Start
  BY <1>1, <1>2 DEF Start
<1>3. CASE Check
  <2>1. /\ call' \in [Agents -> CallStates] /\ UNCHANGED <<reply, toolsLeft, chunks>>
        /\ \A b \in Agents : call'[b] = "idle"
    BY <1>3 DEF Check, Tooling
  <2> QED
    BY <1>0, <2>1, CallKept DEF CallOK
<1>4. ASSUME NEW a \in Agents, Ask(a)
      PROVE  CallOK'
  <2>1. /\ call' \in [Agents -> CallStates] /\ UNCHANGED <<reply, toolsLeft>>
        /\ \A b \in Agents : call'[b] \in {"tool", "tool-ended"} => call[b] = call'[b]
    BY <1>0, <1>4 DEF Ask, CallOK, Tooling
  <2>2. chunks' \in [Agents -> 0..MaxChunks]
    BY <1>0, <1>4, BoundsAssumption DEF Ask, CallOK
  <2> QED
    BY <1>0, <2>1, <2>2, CallKept
<1>5. ASSUME NEW a \in Agents, Turn(a)
      PROVE  CallOK'
  BY <1>0, <1>5, TurnCallStep
<1>6. CASE Record
  BY <1>0, <1>1, <1>6, RecordSteps DEF RecordStep
<1>7. CASE Final
  BY <1>1, <1>7 DEF Final
<1>8. CASE \/ AbortNoticed \/ WaveFails \/ Evaluate \/ RaceLost \/ CallerAborts \/ TimerFires
           \/ Tick \/ UNCHANGED vars
  BY <1>1, <1>8, OuterSteps DEF OuterStep
<1> QED
  BY <1>2, <1>3, <1>4, <1>5, <1>6, <1>7, <1>8, StepKinds

\* What a turn adds to the cost of a run.
LEMMA TurnCost ==
  ASSUME RunOK, FlagsOK, NEW a \in Agents, Turn(a)
  PROVE  totalCost' \in Nat
<1>1. CASE Answer(a)
  <2>1. PICK response \in conf.answers :
          totalCost' = totalCost + response.cost \/ UNCHANGED totalCost
    BY <1>1 DEF Answer
  <2>2. response.cost \in Nat /\ totalCost \in Nat
    BY RunFacts DEF FlagsOK
  <2> QED
    BY <2>1, <2>2
<1>2. ~Answer(a) => UNCHANGED totalCost
  BY DEF Turn, Chunk, ProviderFails, UseTool, ToolEnds, ToolIsAborted, ToolTimesOut,
         ToolEndsWith, ToolReturns, TurnEnds, RunVars
<1> QED
  BY <1>1, <1>2 DEF FlagsOK

LEMMA FlagsStep ==
  ASSUME TypeInv, [Next]_vars
  PROVE  FlagsOK'
<1>0. /\ conf' = conf /\ RunOK /\ LogOK /\ CallOK /\ FlagsOK
      /\ Waves' = Waves /\ Waves \in Nat \ {0}
  BY ConfKept, OptionsKept, WaveFacts DEF TypeInv
<1>1. CASE Start
  BY <1>0, <1>1 DEF Start, RunVars, FlagsOK
<1>2. CASE Check
  <2>1. /\ phase' = "output" \/ (phase' = "ask" /\ round # Waves)
        /\ UNCHANGED <<round, totalCost, hinted, clock, aborted, settled>>
    BY <1>2 DEF Check, RunVars
  <2> QED
    BY <1>0, <2>1 DEF FlagsOK
<1>3. ASSUME NEW a \in Agents, Ask(a)
      PROVE  FlagsOK'
  <2>1. /\ phase = "ask" /\ phase' \in {"ask", "turns"} /\ hinted' \in {TRUE, FALSE}
        /\ UNCHANGED <<round, totalCost, clock, aborted, settled>>
    BY <1>0, <1>3 DEF Ask, RunVars, Inject, FlagsOK
  <2> QED
    BY <1>0, <2>1 DEF FlagsOK
<1>4. ASSUME NEW a \in Agents, Turn(a)
      PROVE  FlagsOK'
  <2>1. UNCHANGED <<phase, round, hinted, clock, aborted, settled>>
    BY <1>4, TurnSteps DEF TurnStep
  <2>2. totalCost' \in Nat
    BY <1>0, <1>4, TurnCost
  <2> QED
    BY <1>0, <2>1, <2>2 DEF FlagsOK
<1>5. CASE Record
  <2>1. PICK n \in Nat : RecordStep(n)
    BY <1>0, <1>5, RecordSteps
  <2>2. n \in 0..conf.agents /\ conf.agents \in Nat
    BY <1>0, <2>1, WaveSize, RunFacts DEF RecordStep
  <2>3. CostUpTo[n] \in Nat
    BY <1>0, <2>2, RepliesTyped, CostUpToType
  <2>4. phase = "turns" /\ phase' = "check" /\ round' = round + 1
        /\ UNCHANGED <<hinted, clock, aborted, settled>> /\ totalCost' \in Nat
    BY <1>0, <2>1, <2>3, SMTT(30) DEF RecordStep, WaveDone, FlagsOK
  <2> QED
    BY <1>0, <2>4 DEF FlagsOK
<1>6. CASE Final
  BY <1>0, <1>6 DEF Final, RunVars, FlagsOK
<1>7. CASE \/ AbortNoticed \/ WaveFails \/ Evaluate \/ RaceLost \/ CallerAborts \/ TimerFires
           \/ Tick \/ UNCHANGED vars
  <2>1. OuterStep
    BY <1>7, OuterSteps
  <2>2. settled' \in {"no", "resolved", "rejected"}
    BY <1>0, <1>7 DEF AbortNoticed, ThrowsIfAborted, Throws, WaveFails, Evaluate, RaceLost,
                      CallerAborts, TimerFires, Tick, vars, FlagsOK
  <2>3. clock' \in 0..MaxClock
    BY <1>0, <2>1, BoundsAssumption DEF OuterStep, FlagsOK
  <2> QED
    BY <1>0, <2>1, <2>2, <2>3 DEF OuterStep, RunVars, FlagsOK
<1> QED
  BY <1>1, <1>2, <1>3, <1>4, <1>5, <1>6, <1>7, StepKinds

LEMMA WaveInAgents ==
  ASSUME RunOK, FlagsOK, phase \in {"ask", "turns"}
  PROVE  Wave \subseteq ActiveAgents /\ Wave \subseteq Agents
<1>1. CASE Parallel
  BY <1>1, WaveFacts DEF Wave
<1>2. CASE ~Parallel
  <2>1. conf.protocol = "sequential"
    BY <1>2 DEF Parallel
  <2>2. round + 1 \in ActiveAgents
    BY <2>1, WaveFacts DEF FlagsOK
  <2> QED
    BY <1>2, <2>2, WaveFacts DEF Wave
<1> QED
  BY <1>1, <1>2

\* Every event and every entry has a speaker.
LEMMA SpeakersStep ==
  ASSUME TypeInv, [Next]_vars
  PROVE  SpeakersOK'
<1>0. /\ conf' = conf /\ RunOK /\ LogOK /\ SpeakersOK
      /\ Agents' = Agents /\ Agents \subseteq 0..conf.agents
      /\ DOMAIN events = 1..Len(events) /\ DOMAIN transcript = 1..Len(transcript)
  BY ConfKept, OptionsKept, RunFacts, SeqFacts DEF TypeInv, LogOK, Agents
<1>1. LogOK' /\ DOMAIN events' = 1..Len(events') /\ Len(events) \in Nat
  BY <1>0, LogStep, SeqFacts DEF LogOK
<1>2. ASSUME NEW types, Adds(types, {0} \cup Agents)
      PROVE  \A k \in DOMAIN events' : events'[k].agent \in 0..conf'.agents
  <2>0. {0} \cup Agents \subseteq 0..conf.agents
    BY <1>0, RunFacts
  <2>1. /\ Extends(events', events)
        /\ \A e \in Added(events', events) : e.agent \in {0} \cup Agents
    BY <1>0, <1>2, AddsExtends
  <2>2. ASSUME NEW k \in DOMAIN events'
        PROVE  events'[k].agent \in 0..conf.agents
    <3>1. CASE k \in 1..Len(events)
      BY <1>0, <2>1, <3>1 DEF Extends, SpeakersOK
    <3>2. CASE k \in (Len(events) + 1)..Len(events')
      BY <2>0, <2>1, <3>2 DEF Added
    <3> QED
      BY <1>1, <3>1, <3>2
  <2> QED
    BY <1>0, <2>2
<1>3. ASSUME NEW types, Adds(types, {0} \cup Agents), UNCHANGED transcript
      PROVE  SpeakersOK'
  BY <1>0, <1>2, <1>3 DEF SpeakersOK
<1>4. CASE Start
  <2>1. \A k \in DOMAIN events' : events'[k].agent \in Agents
    BY <1>0, <1>4, StartSteps
  <2> QED
    BY <1>0, <1>4, <2>1 DEF Start, RunVars, SpeakersOK
<1>5. CASE Check
  BY <1>3, <1>5, SmallSteps DEF Adds, Check, RunVars
<1>6. ASSUME NEW a \in Agents, Ask(a)
      PROVE  SpeakersOK'
  <2>1. Adds({"model-request"}, {a}) /\ UNCHANGED transcript
    BY <1>6, SmallSteps DEF Ask, RunVars
  <2>2. Adds({"model-request"}, {0} \cup Agents)
    BY <2>1 DEF Adds
  <2> QED
    BY <1>3, <2>1, <2>2
<1>7. ASSUME NEW a \in Agents, Turn(a)
      PROVE  SpeakersOK'
  BY <1>3, <1>7, SmallSteps, TurnSteps DEF Adds, TurnStep
<1>8. CASE Record
  <2>1. PICK n \in Nat : RecordStep(n)
    BY <1>0, <1>8, RecordSteps
  <2>2. \A k \in 1..n : Speaker(k) \in Agents
    BY <1>0, <2>1, WaveInAgents DEF RecordStep, WaveDone, TypeInv
  <2>3. ASSUME NEW k \in DOMAIN transcript'
        PROVE  transcript'[k].agent \in Agents
    <3>1. Len(transcript) \in Nat /\ DOMAIN transcript' = 1..(Len(transcript) + n)
      BY <1>0, <1>1, <2>1, SeqFacts DEF LogOK, RecordStep
    <3>2. CASE k \in 1..Len(transcript)
      BY <1>0, <2>1, <3>2 DEF RecordStep, Extends, SpeakersOK
    <3>3. CASE k \in (Len(transcript) + 1)..(Len(transcript) + n)
      <4>1. k - Len(transcript) \in 1..n /\ k = Len(transcript) + (k - Len(transcript))
        BY <3>1, <3>3
      <4>2. transcript'[k] = Entry(Speaker(k - Len(transcript)))
        BY <2>1, <4>1 DEF RecordStep
      <4> QED
        BY <2>2, <4>1, <4>2 DEF Entry
    <3> QED
      BY <3>1, <3>2, <3>3
  <2>4. ASSUME NEW k \in DOMAIN events'
        PROVE  events'[k].agent \in 0..conf.agents
    <3>1. CASE k \in 1..Len(events)
      BY <1>0, <2>1, <3>1 DEF RecordStep, Extends, SpeakersOK
    <3>2. CASE k \in (Len(events) + 1)..(Len(events) + n)
      <4>1. k - Len(events) \in 1..n /\ k = Len(events) + (k - Len(events))
        BY <1>1, <3>2
      <4>2. events'[k].agent = Speaker(k - Len(events))
        BY <2>1, <4>1 DEF RecordStep
      <4> QED
        BY <1>0, <2>2, <4>1, <4>2
    <3>3. CASE conf.protocol = "broadcast" /\ k = Len(events) + n + 1
      BY <2>1, <3>3, RunFacts, <1>0, SMTT(30) DEF RecordStep
    <3>4. Len(events') = Len(events) + n + (IF conf.protocol = "broadcast" THEN 1 ELSE 0)
      BY <2>1 DEF RecordStep
    <3> QED
      BY <1>1, <3>1, <3>2, <3>3, <3>4
  <2> QED
    BY <1>0, <2>3, <2>4 DEF SpeakersOK
<1>9. CASE Final
  BY <1>3, <1>9, SmallSteps DEF Adds, Final, RunVars
<1>10. CASE \/ AbortNoticed \/ WaveFails \/ Evaluate \/ RaceLost \/ CallerAborts \/ TimerFires
            \/ Tick \/ UNCHANGED vars
  <2>1. OuterStep
    BY <1>10, OuterSteps
  <2>2. Adds({}, {0} \cup Agents) /\ UNCHANGED transcript
    BY <2>1, SmallSteps DEF OuterStep, RunVars, Adds
  <2> QED
    BY <1>3, <2>2
<1> QED
  BY <1>4, <1>5, <1>6, <1>7, <1>8, <1>9, <1>10, StepKinds

LEMMA TypeInit == Init => TypeInv
<1> SUFFICES ASSUME Init
             PROVE  TypeInv
  OBVIOUS
<1>1. RunOK
  BY DEF Init, RunOK
<1>2. LogOK
  BY EmptyIsSeq DEF Init, LogOK
<1>3. CallOK
  <2>1. NoResponse.tools = <<>> /\ IsSeq(<<>>)
    BY EmptyIsSeq DEF NoResponse
  <2>2. Suffix(<<>>, <<>>)
    BY <2>1, SuffixFacts
  <2> QED
    BY <2>1, <2>2, BoundsAssumption DEF Init, CallOK, CallStates
<1>4. FlagsOK
  <2>1. /\ phase = "setup" /\ round = 0 /\ totalCost = 0 /\ clock = 0 /\ settled = "no"
        /\ hinted = FALSE /\ aborted = FALSE
    BY DEF Init
  <2>2. {hinted, aborted} \subseteq BOOLEAN
    BY <2>1
  <2>3. 0 \in 0..Waves /\ 0 \in 0..MaxClock
    BY <1>1, WaveFacts, BoundsAssumption
  <2> QED
    BY <2>1, <2>2, <2>3 DEF FlagsOK
<1>5. SpeakersOK
  BY DEF Init, SpeakersOK
<1> QED
  BY <1>1, <1>2, <1>3, <1>4, <1>5 DEF TypeInv

LEMMA TypeStep == TypeInv /\ [Next]_vars => TypeInv'
<1> SUFFICES ASSUME TypeInv, [Next]_vars
             PROVE  TypeInv'
  OBVIOUS
<1>1. RunOK'
  BY ConfKept, OptionsKept DEF TypeInv
<1>2. LogOK'
  BY LogStep DEF TypeInv
<1> QED
  BY <1>1, <1>2, CallStep, FlagsStep, SpeakersStep DEF TypeInv

THEOREM TypeInvariant == Spec => []TypeInv
<1>1. TypeInv /\ [Next]_vars => TypeInv'
  BY TypeStep
<1> QED
  BY TypeInit, <1>1, PTL DEF Spec

\* Every variable keeps its type: the log of a run has events of its agents only, no
\* wave is recorded after the last one, and the tools that an answer still has to run
\* are a rest of those that it asked for.
THEOREM TypeCorrect == Spec => []TypeOK
<1>1. TypeInv => TypeOK
  BY TypeInvTypes
<1> QED
  BY TypeInvariant, <1>1, PTL

-----------------------------------------------------------------------------
(* The quiet end                                                           *)

\* A call that its provider or its tools may still answer.
Active == {"called", "answered", "tool", "tool-ended"}

\* The protocol is not over before its promise has settled; the sequential protocol has
\* no call open but that of the agent whose turn it is.
QuietInv ==
  /\ phase = "over" => settled # "no"
  /\ ~Parallel => \A a \in Agents : call[a] \in Active => phase = "turns" /\ a = round + 1

\* A step of the turn of an agent whose call is active.
LEMMA TurnActive ==
  ASSUME RunOK, CallOK, NEW a \in Agents, Turn(a)
  PROVE  call[a] \in Active /\ \A b \in Agents : b # a => call'[b] = call[b]
<1> USE DEF Active, CallOK
<1>1. CASE Chunk(a) \/ Answer(a) \/ ProviderFails(a)
  BY <1>1 DEF Chunk, Answer, ProviderFails
<1>2. CASE UseTool(a) \/ ToolReturns(a) \/ TurnEnds(a)
  BY <1>2 DEF UseTool, ToolReturns, TurnEnds
<1>3. CASE ToolEnds(a) \/ ToolIsAborted(a) \/ ToolTimesOut(a)
  BY <1>3 DEF ToolEnds, ToolIsAborted, ToolTimesOut, ToolEndsWith
<1> QED
  BY <1>1, <1>2, <1>3 DEF Turn

LEMMA QuietStep ==
  ASSUME TypeInv, QuietInv, [Next]_vars
  PROVE  QuietInv'
<1>0. /\ conf' = conf /\ RunOK /\ LogOK /\ CallOK /\ FlagsOK
      /\ Agents' = Agents /\ Parallel' = Parallel
  BY ConfKept, OptionsKept DEF TypeInv
<1>1. CASE Start
  BY <1>0, <1>1 DEF Start, WaveVars, QuietInv, Active
<1>2. CASE Check
  BY <1>0, <1>2 DEF Check, QuietInv, CallOK, Active
<1>3. ASSUME NEW a \in Agents, Ask(a)
      PROVE  QuietInv'
  <2>1. phase = "ask" /\ phase' \in {"ask", "turns"} /\ a \in Wave /\ round' = round
    BY <1>3 DEF Ask
  <2>2. ASSUME ~Parallel
        PROVE  a = round + 1 /\ phase' = "turns"
               /\ \A b \in Agents : call'[b] \in Active => b = a
    <3>1. Wave = {round + 1} /\ a = round + 1
      BY <1>0, <2>1, <2>2, WaveSize
    <3>2. \A b \in Wave : b <= a
      BY <3>1, <1>0 DEF FlagsOK, Agents
    <3>3. phase' = "turns"
      BY <1>3, <3>2 DEF Ask
    <3>4. \A b \in Agents : b # a => call'[b] = call[b]
      BY <1>0, <1>3 DEF Ask, CallOK
    <3> QED
      BY <2>1, <2>2, <3>1, <3>3, <3>4 DEF QuietInv
  <2> QED
    BY <1>0, <2>1, <2>2 DEF QuietInv
<1>4. ASSUME NEW a \in Agents, Turn(a)
      PROVE  QuietInv'
  <2>1. UNCHANGED <<phase, round, settled>>
    BY <1>4, TurnSteps DEF TurnStep
  <2>2. call[a] \in Active /\ \A b \in Agents : b # a => call'[b] = call[b]
    BY <1>0, <1>4, TurnActive
  <2> QED
    BY <1>0, <2>1, <2>2 DEF QuietInv
<1>5. CASE Record
  <2>1. PICK n \in Nat : RecordStep(n)
    BY <1>0, <1>5, RecordSteps
  <2>2. phase' = "check" /\ UNCHANGED call /\ \A a \in Wave : call[a] = "done"
    BY <2>1 DEF RecordStep, WaveVars, WaveDone
  <2>3. ~Parallel => \A a \in Agents : call'[a] \notin Active
    <3>1. ~Parallel => round + 1 \in Wave
      BY DEF Wave
    <3> QED
      BY <2>2, <3>1 DEF QuietInv, Active
  <2> QED
    BY <1>0, <2>2, <2>3 DEF QuietInv
<1>6. CASE Final
  BY <1>0, <1>6 DEF Final, WaveVars, QuietInv
<1>7. CASE WaveFails
  <2>1. ~Parallel => \A a \in Agents : call[a] \notin Active
    <3>1. ~Parallel => Wave = {round + 1}
      BY DEF Wave
    <3> QED
      BY <1>7, <3>1 DEF WaveFails, QuietInv, Active
  <2>2. UNCHANGED call /\ settled' # "no"
    BY <1>7 DEF WaveFails, WaveVars, Throws
  <2> QED
    BY <1>0, <2>1, <2>2 DEF QuietInv
<1>8. CASE AbortNoticed \/ Evaluate
  <2>1. phase \in {"setup", "check", "output", "evaluate"} /\ settled' # "no" /\ UNCHANGED <<call, round>>
    BY <1>8 DEF AbortNoticed, ThrowsIfAborted, Throws, Evaluate, WaveVars
  <2> QED
    BY <1>0, <2>1 DEF QuietInv
<1>9. CASE RaceLost \/ CallerAborts \/ TimerFires \/ Tick \/ UNCHANGED vars
  <2>1. UNCHANGED <<phase, call, round>> /\ (settled' = settled \/ settled' # "no")
    BY <1>9 DEF RaceLost, CallerAborts, TimerFires, Tick, vars, WaveVars
  <2> QED
    BY <1>0, <2>1 DEF QuietInv
<1> QED
  BY <1>1, <1>2, <1>3, <1>4, <1>5, <1>6, <1>7, <1>8, <1>9, StepKinds

LEMMA QuietInit == Init => QuietInv
BY DEF Init, QuietInv, Active

THEOREM QuietInvariant == Spec => [](TypeInv /\ QuietInv)
<1>1. Init => TypeInv /\ QuietInv
  BY TypeInit, QuietInit
<1>2. TypeInv /\ QuietInv /\ [Next]_vars => (TypeInv /\ QuietInv)'
  BY TypeStep, QuietStep
<1> QED
  BY <1>1, <1>2, PTL DEF Spec

\* What is appended is what the log has more than before.
LEMMA AppendedIsAdded ==
  ASSUME RunOK, LogOK, [Next]_vars
  PROVE  Appended = Added(events', events)
<1>1. /\ Len(events) \in Nat /\ DOMAIN events = 1..Len(events)
      /\ Len(events') \in Nat /\ DOMAIN events' = 1..Len(events')
  BY LogStep, SeqFacts DEF LogOK
<1>2. DOMAIN events' \ DOMAIN events = (Len(events) + 1)..Len(events')
  BY <1>1
<1> QED
  BY <1>2 DEF Appended, Added

\* The action of EndIsQuiet.
QuietStepOf ==
  /\ aborted => \A e \in Appended :
       e.type \in {"agent-turn", "broadcast", "tool-call", "tool-result"}
  /\ aborted /\ Raced /\ settled = "no" => settled' # "resolved"
  /\ phase = "over" =>
       /\ UNCHANGED <<transcript, providerCalls, totalCost, settled, round>>
       /\ \A e \in Appended : e.type \in {"model-response", "model-output-chunk",
                                          "tool-call", "tool-result"}

LEMMA TurnIsQuiet ==
  ASSUME NEW a \in Agents, Turn(a)
  PROVE  /\ Adds(IF aborted THEN {"tool-call", "tool-result"} ELSE TurnTypes, Agents)
         /\ Parallel => UNCHANGED <<providerCalls, totalCost>>
<1> USE DEF TurnTypes, Adds, Emit, EmitAndRecord, Log, RunVars, Event, Plain
<1>1. CASE Chunk(a)
  BY <1>1 DEF Chunk
<1>2. CASE Answer(a)
  BY <1>2 DEF Answer, AnswerCounts
<1>3. CASE UseTool(a)
  BY <1>3 DEF UseTool
<1>4. CASE ToolReturns(a)
  BY <1>4 DEF ToolReturns
<1>5. CASE ProviderFails(a) \/ ToolEnds(a) \/ ToolIsAborted(a) \/ ToolTimesOut(a) \/ TurnEnds(a)
  BY <1>5 DEF ProviderFails, ToolEnds, ToolIsAborted, ToolTimesOut, ToolEndsWith, TurnEnds
<1> QED
  BY <1>1, <1>2, <1>3, <1>4, <1>5 DEF Turn

LEMMA StepIsQuiet ==
  ASSUME TypeInv, QuietInv, [Next]_vars
  PROVE  QuietStepOf
<1>0. RunOK /\ LogOK /\ CallOK /\ FlagsOK /\ Appended = Added(events', events)
  BY AppendedIsAdded DEF TypeInv
<1>1. ASSUME ~aborted, phase # "over"
      PROVE  QuietStepOf
  BY <1>1 DEF QuietStepOf
<1>2. CASE Start \/ Check \/ Final
  BY <1>1, <1>2 DEF Start, Check, Final
<1>3. ASSUME NEW a \in Agents, Ask(a)
      PROVE  QuietStepOf
  <2>1. phase # "over" /\ UNCHANGED settled /\ (aborted => UNCHANGED events)
    BY <1>3 DEF Ask, Log
  <2>2. aborted => Adds({}, {})
    BY <2>1 DEF Adds
  <2>3. aborted => Appended = {}
    BY <1>0, <2>2, AddsExtends
  <2> QED
    BY <2>1, <2>3 DEF QuietStepOf
<1>4. ASSUME NEW a \in Agents, Turn(a)
      PROVE  QuietStepOf
  <2>1. UNCHANGED <<phase, round, transcript, settled>>
    BY <1>4, TurnSteps DEF TurnStep
  <2>2. \A e \in Appended :
          e.type \in IF aborted THEN {"tool-call", "tool-result"} ELSE TurnTypes
    BY <1>0, <1>4, TurnIsQuiet, AddsExtends
  <2>3. phase = "over" => UNCHANGED <<providerCalls, totalCost>>
    BY <1>0, <1>4, TurnActive, TurnIsQuiet DEF QuietInv
  <2> QED
    BY <2>1, <2>2, <2>3 DEF QuietStepOf, TurnTypes
<1>5. CASE Record
  <2>1. PICK n \in Nat : RecordStep(n)
    BY <1>0, <1>5, RecordSteps
  <2>2. phase = "turns" /\ UNCHANGED settled
    BY <2>1 DEF RecordStep, WaveDone
  <2>3. ASSUME NEW e \in Appended
        PROVE  e.type \in {"agent-turn", "broadcast"}
    <3>1. PICK k \in (Len(events) + 1)..Len(events') : e = events'[k]
      BY <1>0 DEF Added
    <3>2. Len(events) \in Nat
      BY <1>0, SeqFacts DEF LogOK
    <3>3. CASE k <= Len(events) + n
      <4>1. k - Len(events) \in 1..n /\ k = Len(events) + (k - Len(events))
        BY <3>2, <3>3
      <4>2. events'[k].type = "agent-turn"
        BY <2>1, <4>1 DEF RecordStep
      <4> QED
        BY <3>1, <4>2
    <3>4. CASE k > Len(events) + n
      <4>1. conf.protocol = "broadcast" /\ k = Len(events) + n + 1
        BY <2>1, <3>2, <3>4 DEF RecordStep
      <4> QED
        BY <2>1, <3>1, <4>1 DEF RecordStep
    <3> QED
      BY <3>2, <3>3, <3>4
  <2> QED
    BY <2>2, <2>3 DEF QuietStepOf
<1>6. CASE \/ AbortNoticed \/ WaveFails \/ Evaluate \/ RaceLost \/ CallerAborts \/ TimerFires
           \/ Tick \/ UNCHANGED vars
  <2>1. OuterStep
    BY <1>6, OuterSteps
  <2>2. Adds({}, {}) /\ UNCHANGED <<transcript, providerCalls, totalCost, round>>
    BY <2>1, SmallSteps DEF OuterStep, RunVars, Adds
  <2>3. Appended = {}
    BY <1>0, <2>2, AddsExtends
  <2>4. aborted /\ Raced /\ settled = "no" => settled' # "resolved"
    BY <1>6 DEF AbortNoticed, ThrowsIfAborted, Throws, WaveFails, Evaluate, RaceLost,
                CallerAborts, TimerFires, Tick, vars
  <2>5. phase = "over" => settled' = settled
    BY <1>6 DEF AbortNoticed, ThrowsIfAborted, Throws, WaveFails, Evaluate, RaceLost,
                CallerAborts, TimerFires, Tick, vars, QuietInv
  <2> QED
    BY <2>2, <2>3, <2>4, <2>5 DEF QuietStepOf
<1> QED
  BY <1>2, <1>3, <1>4, <1>5, <1>6, StepKinds

\* Once the signal of a run is aborted, nothing is asked and no answer counts; once its
\* protocol is over, the calls that it left behind change nothing of its result.
THEOREM EndQuiet == Spec => EndIsQuiet
<1>1. TypeInv /\ QuietInv /\ [Next]_vars => [QuietStepOf]_vars
  BY StepIsQuiet
<1>2. [QuietStepOf]_vars =>
        [/\ aborted => \A e \in Appended :
              e.type \in {"agent-turn", "broadcast", "tool-call", "tool-result"}
         /\ aborted /\ Raced /\ settled = "no" => settled' # "resolved"
         /\ phase = "over" =>
              /\ UNCHANGED <<transcript, providerCalls, totalCost, settled, round>>
              /\ \A e \in Appended : e.type \in {"model-response", "model-output-chunk",
                                                 "tool-call", "tool-result"}]_vars
  BY DEF QuietStepOf
<1> QED
  BY QuietInvariant, <1>1, <1>2, PTL DEF Spec, EndIsQuiet

-----------------------------------------------------------------------------
(* Positions of events                                                     *)

LEMMA OfStep ==
  ASSUME LogOK, Extends(events', events), NEW type
  PROVE  Of(type)' = Of(type) \cup {k \in (Len(events) + 1)..Len(events') :
                                      events'[k].type = type}
<1>1. /\ Len(events) \in Nat /\ DOMAIN events = 1..Len(events)
      /\ Len(events') \in Nat /\ DOMAIN events' = 1..Len(events')
      /\ Len(events) <= Len(events')
  BY SeqFacts DEF LogOK, Extends
<1>2. \A k \in 1..Len(events) : events'[k] = events[k]
  BY DEF Extends
<1>3. Of(type)' = {k \in 1..Len(events') : events'[k].type = type}
  BY <1>1 DEF Of
<1>4. Of(type) = {k \in 1..Len(events) : events[k].type = type}
  BY <1>1 DEF Of
<1> QED
  BY <1>1, <1>2, <1>3, <1>4

LEMMA OfKept ==
  ASSUME LogOK, NEW types, NEW agents, Adds(types, agents), NEW type, type \notin types
  PROVE  Of(type)' = Of(type)
<1>1. Extends(events', events) /\ \A e \in Added(events', events) : e.type \in types
  BY AddsExtends
<1>2. \A k \in (Len(events) + 1)..Len(events') : events'[k].type # type
  BY <1>1 DEF Added
<1> QED
  BY <1>1, <1>2, OfStep

LEMMA OfAppended ==
  ASSUME LogOK, NEW e, events' = Append(events, e)
  PROVE  /\ Of(e.type)' = Of(e.type) \cup {Len(events) + 1}
         /\ events'[Len(events) + 1] = e
<1>1. /\ Extends(events', events) /\ Len(events') = Len(events) + 1
      /\ events'[Len(events) + 1] = e /\ Len(events) \in Nat
  BY AppendExtends, AppendFacts, SeqFacts DEF LogOK
<1>2. (Len(events) + 1)..Len(events') = {Len(events) + 1}
  BY <1>1
<1> QED
  BY <1>1, <1>2, OfStep

LEMMA OfFinite ==
  ASSUME LogOK, NEW type
  PROVE  /\ Of(type) \subseteq 1..Len(events) /\ Len(events) \in Nat
         /\ IsFiniteSet(Of(type))
<1>1. Of(type) \subseteq 1..Len(events) /\ Len(events) \in Nat
  BY SeqFacts DEF LogOK, Of
<1>2. IsFiniteSet(1..Len(events))
  BY <1>1, FS_Interval
<1> QED
  BY <1>1, <1>2, FS_Subset

\* Every kind of step that records no wave, and what it may add.
LEMMA PlainSteps ==
  ASSUME [Next]_vars, RunOK, LogOK
  PROVE  \/ Record
         \/ Start /\ Of("agent-turn")' = {} /\ Of("model-request")' = {}
         \/ /\ ~Start /\ ~Record
            /\ UNCHANGED <<transcript, round>>
            /\ Adds({"budget-stop", "model-request", "final"} \cup TurnTypes, {0} \cup Agents)
<1> DEFINE All == {"budget-stop", "model-request", "final"} \cup TurnTypes
           Plainly == UNCHANGED <<transcript, round>> /\ Adds(All, {0} \cup Agents)
<1>1. CASE Start
  <2>1. \A k \in DOMAIN events' : events'[k].type = "role-assignment"
    BY <1>1, StartSteps
  <2> QED
    BY <1>1, <2>1 DEF Of
<1>2. Check => Plainly
  BY SmallSteps DEF Adds, Check, RunVars
<1>3. ASSUME NEW a \in Agents, Ask(a)
      PROVE  Plainly
  <2>1. Adds({"model-request"}, {a}) /\ UNCHANGED <<transcript, round>>
    BY <1>3, SmallSteps DEF Ask, RunVars
  <2> QED
    BY <2>1 DEF Adds
<1>4. ASSUME NEW a \in Agents, Turn(a)
      PROVE  Plainly
  BY <1>4, TurnSteps, SmallSteps DEF Adds, TurnStep
<1>5. Final => Plainly
  BY SmallSteps DEF Adds, Final, RunVars
<1>6. ASSUME \/ AbortNoticed \/ WaveFails \/ Evaluate \/ RaceLost \/ CallerAborts \/ TimerFires
             \/ Tick \/ UNCHANGED vars
      PROVE  Plainly
  BY <1>6, OuterSteps, SmallSteps DEF OuterStep, RunVars, Adds
<1> QED
  BY <1>1, <1>2, <1>3, <1>4, <1>5, <1>6, StepKinds

-----------------------------------------------------------------------------
(* The turns of the log                                                    *)

\* The log has an agent-turn for each entry of the transcript, and a broadcast for each
\* round.
CountInv ==
  /\ Cardinality(Of("agent-turn")) = Len(transcript)
  /\ conf.protocol = "broadcast" => Cardinality(Of("broadcast")) = round

\* A set of positions with some more at its end.
LEMMA LongerCount ==
  ASSUME NEW n \in Nat, NEW m \in Nat, NEW S \in SUBSET (1..n)
  PROVE  Cardinality(S \cup ((n + 1)..(n + m))) = Cardinality(S) + m
<1> DEFINE more == (n + 1)..(n + m)
<1>1. IsFiniteSet(S)
  <2>1. IsFiniteSet(1..n)
    BY FS_Interval
  <2> QED
    BY <2>1, FS_Subset
<1>2. IsFiniteSet(more) /\ Cardinality(more) = m
  BY FS_Interval
<1>3. S \cap more = {}
  OBVIOUS
<1> HIDE DEF more
<1>4. Cardinality(S) \in Nat
  BY <1>1, FS_CardinalityType
<1>5. Cardinality(S \cup more) = Cardinality(S) + Cardinality(more) - Cardinality(S \cap more)
  BY <1>1, <1>2, FS_Union
<1>6. Cardinality(S \cap more) = 0
  BY <1>3, FS_EmptySet
<1>7. Cardinality(S \cup more) = Cardinality(S) + m
  BY <1>2, <1>4, <1>5, <1>6
<1> QED
  BY <1>7 DEF more

LEMMA RecordOf ==
  ASSUME RunOK, LogOK, NEW n \in Nat, RecordStep(n)
  PROVE  /\ Of("agent-turn")' = Of("agent-turn") \cup ((Len(events) + 1)..(Len(events) + n))
         /\ Of("broadcast")' = Of("broadcast") \cup
              (IF conf.protocol = "broadcast" THEN {Len(events) + n + 1} ELSE {})
         /\ \A type : type \notin {"agent-turn", "broadcast"} => Of(type)' = Of(type)
<1> DEFINE len == Len(events)
           extra == IF conf.protocol = "broadcast" THEN 1 ELSE 0
<1>1. Extends(events', events) /\ len \in Nat /\ Len(events') = len + n + extra
  BY SeqFacts DEF RecordStep, LogOK
<1>2. ASSUME NEW k \in (len + 1)..(len + n)
      PROVE  events'[k].type = "agent-turn"
  <2>1. k - len \in 1..n /\ k = len + (k - len)
    BY <1>1
  <2> QED
    BY <2>1 DEF RecordStep
<1>3. conf.protocol = "broadcast" => events'[len + n + 1].type = "broadcast"
  BY DEF RecordStep
<1>4. ASSUME NEW type
      PROVE  Of(type)' = Of(type) \cup {k \in (len + 1)..(len + n + extra) :
                                          events'[k].type = type}
  BY <1>1, OfStep
<1> DEFINE new(type) == {k \in (len + 1)..(len + n + extra) : events'[k].type = type}
<1>5. new("agent-turn") = (len + 1)..(len + n)
  BY <1>1, <1>2, <1>3
<1>6. new("broadcast") = IF conf.protocol = "broadcast" THEN {len + n + 1} ELSE {}
  BY <1>1, <1>2, <1>3
<1>7. \A type : type \notin {"agent-turn", "broadcast"} => new(type) = {}
  BY <1>1, <1>2, <1>3
<1> QED
  BY <1>4, <1>5, <1>6, <1>7

LEMMA CountStep ==
  ASSUME TypeInv, CountInv, [Next]_vars
  PROVE  CountInv'
<1>0. conf' = conf /\ RunOK /\ LogOK /\ CallOK /\ FlagsOK
  BY ConfKept DEF TypeInv
<1>1. CASE Start
  <2>1. \A k \in DOMAIN events' : events'[k].type = "role-assignment"
    BY <1>0, <1>1, StartSteps
  <2>2. Of("agent-turn")' = {} /\ Of("broadcast")' = {}
    BY <2>1 DEF Of
  <2>3. Of("broadcast") = {} /\ Len(transcript) = 0
    BY <1>0, <1>1, EmptyIsSeq DEF Start, LogOK, Of
  <2> QED
    BY <1>0, <1>1, <2>2, <2>3, FS_EmptySet DEF CountInv, Start, RunVars
<1>2. CASE Record
  <2>1. PICK n \in Nat : RecordStep(n)
    BY <1>0, <1>2, RecordSteps
  <2>2. Cardinality(Of("agent-turn")') = Cardinality(Of("agent-turn")) + n
    BY <1>0, <2>1, RecordOf, OfFinite, LongerCount
  <2>3. conf.protocol = "broadcast" => Cardinality(Of("broadcast")') = Cardinality(Of("broadcast")) + 1
    <3> SUFFICES ASSUME conf.protocol = "broadcast"
                 PROVE  Cardinality(Of("broadcast")') = Cardinality(Of("broadcast")) + 1
      OBVIOUS
    <3> DEFINE new == Len(events) + n + 1
    <3>1. Of("broadcast")' = Of("broadcast") \cup {new}
      BY <1>0, <2>1, RecordOf
    <3>2. new \notin Of("broadcast") /\ IsFiniteSet(Of("broadcast"))
      BY <1>0, OfFinite
    <3> HIDE DEF new
    <3> QED
      BY <3>1, <3>2, FS_AddElement
  <2> QED
    BY <1>0, <2>1, <2>2, <2>3 DEF CountInv, RecordStep
<1>3. CASE ~Start /\ ~Record
  <2>1. /\ UNCHANGED <<transcript, round>>
        /\ Adds({"budget-stop", "model-request", "final"} \cup TurnTypes, {0} \cup Agents)
    BY <1>0, <1>3, PlainSteps
  <2>2. Of("agent-turn")' = Of("agent-turn") /\ Of("broadcast")' = Of("broadcast")
    BY <1>0, <2>1, OfKept DEF TurnTypes
  <2> QED
    BY <1>0, <2>1, <2>2 DEF CountInv
<1> QED
  BY <1>1, <1>2, <1>3

LEMMA CountInit == Init => CountInv
<1> SUFFICES ASSUME Init
             PROVE  CountInv
  OBVIOUS
<1>1. \A type : Of(type) = {}
  BY DEF Init, Of
<1> QED
  BY <1>1, FS_EmptySet, EmptyIsSeq DEF Init, CountInv

-----------------------------------------------------------------------------
(* The hint                                                                *)

\* A request at which the hint is due has been made only if the hint is spent, and it is
\* spent without such a request only if the abort came first.
HintInv ==
  /\ \A k \in Of("model-request") : HintDue(k) => hinted
  /\ hinted => aborted \/ \E k \in Of("model-request") : HintDue(k)

\* Of a position that is in the log, the turns before it are known.
LEMMA TurnsBeforeKept ==
  ASSUME TypeInv, [Next]_vars, ~Start, NEW k \in 1..Len(events)
  PROVE  TurnsBefore(k)' = TurnsBefore(k)
<1>0. RunOK /\ LogOK /\ Extends(events', events) /\ Len(events) \in Nat
  BY LogStep, SeqFacts DEF TypeInv, LogOK
<1>1. {j \in Of("agent-turn")' : j < k} = {j \in Of("agent-turn") : j < k}
  BY <1>0, OfStep
<1> QED
  BY <1>1 DEF TurnsBefore

LEMMA HintDueKept ==
  ASSUME TypeInv, [Next]_vars, ~Start, NEW k \in 1..Len(events)
  PROVE  HintDue(k)' = HintDue(k) /\ events'[k] = events[k]
<1>1. conf' = conf /\ Caps' = Caps
  BY ConfKept, OptionsKept
<1>2. events'[k] = events[k]
  BY LogStep DEF TypeInv, Extends
<1>3. TurnsBefore(k)' = TurnsBefore(k)
  BY TurnsBeforeKept
<1> QED
  BY <1>1, <1>2, <1>3 DEF HintDue

\* The turns before an event that comes next are those of the transcript.
LEMMA TurnsSoFar ==
  ASSUME TypeInv, CountInv
  PROVE  TurnsBefore(Len(events) + 1) = Len(transcript)
<1>1. Of("agent-turn") \subseteq 1..Len(events) /\ Len(events) \in Nat
  BY OfFinite DEF TypeInv
<1>2. {j \in Of("agent-turn") : j < Len(events) + 1} = Of("agent-turn")
  BY <1>1
<1> QED
  BY <1>2 DEF TurnsBefore, CountInv

LEMMA ContextFacts ==
  /\ Context.observed["cost"] = totalCost /\ Context.observed["tokens"] = totalCost
  /\ Context.observed["iterations"] = Len(transcript) /\ Context.observed["timeout"] = clock
  /\ Context.floor = conf.floor
  /\ Context.outputs = [k \in DOMAIN transcript |-> transcript[k].text]
<1>1. Axis = {"cost", "tokens", "iterations", "timeout"}
  BY DEF Axis, BudgetAxes
<1> QED
  BY <1>1 DEF Context

LEMMA HintStep ==
  ASSUME TypeInv, CountInv, HintInv, HintOnce, [Next]_vars
  PROVE  HintInv' /\ HintOnce'
<1> DEFINE Requests == Of("model-request")
<1>0. /\ conf' = conf /\ RunOK /\ LogOK /\ CallOK /\ FlagsOK
      /\ Requests \subseteq 1..Len(events) /\ Len(events) \in Nat
  BY ConfKept, OfFinite DEF TypeInv
<1>1. CASE Start
  <2>1. Of("model-request")' = {} /\ hinted' = hinted /\ aborted' = aborted
    BY <1>0, <1>1, PlainSteps DEF Start, Record, SequentialRecord, SharedRecord, BroadcastRecord,
                                  WaveDone
  <2>2. Of("model-request") = {}
    BY <1>0, <1>1 DEF Start, LogOK, Of
  <2> QED
    BY <2>1, <2>2 DEF HintInv, HintOnce
<1>2. ASSUME ~Start, Of("model-request")' = Of("model-request"), hinted' = hinted,
             aborted => aborted'
      PROVE  HintInv' /\ HintOnce'
  <2>1. \A k \in Of("model-request") : HintDue(k)' = HintDue(k) /\ events'[k] = events[k]
    BY <1>0, <1>2, HintDueKept
  <2>2. HintInv'
    BY <1>2, <2>1 DEF HintInv
  <2>3. HintOnce'
    BY <1>2, <2>1 DEF HintOnce
  <2> QED
    BY <2>2, <2>3
<1>3. ASSUME ~Start, NEW types, Adds(types, {0} \cup Agents), "model-request" \notin types,
             hinted' = hinted, aborted => aborted'
      PROVE  HintInv' /\ HintOnce'
  <2>1. Of("model-request")' = Of("model-request")
    BY <1>0, <1>3, OfKept
  <2> QED
    BY <1>2, <1>3, <2>1
<1>4. CASE Check
  <2>1. ~Start /\ hinted' = hinted /\ aborted' = aborted
    BY <1>4 DEF Start, Check
  <2>2. Adds({"budget-stop"}, {0} \cup Agents)
    BY <1>4, SmallSteps DEF Adds
  <2> QED
    BY <1>3, <2>1, <2>2
<1>5. ASSUME NEW a \in Agents, Ask(a)
      PROVE  HintInv' /\ HintOnce'
  <2>1. PICK hint \in BOOLEAN :
          /\ Inject(hint)
          /\ IF aborted THEN UNCHANGED Log
             ELSE Emit(Event("model-request", a, CallId(a), 0, {}, hint))
    BY <1>5 DEF Ask
  <2>2. ~Start /\ aborted' = aborted /\ (hinted => hinted')
    BY <1>5, <2>1 DEF Start, Ask, Inject
  <2>3. \A k \in Of("model-request") : HintDue(k)' = HintDue(k) /\ events'[k] = events[k]
    BY <1>0, <2>2, HintDueKept
  <2>4. CASE aborted
    <3>1. Of("model-request")' = Of("model-request")
      BY <2>1, <2>4 DEF Log, Of
    <3>2. HintInv'
      BY <2>2, <2>3, <2>4, <3>1 DEF HintInv
    <3>3. HintOnce'
      BY <2>3, <3>1 DEF HintOnce
    <3> QED
      BY <3>2, <3>3
  <2>5. CASE ~aborted
    <3> DEFINE e == Event("model-request", a, CallId(a), 0, {}, hint)
    <3>0. PICK new \in Nat : new = Len(events) + 1
      BY <1>0
    <3>1. events' = Append(events, e) /\ e.type = "model-request" /\ e.hint = hint /\ e.at = clock
      BY <2>1, <2>5 DEF Emit, Event
    <3> HIDE DEF e
    <3>2. Of("model-request")' = Of("model-request") \cup {new} /\ events'[new] = e
      BY <1>0, <3>0, <3>1, OfAppended
    <3>3. TurnsBefore(new)' = Len(transcript)
      <4>1. Adds({"model-request"}, {a})
        BY <1>5, SmallSteps
      <4>2. Of("agent-turn")' = Of("agent-turn")
        BY <1>0, <4>1, OfKept
      <4>3. TurnsBefore(new) = Len(transcript)
        BY <3>0, TurnsSoFar
      <4> QED
        BY <4>2, <4>3 DEF TurnsBefore
    <3>4. HintDue(new)' <=> ShouldInject(conf.hint, Caps, Context.observed)
      <4>1. Caps' = Caps
        BY <1>0, OptionsKept
      <4>2. events'[new].at = clock /\ conf' = conf
        BY <1>0, <3>1, <3>2
      <4> DEFINE seen == Context.observed
                 Due  == \/ \E n \in conf.hint.atIteration : Len(transcript) >= n
                         \/ \E percent \in conf.hint.atFraction :
                              \/ "iterations" \in DOMAIN Caps
                                   /\ FractionReached(Len(transcript), Caps["iterations"], percent)
                              \/ "timeout" \in DOMAIN Caps
                                   /\ FractionReached(clock, Caps["timeout"], percent)
      <4>3. HintDue(new)' <=> Due
        BY <3>3, <4>1, <4>2 DEF HintDue, FractionReached
      <4>4. seen["iterations"] = Len(transcript) /\ seen["timeout"] = clock
        BY ContextFacts
      <4> HIDE DEF seen
      <4>5. ASSUME NEW percent
            PROVE  (\E x \in {"iterations", "timeout"} \cap DOMAIN Caps :
                      FractionReached(seen[x], Caps[x], percent)) <=>
                     \/ "iterations" \in DOMAIN Caps
                          /\ FractionReached(Len(transcript), Caps["iterations"], percent)
                     \/ "timeout" \in DOMAIN Caps
                          /\ FractionReached(clock, Caps["timeout"], percent)
        BY <4>4
      <4>6. ShouldInject(conf.hint, Caps, seen) <=> Due
        <5>1. (\E n \in conf.hint.atIteration : seen["iterations"] >= n) <=>
                (\E n \in conf.hint.atIteration : Len(transcript) >= n)
          BY <4>4
        <5>2. ShouldInject(conf.hint, Caps, seen) <=>
                \/ \E n \in conf.hint.atIteration : seen["iterations"] >= n
                \/ \E percent \in conf.hint.atFraction :
                     \E x \in {"iterations", "timeout"} \cap DOMAIN Caps :
                       FractionReached(seen[x], Caps[x], percent)
          BY Zenon DEF ShouldInject
        <5>3. (\E percent \in conf.hint.atFraction :
                 \E x \in {"iterations", "timeout"} \cap DOMAIN Caps :
                   FractionReached(seen[x], Caps[x], percent)) <=>
              (\E percent \in conf.hint.atFraction :
                 \/ "iterations" \in DOMAIN Caps
                      /\ FractionReached(Len(transcript), Caps["iterations"], percent)
                 \/ "timeout" \in DOMAIN Caps
                      /\ FractionReached(clock, Caps["timeout"], percent))
          BY <4>5
        <5> QED
          BY <5>1, <5>2, <5>3
      <4> HIDE DEF Due
      <4> QED
        BY <4>3, <4>6 DEF seen
    <3>5. hint = (~hinted /\ HintDue(new)') /\ hinted' = (hinted \/ hint)
      BY <2>1, <3>4 DEF Inject
    <3>6. hinted => \E k \in Of("model-request") : HintDue(k)
      BY <2>5 DEF HintInv
    <3>7. \A k \in Of("model-request") : k < new
      BY <1>0, <3>0
    <3>8. HintInv'
      BY <2>2, <2>3, <3>2, <3>5, <3>6 DEF HintInv
    <3>9. HintOnce'
      <4>1. ASSUME NEW k \in Of("model-request")
            PROVE  events'[k].hint <=>
                     HintDue(k)' /\ \A j \in Of("model-request")' : j < k => ~HintDue(j)'
        BY <1>0, <2>3, <3>2, <3>7 DEF HintOnce
      <4>2. events'[new].hint <=>
              HintDue(new)' /\ \A j \in Of("model-request")' : j < new => ~HintDue(j)'
        <5>1. hinted <=> \E k \in Of("model-request") : HintDue(k)
          BY <3>6 DEF HintInv
        <5>2. ~(new < new)
          OBVIOUS
        <5>3. (\A j \in Of("model-request")' : j < new => ~HintDue(j)')
                <=> \A j \in Of("model-request") : ~HintDue(j)
          BY <2>3, <3>2, <3>7, <5>2
        <5>4. events'[new].hint <=> ~hinted /\ HintDue(new)'
          BY <3>1, <3>2, <3>5
        <5> QED
          BY <5>1, <5>3, <5>4
      <4> QED
        BY <3>2, <4>1, <4>2 DEF HintOnce
    <3> QED
      BY <3>8, <3>9
  <2> QED
    BY <2>4, <2>5
<1>6. ASSUME NEW a \in Agents, Turn(a)
      PROVE  HintInv' /\ HintOnce'
  <2>1. TurnStep
    BY <1>6, TurnSteps
  <2>2. ~Start /\ hinted' = hinted /\ aborted' = aborted
    BY <2>1 DEF Start, TurnStep
  <2>3. Adds(TurnTypes, {0} \cup Agents)
    BY <2>1, SmallSteps DEF Adds
  <2> QED
    BY <1>3, <2>2, <2>3 DEF TurnTypes
<1>7. CASE Record
  <2>1. PICK n \in Nat : RecordStep(n)
    BY <1>0, <1>7, RecordSteps
  <2>2. ~Start /\ hinted' = hinted /\ aborted' = aborted
    BY <2>1 DEF Start, RecordStep, WaveDone
  <2> QED
    BY <1>0, <1>2, <2>1, <2>2, RecordOf
<1>8. CASE Final
  <2>1. ~Start /\ hinted' = hinted /\ aborted' = aborted
    BY <1>8 DEF Start, Final
  <2>2. Adds({"final"}, {0} \cup Agents)
    BY <1>8, SmallSteps DEF Adds
  <2> QED
    BY <1>3, <2>1, <2>2
<1>9. CASE \/ AbortNoticed \/ WaveFails \/ Evaluate \/ RaceLost \/ CallerAborts \/ TimerFires
           \/ Tick \/ UNCHANGED vars
  <2>1. OuterStep
    BY <1>9, OuterSteps
  <2>2. hinted' = hinted /\ (aborted => aborted') /\ UNCHANGED events
    BY <2>1, SmallSteps DEF OuterStep
  <2>3. CASE Start
    BY <1>1, <2>3
  <2>4. CASE ~Start
    BY <1>2, <2>2, <2>4 DEF Of
  <2> QED
    BY <2>3, <2>4
<1> QED
  BY <1>1, <1>4, <1>5, <1>6, <1>7, <1>8, <1>9, StepKinds

LEMMA HintInit == Init => HintInv /\ HintOnce
<1> SUFFICES ASSUME Init
             PROVE  HintInv /\ HintOnce
  OBVIOUS
<1>1. Of("model-request") = {} /\ ~hinted
  BY DEF Init, Of
<1> QED
  BY <1>1 DEF HintInv, HintOnce

THEOREM CountInvariant == Spec => [](TypeInv /\ CountInv)
<1>1. Init => TypeInv /\ CountInv
  BY TypeInit, CountInit
<1>2. TypeInv /\ CountInv /\ [Next]_vars => (TypeInv /\ CountInv)'
  BY TypeStep, CountStep
<1> QED
  BY <1>1, <1>2, PTL DEF Spec

\* The wrap-up hint goes out with the first request for which it is due, and with no other.
THEOREM HintsOnce == Spec => []HintOnce
<1>1. Init => HintInv /\ HintOnce
  BY HintInit
<1>2. TypeInv /\ CountInv /\ HintInv /\ HintOnce /\ [Next]_vars => (HintInv /\ HintOnce)'
  BY HintStep
<1> QED
  BY CountInvariant, <1>1, <1>2, PTL DEF Spec

-----------------------------------------------------------------------------
(* The output                                                              *)

\* A decision that does not throw.
Valid(decision) ==
  \/ decision \in {NoDecision, Participates("contribute"), Participates("abstain")}
  \/ decision.kind = "delegate"

LEMMA ParsedIsValid ==
  ASSUME NEW output, ParseDecision(output, NoContext).kind # "invalid"
  PROVE  Valid(ParseDecision(output, NoContext))
<1>1. \A item, context : ParseItem(item, context).kind \in {"delegate", "invalid"}
  BY DEF ParseItem, Delegates, Invalid
<1>2. \A json, context : ParseDelegate(json, context).kind \in {"delegate", "invalid"}
  <2> SUFFICES ASSUME NEW json, NEW context
               PROVE  ParseDelegate(json, context).kind \in {"delegate", "invalid"}
    OBVIOUS
  <2>1. CASE ~json.parses \/ json.items = <<>>
    BY <2>1 DEF ParseDelegate, Invalid
  <2>2. CASE json.parses /\ json.items # <<>>
    BY <1>1, <2>2 DEF ParseDelegate, Delegates
  <2> QED
    BY <2>1, <2>2
<1>3. Valid(ParseParticipation(output))
  BY DEF Valid, ParseParticipation
<1> QED
  BY <1>2, <1>3 DEF ParseDecision, Valid

ParsedInv ==
  /\ \A a \in Agents : call[a] \in {"answered", "tool", "tool-ended", "done"} =>
       Valid(DecisionOf(reply[a]))
  /\ \A k \in DOMAIN transcript : Valid(transcript[k].decision)

\* The rounds of a broadcast have one entry of each agent, in the order of the agents.
RosterInv ==
  conf.protocol = "broadcast" =>
    /\ Len(transcript) = round * conf.agents
    /\ round > 0 => \A a \in Agents : transcript[Len(transcript) - conf.agents + a].agent = a

\* The final event comes last, and bears the output.
FinalInv ==
  /\ Of("final") # {} => phase \in {"evaluate", "over"}
  /\ \A f \in Of("final") : events[f].text = Output

LEMMA ParsedTurn ==
  ASSUME RunOK, CallOK, ParsedInv, NEW a \in Agents, Turn(a)
  PROVE  \A b \in Agents : call'[b] \in {"answered", "tool", "tool-ended", "done"} =>
           Valid(DecisionOf(reply'[b]))
<1> DEFINE Answered == {"answered", "tool", "tool-ended", "done"}
<1>1. CASE Answer(a)
  <2>1. PICK response \in conf.answers :
          \/ /\ call' = [call EXCEPT ![a] = IF DecisionOf(response).kind = "invalid"
                                            THEN "failed" ELSE "answered"]
             /\ reply' = [reply EXCEPT ![a] = response]
          \/ /\ call' = [call EXCEPT ![a] = "failed"]
             /\ UNCHANGED reply
    BY <1>1 DEF Answer
  <2>2. DecisionOf(response).kind # "invalid" => Valid(DecisionOf(response))
    BY ParsedIsValid DEF DecisionOf
  <2> QED
    BY <2>1, <2>2 DEF CallOK, ParsedInv
<1>2. CASE ~Answer(a)
  <2>1. UNCHANGED reply /\ \A b \in Agents : call'[b] \in Answered => call[b] \in Answered
    <3>1. CASE Chunk(a) \/ ProviderFails(a)
      BY <3>1 DEF Chunk, ProviderFails, CallOK
    <3>2. CASE UseTool(a) \/ ToolReturns(a) \/ TurnEnds(a)
      BY <3>2 DEF UseTool, ToolReturns, TurnEnds, CallOK
    <3>3. CASE ToolEnds(a) \/ ToolIsAborted(a) \/ ToolTimesOut(a)
      BY <3>3 DEF ToolEnds, ToolIsAborted, ToolTimesOut, ToolEndsWith, CallOK
    <3> QED
      BY <1>2, <3>1, <3>2, <3>3 DEF Turn
  <2> QED
    BY <2>1 DEF ParsedInv
<1> QED
  BY <1>1, <1>2

LEMMA ParsedStep ==
  ASSUME TypeInv, ParsedInv, [Next]_vars
  PROVE  ParsedInv'
<1>0. /\ conf' = conf /\ RunOK /\ LogOK /\ CallOK /\ FlagsOK /\ Agents' = Agents
  BY ConfKept, OptionsKept DEF TypeInv
<1>1. ASSUME NEW a \in Agents, Turn(a)
      PROVE  ParsedInv'
  <2>1. UNCHANGED transcript
    BY <1>1, TurnSteps DEF TurnStep
  <2> QED
    BY <1>0, <1>1, <2>1, ParsedTurn DEF ParsedInv, DecisionOf
<1>2. ASSUME UNCHANGED <<transcript, reply>>,
             \A b \in Agents : call'[b] = call[b] \/ call'[b] \in {"idle", "called", "failed"}
      PROVE  ParsedInv'
  BY <1>0, <1>2 DEF ParsedInv, DecisionOf
<1>3. CASE Start \/ Final
  BY <1>2, <1>3 DEF Start, Final, RunVars, WaveVars
<1>4. CASE Check
  BY <1>2, <1>4 DEF Check, RunVars
<1>5. ASSUME NEW a \in Agents, Ask(a)
      PROVE  ParsedInv'
  BY <1>0, <1>2, <1>5 DEF Ask, RunVars, CallOK
<1>6. CASE Record
  <2>1. PICK n \in Nat : RecordStep(n)
    BY <1>0, <1>6, RecordSteps
  <2>2. UNCHANGED <<call, reply>> /\ \A a \in Wave : call[a] = "done"
    BY <2>1 DEF RecordStep, WaveVars, WaveDone
  <2>3. \A k \in 1..n : Valid(Entry(Speaker(k)).decision)
    <3>1. \A k \in 1..n : Speaker(k) \in Wave /\ Speaker(k) \in Agents
      BY <1>0, <2>1, WaveInAgents DEF RecordStep, WaveDone
    <3> QED
      BY <2>2, <3>1 DEF Entry, ParsedInv
  <2>4. /\ Len(transcript) \in Nat /\ DOMAIN transcript = 1..Len(transcript)
        /\ DOMAIN transcript' = 1..(Len(transcript) + n)
    BY <1>0, <2>1, LogStep, SeqFacts DEF LogOK, RecordStep
  <2>5. ASSUME NEW k \in DOMAIN transcript'
        PROVE  Valid(transcript'[k].decision)
    <3>1. CASE k \in 1..Len(transcript)
      BY <2>1, <2>4, <3>1 DEF RecordStep, Extends, ParsedInv
    <3>2. CASE k > Len(transcript)
      <4>1. k - Len(transcript) \in 1..n /\ k = Len(transcript) + (k - Len(transcript))
        BY <2>4, <3>2
      <4>2. transcript'[k] = Entry(Speaker(k - Len(transcript)))
        BY <2>1, <4>1 DEF RecordStep
      <4> QED
        BY <2>3, <4>1, <4>2
    <3> QED
      BY <2>4, <3>1, <3>2
  <2> QED
    BY <1>0, <2>2, <2>5 DEF ParsedInv, DecisionOf
<1>7. CASE \/ AbortNoticed \/ WaveFails \/ Evaluate \/ RaceLost \/ CallerAborts \/ TimerFires
           \/ Tick \/ UNCHANGED vars
  BY <1>2, <1>7, OuterSteps DEF OuterStep, RunVars, WaveVars
<1> QED
  BY <1>1, <1>3, <1>4, <1>5, <1>6, <1>7, StepKinds

LEMMA RosterStep ==
  ASSUME TypeInv, RosterInv, [Next]_vars
  PROVE  RosterInv'
<1>0. /\ conf' = conf /\ RunOK /\ LogOK /\ FlagsOK /\ Agents' = Agents
  BY ConfKept, OptionsKept DEF TypeInv
<1>1. CASE Record
  <2> SUFFICES ASSUME conf.protocol = "broadcast"
               PROVE  RosterInv'
    BY <1>0 DEF RosterInv
  <2>1. PICK n \in Nat : RecordStep(n)
    BY <1>0, <1>1, RecordSteps
  <2>2. n = conf.agents /\ Parallel
    BY <1>0, <2>1, WaveFacts DEF RecordStep, Wave, Parallel
  <2>3. Len(transcript) \in Nat /\ round \in Nat /\ conf.agents \in Nat
    BY <1>0, SeqFacts, RunFacts, WaveFacts DEF LogOK, FlagsOK
  <2>4. Len(transcript') = round' * conf.agents
    <3>1. (round + 1) * conf.agents = round * conf.agents + conf.agents
      BY <2>3
    <3> QED
      BY <2>1, <2>2, <3>1 DEF RecordStep, RosterInv
  <2>5. ASSUME NEW a \in Agents
        PROVE  transcript'[Len(transcript') - conf.agents + a].agent = a
    <3>1. a \in 1..n /\ Len(transcript') - conf.agents + a = Len(transcript) + a
      BY <2>1, <2>2, <2>3, SMTT(30) DEF RecordStep, Agents
    <3>2. transcript'[Len(transcript) + a] = Entry(a)
      BY <2>1, <2>2, <3>1 DEF RecordStep, Speaker
    <3> QED
      BY <3>1, <3>2 DEF Entry
  <2> QED
    BY <1>0, <2>4, <2>5 DEF RosterInv
<1>2. CASE ~Record
  <2>1. UNCHANGED <<transcript, round>>
    BY <1>0, <1>2, PlainSteps DEF Start, RunVars
  <2> QED
    BY <1>0, <2>1 DEF RosterInv
<1> QED
  BY <1>1, <1>2

LEMMA FinalStep ==
  ASSUME TypeInv, FinalInv, [Next]_vars
  PROVE  FinalInv'
<1>0. conf' = conf /\ RunOK /\ LogOK /\ CallOK /\ FlagsOK
      /\ Of("final") \subseteq 1..Len(events)
  BY ConfKept, OfFinite DEF TypeInv
<1>1. ASSUME Of("final")' = {}
      PROVE  FinalInv'
  BY <1>1 DEF FinalInv
\* Nothing that the output is made of changes once there is a final event.
<1>2. ASSUME Of("final")' = Of("final"), Extends(events', events), UNCHANGED transcript,
             Of("final") # {} => phase' \in {"evaluate", "over"}
      PROVE  FinalInv'
  <2>1. Output' = Output
    BY <1>0, <1>2 DEF Output, SequentialOutput, SharedOutput, BroadcastOutput, LatestOf,
                      Participating, Undecided
  <2>2. \A f \in Of("final") : events'[f] = events[f]
    BY <1>0, <1>2 DEF Extends
  <2> QED
    BY <1>2, <2>1, <2>2 DEF FinalInv
<1>3. CASE Start
  <2>1. \A k \in DOMAIN events' : events'[k].type = "role-assignment"
    BY <1>0, <1>3, StartSteps
  <2>2. Of("final")' = {}
    BY <2>1 DEF Of
  <2> QED
    BY <1>1, <2>2
<1>4. CASE Record
  <2>1. PICK n \in Nat : RecordStep(n)
    BY <1>0, <1>4, RecordSteps
  <2>2. Of("final")' = Of("final") /\ phase = "turns"
    BY <1>0, <2>1, RecordOf DEF RecordStep, WaveDone
  <2>3. Of("final")' = {}
    BY <2>2 DEF FinalInv
  <2> QED
    BY <1>1, <2>3
<1>5. CASE Final
  <2> DEFINE final == [Plain("final", 0) EXCEPT !.text = Output]
  <2>1. final.type = "final" /\ final.text = Output
    BY DEF Plain, Event
  <2>2. events' = Append(events, final) /\ phase = "output" /\ phase' = "evaluate"
        /\ UNCHANGED transcript
    BY <1>5 DEF Final, EmitAndRecord, RunVars
  <2> HIDE DEF final
  <2>3. /\ Of("final")' = Of("final") \cup {Len(events) + 1}
        /\ events'[Len(events) + 1] = final
    BY <1>0, <2>1, <2>2, OfAppended
  <2>4. Of("final") = {}
    BY <2>2 DEF FinalInv
  <2>5. Output' = Output
    BY <1>0, <2>2 DEF Output, SequentialOutput, SharedOutput, BroadcastOutput, LatestOf,
                      Participating, Undecided
  <2> QED
    BY <2>1, <2>2, <2>3, <2>4, <2>5 DEF FinalInv
<1>6. ASSUME ~Start, ~Record, ~Final
      PROVE  FinalInv'
  <2>1. Of("final")' = Of("final") /\ Extends(events', events) /\ UNCHANGED transcript
    <3>1. UNCHANGED transcript
      BY <1>0, <1>6, PlainSteps
    <3>2. \E types : "final" \notin types /\ \E agents : Adds(types, agents)
      <4>1. CASE Check
        BY <4>1, SmallSteps, "final" \notin {"budget-stop"}
      <4>2. ASSUME NEW a \in Agents, Ask(a)
            PROVE  \E types : "final" \notin types /\ \E agents : Adds(types, agents)
        BY <4>2, SmallSteps, "final" \notin {"model-request"}
      <4>3. ASSUME NEW a \in Agents, Turn(a)
            PROVE  \E types : "final" \notin types /\ \E agents : Adds(types, agents)
        BY <4>3, TurnSteps, SmallSteps, "final" \notin TurnTypes DEF TurnTypes
      <4>4. ASSUME OuterStep
            PROVE  \E types : "final" \notin types /\ \E agents : Adds(types, agents)
        <5>1. Adds({}, {})
          BY <4>4, SmallSteps DEF Adds
        <5> QED
          BY <5>1
      <4> QED
        BY <1>6, <4>1, <4>2, <4>3, <4>4, StepKinds, OuterSteps
    <3> QED
      BY <1>0, <3>1, <3>2, OfKept, AddsExtends
  <2>2. phase \in {"evaluate", "over"} => phase' \in {"evaluate", "over"}
    <3>1. ASSUME NEW a \in Agents, Turn(a)
          PROVE  phase' = phase
      BY <3>1, TurnSteps DEF TurnStep
    <3>2. Check \/ (\E a \in Agents : Ask(a)) => phase \notin {"evaluate", "over"}
      BY DEF Check, Ask
    <3>3. OuterStep => phase' = phase \/ phase' = "over"
      BY DEF OuterStep
    <3> QED
      BY <1>6, <3>1, <3>2, <3>3, StepKinds, OuterSteps
  <2> QED
    BY <1>2, <2>1, <2>2 DEF FinalInv
<1> QED
  BY <1>3, <1>4, <1>5, <1>6

LEMMA OutputInit == Init => ParsedInv /\ RosterInv /\ FinalInv
<1> SUFFICES ASSUME Init
             PROVE  ParsedInv /\ RosterInv /\ FinalInv
  OBVIOUS
<1>1. ParsedInv
  BY DEF Init, ParsedInv
<1>2. RosterInv
  <2>1. round = 0 /\ Len(transcript) = 0
    BY EmptyIsSeq DEF Init
  <2>2. RunOK
    BY DEF Init, RunOK
  <2>3. 0 * conf.agents = 0
    BY <2>2, RunFacts
  <2> QED
    BY <2>1, <2>3 DEF RosterInv
<1>3. FinalInv
  BY DEF Init, FinalInv, Of
<1> QED
  BY <1>1, <1>2, <1>3

\* The last of some positions of the transcript.
LEMMA LatestFacts ==
  ASSUME LogOK, NEW S \in SUBSET DOMAIN transcript
  PROVE  /\ LatestOf(S) \subseteq S
         /\ S # {} => \E k \in S : LatestOf(S) = {k} /\ \A l \in S : l <= k
         /\ S = {} => LatestOf(S) = {}
<1>1. DOMAIN transcript = 1..Len(transcript) /\ Len(transcript) \in Nat
  BY SeqFacts DEF LogOK
<1>2. ASSUME S # {}
      PROVE  \E k \in S : LatestOf(S) = {k} /\ \A l \in S : l <= k
  <2>1. PICK k \in S : \A l \in S : l <= k
    BY <1>1, <1>2, GreatestExists
  <2>2. LatestOf(S) = {k}
    BY <1>1, <2>1 DEF LatestOf
  <2> QED
    BY <2>1, <2>2
<1> QED
  BY <1>2 DEF LatestOf

Mute == {k \in DOMAIN transcript : transcript[k].decision = Participates("abstain")}
          \cup {k \in DOMAIN transcript : transcript[k].decision.kind = "delegate"}

Contributing == {k \in DOMAIN transcript : transcript[k].decision = Participates("contribute")}

\* An entry takes part, says nothing of it, or is mute.
LEMMA EntryKinds ==
  ASSUME ParsedInv
  PROVE  /\ Participating = Contributing
         /\ Undecided = DOMAIN transcript \ (Contributing \cup Mute)
         /\ Contributing \cap Mute = {}
<1>1. /\ NoDecision.kind = "none"
      /\ \A how : /\ Participates(how).kind = "participate"
                  /\ Participates(how).participation = how
  BY DEF NoDecision, Participates
<1>2. \A k \in DOMAIN transcript :
        \/ transcript[k].decision \in {NoDecision, Participates("contribute"),
                                       Participates("abstain")}
        \/ transcript[k].decision.kind = "delegate"
  BY DEF ParsedInv, Valid
<1>3. Participating = Contributing
  BY <1>1, <1>2 DEF Participating, Contributing, IsParticipating
<1>4. Undecided = DOMAIN transcript \ (Contributing \cup Mute)
  BY <1>1, <1>2 DEF Undecided, Contributing, Mute
<1>5. Contributing \cap Mute = {}
  BY <1>1 DEF Contributing, Mute
<1> QED
  BY <1>3, <1>4, <1>5

LEMMA OutputCurrent ==
  ASSUME TypeInv, ParsedInv, RosterInv, FinalInv
  PROVE  OutputIsCurrent
<1>0. /\ RunOK /\ LogOK /\ FlagsOK
      /\ DOMAIN transcript = 1..Len(transcript) /\ Len(transcript) \in Nat
  BY SeqFacts DEF TypeInv, LogOK
<1>1. ASSUME conf.protocol = "sequential"
      PROVE  /\ Output \cap Mute = {} /\ Cardinality(Output) <= 1
             /\ Output = {} => Mute = DOMAIN transcript
             /\ \A k \in Output, l \in Contributing : l <= k /\ k \in Contributing
  <2>1. Output = IF Contributing # {} THEN LatestOf(Contributing) ELSE LatestOf(Undecided)
    BY <1>1, EntryKinds DEF Output, SequentialOutput
  <2>2. Contributing \subseteq DOMAIN transcript /\ Undecided \subseteq DOMAIN transcript
        /\ Mute \subseteq DOMAIN transcript
    BY DEF Contributing, Undecided, Mute
  <2>3. CASE Contributing # {}
    <3>1. PICK k \in Contributing : LatestOf(Contributing) = {k} /\ \A l \in Contributing : l <= k
      BY <1>0, <2>2, <2>3, LatestFacts
    <3>2. Output = {k} /\ Cardinality({k}) = 1
      BY <2>1, <2>3, <3>1, FS_Singleton
    <3> QED
      BY <3>1, <3>2, EntryKinds
  <2>4. CASE Contributing = {} /\ Undecided # {}
    <3>1. PICK k \in Undecided : LatestOf(Undecided) = {k}
      BY <1>0, <2>2, <2>4, LatestFacts
    <3>2. Output = {k} /\ Cardinality({k}) = 1
      BY <2>1, <2>4, <3>1, FS_Singleton
    <3> QED
      BY <2>4, <3>1, <3>2, EntryKinds
  <2>5. CASE Contributing = {} /\ Undecided = {}
    <3>1. Output = {} /\ Cardinality({}) = 0
      BY <1>0, <2>1, <2>2, <2>5, LatestFacts, FS_EmptySet
    <3> QED
      BY <2>2, <2>5, <3>1, EntryKinds
  <2> QED
    BY <2>3, <2>4, <2>5
<1>2. ASSUME conf.protocol = "broadcast", round > 0
      PROVE  /\ {transcript[k].agent : k \in Output} = Agents
             /\ Cardinality(Output) = conf.agents
             /\ \A k \in Output : k > (round - 1) * conf.agents
  <2> DEFINE before == Len(transcript) - conf.agents
  <2>1. conf.agents \in Nat \ {0} /\ round \in Nat \ {0}
    BY <1>0, <1>2, RunFacts, WaveFacts DEF FlagsOK
  <2>2. before = (round - 1) * conf.agents /\ before \in Nat
    <3>1. (round - 1) * conf.agents = round * conf.agents - conf.agents
      BY <2>1
    <3>2. (round - 1) * conf.agents \in Nat
      BY <2>1
    <3>3. Len(transcript) = round * conf.agents
      BY <1>2 DEF RosterInv
    <3> QED
      BY <3>1, <3>2, <3>3
  <2>3. Len(transcript) = before + conf.agents
    BY <1>0, <2>1
  <2>4. \A a \in Agents : transcript[before + a].agent = a
    BY <1>2 DEF RosterInv
  <2>5. Output = {k \in DOMAIN transcript : k > before}
    BY <1>2 DEF Output, BroadcastOutput
  <2>6. before \in Nat
    BY <2>2
  <2>8. before = (round - 1) * conf.agents
    BY <2>2
  <2> HIDE DEF before
  <2>9. Output = (before + 1)..(before + conf.agents)
    BY <1>0, <2>1, <2>3, <2>5, <2>6
  <2>10. Cardinality(Output) = conf.agents
    <3>1. Cardinality((before + 1)..(before + conf.agents)) = conf.agents
      BY <2>1, <2>6, FS_Interval, SMTT(30)
    <3> QED
      BY <2>9, <3>1
  <2>11. ASSUME NEW k \in Output
         PROVE  k - before \in Agents /\ k = before + (k - before) /\ k > before
    BY <2>1, <2>6, <2>9 DEF Agents
  <2>7. {transcript[k].agent : k \in Output} = Agents
    <3>1. \A k \in Output : transcript[k].agent \in Agents
      BY <2>4, <2>11
    <3>2. \A a \in Agents : before + a \in Output
      BY <2>1, <2>6, <2>9 DEF Agents
    <3> QED
      BY <2>4, <3>1, <3>2
  <2> QED
    BY <2>7, <2>8, <2>10, <2>11
<1>3. \A f \in Of("final") : events[f].text = Output
  BY DEF FinalInv
<1> QED
  BY <1>1, <1>2, <1>3 DEF OutputIsCurrent, Mute, Contributing

THEOREM OutputInvariant == Spec => [](ParsedInv /\ RosterInv /\ FinalInv)
<1>1. TypeInv /\ ParsedInv /\ RosterInv /\ FinalInv /\ [Next]_vars
        => (ParsedInv /\ RosterInv /\ FinalInv)'
  BY ParsedStep, RosterStep, FinalStep
<1> QED
  BY TypeInvariant, OutputInit, <1>1, PTL DEF Spec

\* The output of a sequential run is that of the last agent that contributes, and never
\* of one that abstains or delegates; that of a broadcast is the last round, of all agents.
THEOREM OutputTrue == Spec => []OutputIsCurrent
<1>1. TypeInv /\ ParsedInv /\ RosterInv /\ FinalInv => OutputIsCurrent
  BY OutputCurrent
<1> QED
  BY TypeInvariant, OutputInvariant, <1>1, PTL

-----------------------------------------------------------------------------
(* Stops                                                                   *)

\* No cap on cost or turns is reached.
Below(caps) ==
  /\ \A a \in {"cost", "tokens"} \cap DOMAIN caps : totalCost < caps[a]
  /\ "iterations" \in DOMAIN caps => Len(transcript) < caps["iterations"]

\* What a stop, or going on to the end, rests on.
Unstopped == round = Waves /\ \A caps \in BudgetsOf : Below(caps)

Converged ==
  /\ IF conf.protocol = "broadcast" THEN round >= conf.floor ELSE Len(transcript) >= conf.floor
  /\ Len(transcript) > 0

CapIsReached ==
  \E caps \in BudgetsOf, a \in Axis : a \in DOMAIN caps /\ Context.observed[a] >= caps[a]

Justified ==
  /\ ~termination.stop => Unstopped
  /\ termination.stop /\ termination.reason = "convergence" => Converged
  /\ termination.stop /\ termination.reason = "budget" => CapIsReached

\* The stop is decided by the last check; it is announced if it is of a budget.
DecidedInv ==
  /\ phase \in {"setup", "check", "ask", "turns"} => termination = Continue
  /\ IF termination.stop /\ termination.reason = "budget"
     THEN \E k \in DOMAIN events : Of("budget-stop") = {k} ELSE Of("budget-stop") = {}

\* Whoever may ask is below every cap, and so was whoever has asked.
BelowInv ==
  /\ phase = "ask" => \A caps \in BudgetsOf : Below(caps)
  /\ \A k \in Of("model-request") : \A caps \in BudgetsOf :
       /\ \A a \in {"cost", "tokens"} \cap DOMAIN caps : events[k].total < caps[a]
       /\ "iterations" \in DOMAIN caps => TurnsBefore(k) < caps["iterations"]

JustifiedInv == phase \in {"output", "evaluate"} \/ Of("final") # {} => Justified

LEMMA ConditionFacts ==
  ASSUME RunOK
  PROVE  /\ DOMAIN Conditions \subseteq Nat
         /\ \A k \in DOMAIN Conditions :
              IsCondition(Conditions[k]) /\ ValidCondition(Conditions[k])
         /\ \A caps \in BudgetsOf : DOMAIN caps \subseteq Axis /\ \A a \in DOMAIN caps : caps[a] \in Int
<1> DEFINE c == Budget(conf.budget)
<1>1. /\ IsSeq(conf.terminate)
      /\ \A k \in DOMAIN conf.terminate :
           IsCondition(conf.terminate[k]) /\ ValidCondition(conf.terminate[k])
      /\ IsCaps(conf.budget) /\ ValidCaps(conf.budget)
  BY ConfigsAssumption DEF RunOK, Accepted, IsSeq
<1>2. IsCondition(c) /\ ValidCondition(c)
  BY <1>1 DEF Budget, IsCondition, ValidCondition
<1>3. CASE conf.terminate # <<>>
  <2>1. Conditions = conf.terminate
    BY <1>3 DEF Conditions, EffectiveConditions
  <2>2. DOMAIN conf.terminate = 1..Len(conf.terminate)
    BY <1>1, SeqFacts
  <2> QED
    BY <1>1, <2>1, <2>2 DEF BudgetsOf, IsCondition, IsCaps
<1>4. CASE conf.terminate = <<>> /\ DOMAIN conf.budget # {}
  <2>1. Conditions = <<c>>
    BY <1>4 DEF Conditions, EffectiveConditions
  <2> HIDE DEF c
  <2>2. DOMAIN Conditions = {1} /\ Conditions[1] = c
    BY <2>1
  <2> QED
    BY <1>2, <2>2 DEF BudgetsOf, IsCondition, IsCaps
<1>5. CASE conf.terminate = <<>> /\ DOMAIN conf.budget = {}
  <2>1. Conditions = <<>>
    BY <1>5 DEF Conditions, EffectiveConditions
  <2>2. DOMAIN Conditions = {}
    BY <2>1
  <2> QED
    BY <2>2 DEF BudgetsOf
<1> QED
  BY <1>3, <1>4, <1>5

\* Of one condition.
LEMMA BudgetDecides ==
  ASSUME NEW c, c.kind = "budget", NEW context
  PROVE  LET d == EvaluateTermination(c, context)
         IN  \/ d = Continue /\ \A a \in Axis : ~CapReached(c.caps, a, context)
             \/ /\ d.stop /\ d.reason = "budget"
                /\ \E a \in Axis : CapReached(c.caps, a, context)
<1> DEFINE reached == {k \in DOMAIN BudgetAxes : CapReached(c.caps, BudgetAxes[k], context)}
<1>1. EvaluateTermination(c, context) = EvaluateBudget(c, context)
  BY DEF EvaluateTermination, FloorBlocks
<1>2. CASE reached = {}
  BY <1>1, <1>2 DEF EvaluateBudget, Axis
<1>3. CASE reached # {}
  <2>1. EvaluateBudget(c, context) = Stop("budget", BudgetAxes[LeastOf(reached)])
    BY <1>3 DEF EvaluateBudget
  <2>2. \A axis : Stop("budget", axis).stop /\ Stop("budget", axis).reason = "budget"
    BY DEF Stop
  <2>3. \E a \in Axis : CapReached(c.caps, a, context)
    BY <1>3 DEF Axis
  <2> QED
    BY <1>1, <2>1, <2>2, <2>3
<1> QED
  BY <1>2, <1>3

LEMMA ConvergenceDecides ==
  ASSUME NEW c, c.kind = "convergence", c.stableTurns \in Int, c.stableTurns >= 1, NEW context
  PROVE  LET d == EvaluateTermination(c, context)
         IN  \/ d = Continue
             \/ /\ d.stop /\ d.reason = "convergence"
                /\ ~(context.progress < context.floor)
                /\ Len(context.outputs) >= c.stableTurns
<1>1. CASE context.progress < context.floor
  BY <1>1 DEF EvaluateTermination, FloorBlocks
<1>2. CASE ~(context.progress < context.floor)
  <2>1. EvaluateTermination(c, context) = EvaluateConvergence(c, context)
    BY <1>2 DEF EvaluateTermination, FloorBlocks
  <2>2. Stop("convergence", "none").stop /\ Stop("convergence", "none").reason = "convergence"
    BY DEF Stop
  <2>3. \/ EvaluateConvergence(c, context) = Continue
        \/ /\ EvaluateConvergence(c, context) = Stop("convergence", "none")
           /\ Len(context.outputs) >= c.stableTurns
    BY DEF EvaluateConvergence
  <2> QED
    BY <1>2, <2>1, <2>2, <2>3
<1> QED
  BY <1>1, <1>2

LEMMA JudgeDecides ==
  ASSUME NEW c, c.kind = "judge", NEW context, context.verdicts = {}
  PROVE  EvaluateTermination(c, context) = Continue
BY DEF EvaluateTermination, EvaluateJudge


LEMMA ObservedFacts ==
  ASSUME TypeInv
  PROVE  /\ \A a \in Axis : Context.observed[a] \in Nat
         /\ Context.verdicts = {} /\ Len(Context.outputs) = Len(transcript)
         /\ Len(transcript) \in Nat /\ totalCost \in Nat
<1>1. /\ IsSeq(transcript) /\ Len(transcript) \in Nat /\ DOMAIN transcript = 1..Len(transcript)
      /\ totalCost \in Nat /\ clock \in Nat
  BY SeqFacts DEF TypeInv, LogOK, FlagsOK
<1>2. Axis = {"cost", "tokens", "iterations", "timeout"}
  BY DEF Axis, BudgetAxes
<1>3. \A a \in Axis : Context.observed[a] \in Nat
  BY <1>1, <1>2, ContextFacts
<1>4. Len(Context.outputs) = Len(transcript)
  <2> DEFINE outputs == [k \in 1..Len(transcript) |-> transcript[k].text]
  <2>1. Context.outputs = outputs
    BY <1>1, ContextFacts
  <2>2. Len(outputs) = Len(transcript)
    BY <1>1, FunctionIsSeq
  <2> QED
    BY <2>1, <2>2
<1>5. Context.verdicts = {}
  BY DEF Context
<1> QED
  BY <1>1, <1>3, <1>4, <1>5

\* What one condition decides, and what the decision rests on.
LEMMA OneDecides ==
  ASSUME TypeInv, CountInv, NEW k \in DOMAIN Conditions, NEW d,
         d = EvaluateTermination(Conditions[k], Context)
  PROVE  /\ d = Continue \/ (d.stop /\ d.reason \in {"budget", "convergence"})
         /\ ~d.stop /\ Conditions[k].kind = "budget" => Below(Conditions[k].caps)
         /\ d.stop /\ d.reason = "convergence" => Converged
         /\ d.stop /\ d.reason = "budget" => CapIsReached
<1> DEFINE c == Conditions[k]
<1>0. /\ ~Continue.stop
      /\ IsCondition(c) /\ ValidCondition(c)
  BY ConditionFacts DEF Continue, TypeInv
<1>1. CASE c.kind = "budget"
  <2>1. c.caps \in BudgetsOf
    BY <1>1 DEF BudgetsOf
  <2>2. DOMAIN c.caps \subseteq Axis /\ \A a \in DOMAIN c.caps : c.caps[a] \in Int
    BY <2>1, ConditionFacts DEF TypeInv
  <2>3. \/ (d = Continue /\ \A a \in Axis : ~CapReached(c.caps, a, Context))
        \/ d.stop /\ d.reason = "budget" /\ \E a \in Axis : CapReached(c.caps, a, Context)
    BY <1>1, BudgetDecides
  <2>4. ASSUME \A a \in Axis : ~CapReached(c.caps, a, Context)
        PROVE  Below(c.caps)
    <3>1. ASSUME NEW a \in DOMAIN c.caps
          PROVE  Context.observed[a] < c.caps[a]
      <4>1. a \in Axis /\ c.caps[a] \in Int /\ Context.observed[a] \in Nat
        BY <2>2, ObservedFacts
      <4>2. ~(Context.observed[a] >= c.caps[a])
        BY <2>4, <4>1 DEF CapReached
      <4> QED
        BY <4>1, <4>2
    <3> QED
      BY <3>1, ContextFacts DEF Below
  <2>5. ASSUME NEW a \in Axis, CapReached(c.caps, a, Context)
        PROVE  CapIsReached
    BY <2>1, <2>5 DEF CapIsReached, CapReached
  <2>6. "convergence" # "budget"
    OBVIOUS
  <2> QED
    BY <1>0, <1>1, <2>3, <2>4, <2>5, <2>6
<1>2. CASE c.kind = "convergence"
  <2>1. c.stableTurns \in Int /\ c.stableTurns >= 1
    BY <1>0, <1>2 DEF IsCondition, ValidCondition
  <2>2. \/ d = Continue
        \/ /\ d.stop /\ d.reason = "convergence"
           /\ ~(Context.progress < Context.floor)
           /\ Len(Context.outputs) >= c.stableTurns
    BY <1>2, <2>1, ConvergenceDecides
  <2>3. ASSUME ~(Context.progress < Context.floor), Len(Context.outputs) >= c.stableTurns
        PROVE  Converged
    <3>1. Len(transcript) > 0
      BY <2>1, <2>3, ObservedFacts
    <3>2. /\ conf.protocol \in {"sequential", "broadcast", "shared"}
          /\ conf.floor \in Nat /\ round \in Nat /\ Context.floor = conf.floor
      BY RunFacts, WaveFacts, ContextFacts DEF TypeInv, FlagsOK
    <3>3. Context.progress = IF conf.protocol = "broadcast" THEN round ELSE Len(transcript)
      BY <3>2 DEF Context, SequentialProgress, SharedProgress, BroadcastProgress, CountInv, Of
    <3> QED
      BY <2>3, <3>1, <3>2, <3>3, ObservedFacts DEF Converged
  <2> QED
    BY <1>0, <1>2, <2>2, <2>3
<1>3. CASE c.kind = "judge"
  <2>1. d = Continue
    BY <1>3, ObservedFacts, JudgeDecides
  <2> QED
    BY <1>0, <1>3, <2>1
<1> QED
  BY <1>0, <1>1, <1>2, <1>3 DEF IsCondition

\* What the check decides.
LEMMA StopFacts ==
  ASSUME TypeInv, CountInv, NEW d, d = EvaluateTerminationStop(Conditions, Context)
  PROVE  /\ d = Continue \/ (d.stop /\ d.reason \in {"budget", "convergence"})
         /\ ~d.stop => \A caps \in BudgetsOf : Below(caps)
         /\ d.stop /\ d.reason = "convergence" => Converged
         /\ d.stop /\ d.reason = "budget" => CapIsReached
<1> DEFINE stopping == {k \in DOMAIN Conditions :
                          EvaluateTermination(Conditions[k], Context).stop}
<1>1. CASE stopping = {}
  <2>1. d = Continue
    BY <1>1 DEF EvaluateTerminationStop
  <2>2. ASSUME NEW caps \in BudgetsOf
        PROVE  Below(caps)
    <3>1. PICK k \in DOMAIN Conditions : Conditions[k].kind = "budget" /\ caps = Conditions[k].caps
      BY <2>2 DEF BudgetsOf
    <3>2. ~EvaluateTermination(Conditions[k], Context).stop
      BY <1>1
    <3> QED
      BY <3>1, <3>2, OneDecides
  <2> QED
    BY <2>1, <2>2 DEF Continue
<1>2. CASE stopping # {}
  <2>1. stopping \in SUBSET Nat
    BY ConditionFacts DEF TypeInv
  <2>2. d = EvaluateTermination(Conditions[LeastOf(stopping)], Context)
    BY <1>2 DEF EvaluateTerminationStop
  <2>3. LeastOf(stopping) \in stopping
    BY <1>2, <2>1, LeastIsLeast
  <2>4. LeastOf(stopping) \in DOMAIN Conditions /\ d.stop
    BY <2>2, <2>3
  <2> QED
    BY <2>2, <2>4, OneDecides
<1> QED
  BY <1>1, <1>2


Going == {"setup", "check", "ask", "turns"}
Ending == {"output", "evaluate", "over"}

ObservedNow ==
  [a \in Axis |-> CASE a \in {"cost", "tokens"} -> totalCost
                    [] a = "iterations"         -> Len(transcript)
                    [] a = "timeout"            -> clock]

LEMMA ContextObserves == Context.observed = ObservedNow /\ Context.observed' = ObservedNow'
BY DEF Context, ObservedNow

\* What a step other than a check leaves alone.
LEMMA OtherSteps ==
  ASSUME TypeInv, QuietInv, [Next]_vars, ~Check
  PROVE  /\ UNCHANGED termination /\ Of("budget-stop")' = Of("budget-stop")
         /\ phase' \in Going => phase \in Going
         /\ phase' = "ask" => phase = "ask" /\ UNCHANGED <<totalCost, transcript>>
         /\ phase' \in {"output", "evaluate"} => phase \in {"output", "evaluate"}
         /\ Of("final")' = Of("final") \/ phase = "output"
         /\ phase \in Ending => UNCHANGED <<totalCost, transcript, round>> /\ clock <= clock'
<1> USE DEF Going, Ending
<1>0. /\ RunOK /\ LogOK /\ CallOK /\ FlagsOK /\ clock \in Int
  BY DEF TypeInv, FlagsOK
<1>1. CASE Start
  <2>1. \A k \in DOMAIN events' : events'[k].type = "role-assignment"
    BY <1>0, <1>1, StartSteps
  <2>2. phase = "setup" /\ events = <<>>
    BY <1>0, <1>1 DEF Start, LogOK
  <2>3. \A type \in {"budget-stop", "final"} : Of(type)' = {} /\ Of(type) = {}
    BY <2>1, <2>2 DEF Of
  <2> QED
    BY <1>1, <2>2, <2>3 DEF Start
<1>2. ASSUME NEW a \in Agents, Ask(a)
      PROVE  /\ phase = "ask" /\ phase' \in {"ask", "turns"}
             /\ UNCHANGED <<termination, totalCost, transcript>>
             /\ Of("budget-stop")' = Of("budget-stop") /\ Of("final")' = Of("final")
  <2>1. Adds({"model-request"}, {a})
    BY <1>2, SmallSteps
  <2>2. Of("budget-stop")' = Of("budget-stop") /\ Of("final")' = Of("final")
    BY <1>0, <2>1, OfKept
  <2> QED
    BY <1>2, <2>2 DEF Ask, RunVars
<1>3. ASSUME NEW a \in Agents, Turn(a)
      PROVE  /\ phase \in {"turns", "over"} /\ phase' = phase
             /\ UNCHANGED <<termination, transcript, round, clock>>
             /\ phase = "over" => UNCHANGED totalCost
             /\ Of("budget-stop")' = Of("budget-stop") /\ Of("final")' = Of("final")
  <2>1. TurnStep
    BY <1>3, TurnSteps
  <2>2. Of("budget-stop")' = Of("budget-stop") /\ Of("final")' = Of("final")
    BY <1>0, <2>1, SmallSteps, OfKept DEF TurnTypes
  <2>3. phase = "over" => UNCHANGED totalCost
    BY <1>0, <1>3, TurnActive, TurnIsQuiet DEF QuietInv
  <2>4. phase \in {"turns", "over"}
    BY <1>3 DEF Turn, Chunk, Answer, ProviderFails, UseTool, ToolEnds, ToolIsAborted,
                ToolTimesOut, ToolReturns, TurnEnds, ToolEndsWith, TurnsGoOn
  <2> QED
    BY <2>1, <2>2, <2>3, <2>4 DEF TurnStep
<1>4. CASE Record
  <2>1. PICK n \in Nat : RecordStep(n)
    BY <1>0, <1>4, RecordSteps
  <2>2. Of("budget-stop")' = Of("budget-stop") /\ Of("final")' = Of("final")
    BY <1>0, <2>1, RecordOf
  <2> QED
    BY <2>1, <2>2 DEF RecordStep, WaveDone
<1>5. CASE Final
  <2>1. Of("budget-stop")' = Of("budget-stop")
    BY <1>0, <1>5, SmallSteps, OfKept
  <2> QED
    BY <1>0, <1>5, <2>1 DEF Final, RunVars
<1>6. ASSUME \/ AbortNoticed \/ WaveFails \/ Evaluate \/ RaceLost \/ CallerAborts \/ TimerFires
             \/ Tick \/ UNCHANGED vars
      PROVE  /\ phase' = phase \/ phase' = "over"
             /\ UNCHANGED <<termination, totalCost, transcript, round>> /\ clock <= clock'
             /\ Of("budget-stop")' = Of("budget-stop") /\ Of("final")' = Of("final")
  <2>1. OuterStep
    BY <1>6, OuterSteps
  <2>2. Of("budget-stop")' = Of("budget-stop") /\ Of("final")' = Of("final")
    BY <2>1, SmallSteps DEF Of
  <2>3. UNCHANGED termination
    BY <1>6 DEF AbortNoticed, ThrowsIfAborted, WaveFails, Evaluate, RaceLost, CallerAborts,
                TimerFires, Tick, vars
  <2>4. clock <= clock'
    BY <1>0, <1>6 DEF AbortNoticed, ThrowsIfAborted, WaveFails, Evaluate, RaceLost,
                      CallerAborts, TimerFires, Tick, vars
  <2> QED
    BY <2>1, <2>2, <2>3, <2>4 DEF OuterStep, RunVars
<1>7. (\E a \in Agents : Ask(a)) \/ (\E a \in Agents : Turn(a)) \/ Start \/ Record \/ Final
      \/ AbortNoticed \/ WaveFails \/ Evaluate \/ RaceLost \/ CallerAborts \/ TimerFires
      \/ Tick \/ UNCHANGED vars
  BY StepKinds
<1>8. CASE \E a \in Agents : Ask(a)
  BY <1>2, <1>8
<1>9. CASE \E a \in Agents : Turn(a)
  BY <1>0, <1>3, <1>9
<1>10. CASE AbortNoticed \/ WaveFails \/ Evaluate \/ RaceLost \/ CallerAborts \/ TimerFires
            \/ Tick \/ UNCHANGED vars
  BY <1>6, <1>10
<1> QED
  BY <1>1, <1>4, <1>5, <1>7, <1>8, <1>9, <1>10

\* A check decides, and changes nothing that the decision rests on.
LEMMA CheckSteps ==
  ASSUME TypeInv, CountInv, [Next]_vars, Check
  PROVE  /\ termination' = EvaluateTerminationStop(Conditions, Context) /\ phase = "check"
         /\ phase' = IF termination'.stop \/ round = Waves THEN "output" ELSE "ask"
         /\ termination' = Continue \/ termination'.stop
         /\ UNCHANGED <<conf, round, transcript, totalCost, clock>>
         /\ Of("final")' = Of("final")
         /\ Of("budget-stop")' =
              IF termination'.stop /\ termination'.reason = "budget"
              THEN Of("budget-stop") \cup {Len(events) + 1} ELSE Of("budget-stop")
<1>1. /\ termination' = EvaluateTerminationStop(Conditions, Context) /\ phase = "check"
      /\ phase' = IF termination'.stop \/ round = Waves THEN "output" ELSE "ask"
      /\ UNCHANGED <<conf, round, transcript, totalCost, clock>>
      /\ IF termination'.stop /\ termination'.reason = "budget"
         THEN EmitAndRecord(Plain("budget-stop", 0), Len(transcript)) ELSE UNCHANGED Log
  BY DEF Check, StopIfNeeded, RunVars
<1>2. termination' = Continue \/ termination'.stop
  BY <1>1, StopFacts
<1>3. Of("final")' = Of("final")
  BY SmallSteps, OfKept DEF TypeInv
<1>4. CASE termination'.stop /\ termination'.reason = "budget"
  <2> DEFINE e == Plain("budget-stop", 0)
  <2>1. events' = Append(events, e) /\ e.type = "budget-stop"
    BY <1>1, <1>4 DEF EmitAndRecord, Plain, Event
  <2> HIDE DEF e
  <2>2. Of("budget-stop")' = Of("budget-stop") \cup {Len(events) + 1}
    BY <2>1, OfAppended DEF TypeInv
  <2> QED
    BY <1>1, <1>2, <1>3, <1>4, <2>2
<1>5. CASE ~(termination'.stop /\ termination'.reason = "budget")
  <2>1. Of("budget-stop")' = Of("budget-stop")
    BY <1>1, <1>5 DEF Log, Of
  <2> QED
    BY <1>1, <1>2, <1>3, <1>5, <2>1
<1> QED
  BY <1>4, <1>5

LEMMA DecidedStep ==
  ASSUME TypeInv, CountInv, QuietInv, DecidedInv, [Next]_vars
  PROVE  DecidedInv'
<1>0. LogOK' /\ Extends(events', events) /\ ~Continue.stop /\ Len(events) \in Nat
  BY LogStep, SeqFacts DEF TypeInv, Continue, LogOK
<1>1. CASE ~Check
  <2>1. /\ UNCHANGED termination /\ Of("budget-stop")' = Of("budget-stop")
        /\ phase' \in Going => phase \in Going
    BY <1>1, OtherSteps
  <2>2. \A k \in DOMAIN events : k \in DOMAIN events'
    BY <1>0, SeqFacts DEF Extends, LogOK, TypeInv
  <2> QED
    BY <2>1, <2>2 DEF DecidedInv, Going
<1>2. CASE Check
  <2>1. /\ phase = "check" /\ phase' = IF termination'.stop \/ round = Waves THEN "output" ELSE "ask"
        /\ termination' = Continue \/ termination'.stop
        /\ Of("budget-stop")' =
             IF termination'.stop /\ termination'.reason = "budget"
             THEN Of("budget-stop") \cup {Len(events) + 1} ELSE Of("budget-stop")
    BY <1>2, CheckSteps
  <2>2. Of("budget-stop") = {}
    BY <1>0, <2>1 DEF DecidedInv
  <2>3. phase' \in Going => termination' = Continue
    BY <2>1 DEF Going
  <2>4. CASE termination'.stop /\ termination'.reason = "budget"
    <3>1. PICK new : new = Len(events) + 1
      OBVIOUS
    <3>2. Of("budget-stop")' = {new} /\ new \in DOMAIN events'
      BY <2>1, <2>2, <2>4, <3>1 DEF Of
    <3> QED
      BY <2>3, <2>4, <3>2 DEF DecidedInv, Going
  <2>5. CASE ~(termination'.stop /\ termination'.reason = "budget")
    BY <2>1, <2>2, <2>3, <2>5 DEF DecidedInv, Going
  <2> QED
    BY <2>4, <2>5
<1> QED
  BY <1>1, <1>2

LEMMA BelowStep ==
  ASSUME TypeInv, CountInv, QuietInv, BelowInv, [Next]_vars
  PROVE  BelowInv'
<1> DEFINE Allowed(k) == \A caps \in BudgetsOf :
              /\ \A a \in {"cost", "tokens"} \cap DOMAIN caps : events[k].total < caps[a]
              /\ "iterations" \in DOMAIN caps => TurnsBefore(k) < caps["iterations"]
           Allowed_(k) == \A caps \in BudgetsOf :
              /\ \A a \in {"cost", "tokens"} \cap DOMAIN caps : events'[k].total < caps[a]
              /\ "iterations" \in DOMAIN caps => TurnsBefore(k)' < caps["iterations"]
<1>0. /\ RunOK /\ LogOK /\ conf' = conf /\ Extends(events', events)
      /\ Of("model-request") \subseteq 1..Len(events) /\ Len(events) \in Nat
      /\ BudgetsOf' = BudgetsOf
  BY ConfKept, OfFinite, LogStep DEF TypeInv, BudgetsOf, Conditions
<1>1. \A k \in Of("model-request") : Allowed(k)
  BY DEF BelowInv
<1>2. ASSUME ~Start, NEW k \in Of("model-request")
      PROVE  Allowed_(k)
  <2>1. TurnsBefore(k)' = TurnsBefore(k)
    BY <1>0, <1>2, TurnsBeforeKept
  <2>2. events'[k] = events[k]
    BY <1>0 DEF Extends
  <2> QED
    BY <1>1, <2>1, <2>2
<1>3. CASE \E a \in Agents : Ask(a)
  <2>1. PICK a \in Agents : Ask(a)
    BY <1>3
  <2>2. phase = "ask" /\ ~Start /\ UNCHANGED <<totalCost, transcript>>
    BY <2>1 DEF Ask, Start, RunVars
  <2>3. \A caps \in BudgetsOf : Below(caps)
    BY <2>2 DEF BelowInv
  <2>4. CASE UNCHANGED events
    <3>1. Of("model-request")' = Of("model-request")
      BY <2>4 DEF Of
    <3> QED
      BY <1>0, <1>2, <2>2, <2>3, <3>1 DEF BelowInv, Below
  <2>5. ASSUME NEW e, events' = Append(events, e), e.type = "model-request", e.total = totalCost
        PROVE  BelowInv'
    <3>0. PICK new \in Nat : new = Len(events) + 1
      BY <1>0
    <3>1. Of("model-request")' = Of("model-request") \cup {new} /\ events'[new] = e
      BY <1>0, <2>5, <3>0, OfAppended
    <3>2. TurnsBefore(new)' = Len(transcript)
      <4>1. Adds({"model-request"}, {a})
        BY <2>1, SmallSteps
      <4>2. Of("agent-turn")' = Of("agent-turn")
        BY <1>0, <4>1, OfKept
      <4>3. TurnsBefore(new) = Len(transcript)
        BY <3>0, TurnsSoFar
      <4> QED
        BY <4>2, <4>3 DEF TurnsBefore
    <3>3. Allowed_(new)
      BY <2>3, <2>5, <3>1, <3>2 DEF Below
    <3> QED
      BY <1>0, <1>2, <2>2, <2>3, <3>1, <3>3 DEF BelowInv, Below
  <2>6. UNCHANGED events \/ \E e : /\ events' = Append(events, e)
                                   /\ e.type = "model-request" /\ e.total = totalCost
    BY <2>1 DEF Ask, Log, Emit, Event
  <2> QED
    BY <2>4, <2>5, <2>6
<1>4. CASE Start
  <2>1. Of("model-request")' = {} /\ phase' = "check"
    BY <1>0, <1>4, PlainSteps DEF Start, Record, SequentialRecord, SharedRecord, BroadcastRecord,
                                  WaveDone
  <2> QED
    BY <2>1 DEF BelowInv
<1>5. CASE ~Start /\ ~(\E a \in Agents : Ask(a))
  <2>1. Of("model-request")' = Of("model-request")
    <3>1. CASE Record
      <4>1. PICK n \in Nat : RecordStep(n)
        BY <1>0, <3>1, RecordSteps
      <4> QED
        BY <1>0, <4>1, RecordOf
    <3>2. \A types, agents : Adds(types, agents) /\ "model-request" \notin types
                               => Of("model-request")' = Of("model-request")
      BY <1>0, OfKept
    <3>3. CASE Check
      BY <3>2, <3>3, SmallSteps
    <3>4. ASSUME NEW a \in Agents, Turn(a)
          PROVE  Of("model-request")' = Of("model-request")
      BY <3>2, <3>4, TurnSteps, SmallSteps DEF TurnTypes
    <3>5. CASE Final
      BY <3>2, <3>5, SmallSteps
    <3>6. ASSUME OuterStep
          PROVE  Of("model-request")' = Of("model-request")
      BY <3>6, SmallSteps DEF Of
    <3> QED
      BY <1>5, <3>1, <3>3, <3>4, <3>5, <3>6, StepKinds, OuterSteps
  <2>2. ASSUME phase' = "ask", NEW caps \in BudgetsOf
        PROVE  Below(caps)'
    <3>1. CASE Check
      <4>1. /\ termination' = EvaluateTerminationStop(Conditions, Context) /\ ~termination'.stop
            /\ UNCHANGED <<totalCost, transcript>>
        BY <2>2, <3>1, CheckSteps
      <4>2. Below(caps)
        BY <2>2, <4>1, StopFacts
      <4> QED
        BY <4>1, <4>2 DEF Below
    <3>2. CASE ~Check
      <4>1. phase = "ask" /\ UNCHANGED <<totalCost, transcript>>
        BY <2>2, <3>2, OtherSteps
      <4> QED
        BY <2>2, <4>1 DEF Below, BelowInv
    <3> QED
      BY <3>1, <3>2
  <2> QED
    BY <1>0, <1>2, <1>5, <2>1, <2>2 DEF BelowInv
<1> QED
  BY <1>3, <1>4, <1>5

LEMMA JustifiedStep ==
  ASSUME TypeInv, CountInv, QuietInv, FinalInv, JustifiedInv, [Next]_vars
  PROVE  JustifiedInv'
<1>0. conf' = conf /\ BudgetsOf' = BudgetsOf /\ Waves' = Waves
  BY ConfKept, OptionsKept DEF TypeInv, BudgetsOf, Conditions
<1>1. CASE Check
  <2>1. /\ termination' = EvaluateTerminationStop(Conditions, Context) /\ phase = "check"
        /\ phase' = IF termination'.stop \/ round = Waves THEN "output" ELSE "ask"
        /\ UNCHANGED <<conf, round, transcript, totalCost, clock>>
        /\ Of("final")' = Of("final")
    BY <1>1, CheckSteps
  <2>2. Of("final")' = {}
    BY <2>1 DEF FinalInv
  <2>3. ASSUME phase' = "output"
        PROVE  Justified'
    <3>1. /\ ~termination'.stop => \A caps \in BudgetsOf : Below(caps)
          /\ termination'.stop /\ termination'.reason = "convergence" => Converged
          /\ termination'.stop /\ termination'.reason = "budget" => CapIsReached
      BY <2>1, StopFacts
    <3>2. ~termination'.stop => round = Waves
      BY <2>1, <2>3
    <3>3. \A caps : Below(caps)' = Below(caps)
      BY <2>1 DEF Below
    <3>4. Converged' = Converged
      BY <2>1 DEF Converged
    <3>5. CapIsReached' = CapIsReached
      <4>1. Context.observed' = Context.observed
        BY <2>1, ContextObserves DEF ObservedNow
      <4> QED
        BY <1>0, <4>1 DEF CapIsReached
    <3> QED
      BY <1>0, <2>1, <3>1, <3>2, <3>3, <3>4, <3>5 DEF Justified, Unstopped
  <2> QED
    BY <2>1, <2>2, <2>3 DEF JustifiedInv
<1>2. CASE ~Check /\ (phase' \in {"output", "evaluate"} \/ Of("final")' # {})
  <2>1. phase \in {"output", "evaluate"} \/ Of("final") # {}
    BY <1>2, OtherSteps
  <2>2. phase \in Ending
    BY <2>1 DEF FinalInv, Ending
  <2>3. UNCHANGED <<termination, totalCost, transcript, round>> /\ clock <= clock'
    BY <1>2, <2>2, OtherSteps
  <2>4. Justified
    BY <2>1 DEF JustifiedInv
  <2>5. \A caps : Below(caps)' = Below(caps)
    BY <2>3 DEF Below
  <2>6. Converged' = Converged
    BY <1>0, <2>3 DEF Converged
  <2>7. ASSUME CapIsReached
        PROVE  CapIsReached'
    <3>1. PICK caps \in BudgetsOf, a \in Axis :
            a \in DOMAIN caps /\ Context.observed[a] >= caps[a]
      BY <2>7 DEF CapIsReached
    <3>2. caps[a] \in Int /\ Context.observed[a] \in Nat /\ clock \in Int /\ clock' \in Int
      BY <3>1, ConditionFacts, ObservedFacts, TypeStep DEF TypeInv, FlagsOK
    <3>3. Axis = {"cost", "tokens", "iterations", "timeout"}
      BY DEF Axis, BudgetAxes
    <3>4. \/ Context.observed'[a] = Context.observed[a]
          \/ Context.observed'[a] = clock' /\ Context.observed[a] = clock
      BY <2>3, <3>3, ContextObserves DEF ObservedNow
    <3>5. Context.observed'[a] >= caps[a]
      BY <2>3, <3>1, <3>2, <3>4
    <3> QED
      BY <1>0, <3>1, <3>5 DEF CapIsReached
  <2>8. Justified'
    BY <1>0, <2>3, <2>4, <2>5, <2>6, <2>7 DEF Justified, Unstopped
  <2> QED
    BY <2>8 DEF JustifiedInv
<1>3. CASE ~Check /\ ~(phase' \in {"output", "evaluate"} \/ Of("final")' # {})
  BY <1>3 DEF JustifiedInv
<1> QED
  BY <1>1, <1>2, <1>3

LEMMA StopInit == Init => DecidedInv /\ BelowInv /\ JustifiedInv
<1> SUFFICES ASSUME Init
             PROVE  DecidedInv /\ BelowInv /\ JustifiedInv
  OBVIOUS
<1>1. \A type : Of(type) = {}
  BY DEF Init, Of
<1>2. phase = "setup" /\ termination = Continue /\ ~Continue.stop
  BY DEF Init, Continue
<1> QED
  BY <1>1, <1>2 DEF DecidedInv, BelowInv, JustifiedInv

THEOREM StopInvariant == Spec => [](DecidedInv /\ BelowInv /\ JustifiedInv)
<1>1. TypeInv /\ CountInv /\ QuietInv /\ FinalInv /\ DecidedInv /\ BelowInv /\ JustifiedInv
        /\ [Next]_vars => (DecidedInv /\ BelowInv /\ JustifiedInv)'
  BY DecidedStep, BelowStep, JustifiedStep
<1> QED
  BY CountInvariant, QuietInvariant, OutputInvariant, StopInit, <1>1, PTL DEF Spec

LEMMA StopsAgree ==
  ASSUME DecidedInv, BelowInv, JustifiedInv
  PROVE  StopIsJustified
<1>1. Cardinality(Of("budget-stop")) =
        IF termination.stop /\ termination.reason = "budget" THEN 1 ELSE 0
  BY FS_Singleton, FS_EmptySet DEF DecidedInv
<1>2. Of("final") # {} => Justified
  BY DEF JustifiedInv
<1> QED
  BY <1>1, <1>2 DEF StopIsJustified, BelowInv, Justified, Unstopped, Below, Converged, CapIsReached

\* No request is made once a cap on cost or turns is reached; a run that stops early has
\* reached a cap, or converged past its floor, and one that does not has taken all its
\* turns below every cap.
THEOREM StopsJustified == Spec => []StopIsJustified
<1>1. DecidedInv /\ BelowInv /\ JustifiedInv => StopIsJustified
  BY StopsAgree
<1> QED
  BY StopInvariant, <1>1, PTL
=============================================================================
