--------------------------- MODULE TurnLedger_proofs ---------------------------
(***************************************************************************)
(* The ledger of a run of TurnProtocols: its calls, turns, costs, tools    *)
(* and decisions.  A run that may still resolve keeps, for each of these,  *)
(* an invariant that says what a wave in progress has open.                *)
(***************************************************************************)
EXTENDS TurnProtocols_proofs

\* A run that may still resolve, or has.
Healthy == phase # "over" \/ settled = "resolved"

InWave   == phase \in {"ask", "turns"}
Answered == {"answered", "tool", "tool-ended", "done"}

\* The number of the call of an agent in the wave, and of its turn.
Number(a) == Len(transcript) + IF Parallel THEN a ELSE 1

\* Position k is the last one where a has an event of the type.
LastBy(type, a, k) ==
  /\ k \in Of(type) /\ events[k].agent = a
  /\ \A l \in Of(type) : events[l].agent = a => l <= k

\* Outside of a wave no call is open; in a wave those of its agents may be, in order.
WaveInv ==
  /\ settled = "resolved" => phase = "over"
  /\ Healthy =>
       /\ ~InWave => \A a \in Agents : call[a] \notin Active
       /\ InWave => \A a \in Agents : call[a] \in Active => a \in Wave
       /\ phase = "ask" =>
            /\ \A a \in Wave : call[a] \in {"idle", "called", "failed"}
            /\ \A a, b \in Wave : b < a /\ call[a] # "idle" => call[b] # "idle"
       /\ phase = "turns" => \A a \in Wave : call[a] # "idle"

\* Requests are numbered without a gap, unless the wave has failed.
RequestInv ==
  /\ \A q \in Of("model-request") : events[q].call = Nth(q)
  /\ Healthy =>
       LET count == Cardinality(Of("model-request"))
       IN  /\ ~InWave => count = Len(transcript)
           /\ phase = "ask" /\ ~aborted => \A a \in Wave :
                /\ call[a] # "failed"
                /\ call[a] = "idle" /\ (\A b \in Wave : b < a => call[b] # "idle")
                     => count + 1 = Number(a)
           /\ phase = "turns" =>
                (\E a \in Wave : call[a] = "failed") \/ count = Len(transcript) + Cardinality(Wave)
           /\ InWave => \A a \in Wave : call[a] \in Active \cup {"done"} =>
                \E q \in DOMAIN events : LastBy("model-request", a, q) /\ events[q].call = Number(a)

\* Call n of agent a was asked at q and answered at r, before position k.
Told(q, r, n, a, k) ==
  /\ q \in Of("model-request") /\ r \in Of("model-response") /\ q < r /\ r < k
  /\ events[q].call = n /\ events[r].call = n
  /\ events[q].agent = a /\ events[r].agent = a

\* Responses belong to a turn that is recorded or to an agent in the wave.
ResponseInv ==
  Healthy =>
    /\ \A r, s \in Of("model-response") : events[r].call = events[s].call => r = s
    /\ \A r \in Of("model-response") :
         \/ events[r].call \in 1..Len(transcript)
         \/ InWave /\ \E a \in Wave : events[r].call = Number(a) /\ call[a] \notin {"idle", "called"}
    /\ InWave => \A a \in Wave : call[a] \in Answered =>
         \E q, r \in DOMAIN events : /\ Told(q, r, Number(a), a, Len(events) + 1)
                                   /\ events[r].text = reply[a].text
                                   /\ events[r].own = reply[a].cost

\* Each turn of the log tells what its call was answered, and adds its cost.
TurnInv ==
  /\ \A k \in Of("agent-turn") : /\ Nth(k) \in 1..Len(transcript)
                                 /\ events[k].agent = transcript[Nth(k)].agent
  /\ Healthy =>
       \A k \in Of("agent-turn") : \E q, r \in DOMAIN events :
         /\ Told(q, r, Nth(k), events[k].agent, k)
         /\ events[r].text = events[k].text
         /\ events[k].total = TotalBefore(k) + events[r].own

\* What has been spent is the total of the last turn; in a sequential wave, with the cost
\* of the answer.
SpentInv ==
  Healthy =>
    /\ Parallel \/ ~InWave => totalCost = TotalBefore(Len(events) + 1)
    /\ ~Parallel /\ InWave => \A a \in Wave :
         /\ call[a] \in {"idle", "called"} => totalCost = TotalBefore(Len(events) + 1)
         /\ call[a] \in Answered => totalCost = TotalBefore(Len(events) + 1) + reply[a].cost

\* The record of the calls holds those of the turns, and in a sequential wave the one
\* that is answered.
ProviderInv ==
  /\ IsSeq(providerCalls)
  /\ Healthy =>
       /\ Len(transcript) <= Len(providerCalls)
       /\ \A k \in 1..Len(transcript) :
            providerCalls[k] = [call |-> k, agent |-> transcript[k].agent]
       /\ Parallel \/ ~InWave => Len(providerCalls) = Len(transcript)
       /\ ~Parallel /\ InWave => \A a \in Wave :
            /\ call[a] \in {"idle", "called"} => Len(providerCalls) = Len(transcript)
            /\ call[a] \in Answered =>
                 /\ Len(providerCalls) = Len(transcript) + 1
                 /\ providerCalls[Number(a)] = [call |-> Number(a), agent |-> a]

\* A tool call has its result, or its agent waits for it or has failed.
ToolResult(k) ==
  \E r \in Of("tool-result") :
    r > k /\ events[r].call = events[k].call /\ events[r].agent = events[k].agent

ToolInv ==
  /\ \A k \in Of("tool-call") : events[k].call = Nth(k)
  /\ Healthy =>
       /\ \A k \in Of("tool-call") :
            \/ ToolResult(k)
            \/ InWave /\ \E a \in Wave :
                 call[a] \in {"tool", "tool-ended"} /\ LastBy("tool-call", a, k)
            \/ InWave /\ \E a \in Wave : call[a] = "failed"
       /\ \A r \in Of("tool-result") : \E k \in Of("tool-call") : events[k].call = events[r].call
       /\ \A r, s \in Of("tool-result") : events[r].call = events[s].call => r = s
       /\ \A a \in Agents : call[a] \in {"tool", "tool-ended"} =>
            \E k \in DOMAIN events : LastBy("tool-call", a, k)
                /\ \A r \in Of("tool-result") : events[r].call # events[k].call

DecisionInv ==
  /\ IsSeq(decisions)
  /\ phase = "setup" => decisions = <<>>
  /\ \A k \in DOMAIN decisions : decisions[k].index \in DOMAIN events
  /\ DecisionsAgree

-----------------------------------------------------------------------------
(* What stays                                                              *)

\* The events that are there keep their places.
LEMMA PlacesKept ==
  ASSUME TypeInv, [Next]_vars
  PROVE  /\ Extends(events', events)
         /\ Len(events) \in Nat /\ DOMAIN events = 1..Len(events)
         /\ Len(events') \in Nat /\ DOMAIN events' = 1..Len(events') /\ Len(events) <= Len(events')
         /\ \A k \in 1..Len(events) : events'[k] = events[k]
         /\ \A type : /\ Of(type) \subseteq 1..Len(events) /\ Of(type)' \subseteq 1..Len(events')
                      /\ Of(type) \subseteq Of(type)'
                      /\ \A k \in 1..Len(events) : k \in Of(type)' => k \in Of(type)
<1>1. Extends(events', events) /\ LogOK /\ LogOK'
  BY LogStep DEF TypeInv
<1>2. /\ Len(events) \in Nat /\ DOMAIN events = 1..Len(events)
      /\ Len(events') \in Nat /\ DOMAIN events' = 1..Len(events')
  BY <1>1, SeqFacts DEF LogOK
<1>3. Len(events) <= Len(events') /\ \A k \in 1..Len(events) : events'[k] = events[k]
  BY <1>1 DEF Extends
<1>4. ASSUME NEW type
      PROVE  /\ Of(type) \subseteq 1..Len(events) /\ Of(type)' \subseteq 1..Len(events')
             /\ Of(type) \subseteq Of(type)'
             /\ \A k \in 1..Len(events) : k \in Of(type)' => k \in Of(type)
  <2>1. Of(type)' = Of(type) \cup {k \in (Len(events) + 1)..Len(events') : events'[k].type = type}
    BY <1>1, OfStep
  <2>2. Of(type) \subseteq 1..Len(events) /\ Of(type)' \subseteq 1..Len(events')
    BY <1>2 DEF Of
  <2> QED
    BY <1>2, <2>1, <2>2
<1> QED
  BY <1>1, <1>2, <1>3, <1>4

LEMMA RanksKept ==
  ASSUME TypeInv, [Next]_vars, NEW k \in 1..Len(events)
  PROVE  Nth(k)' = Nth(k)
<1>1. events'[k] = events[k]
  BY PlacesKept
<1>2. ASSUME NEW type
      PROVE  {j \in Of(type)' : j < k} = {j \in Of(type) : j < k}
  BY PlacesKept
<1>3. PICK type : type = events[k].type
  OBVIOUS
<1>4. Nth(k)' = Cardinality({j \in Of(type)' : j < k}) + 1
  BY <1>1, <1>3 DEF Nth
<1>5. Nth(k) = Cardinality({j \in Of(type) : j < k}) + 1
  BY <1>3 DEF Nth
<1> QED
  BY <1>2, <1>4, <1>5

LEMMA TotalsKept ==
  ASSUME TypeInv, [Next]_vars, NEW k \in 1..(Len(events) + 1)
  PROVE  TotalBefore(k)' = TotalBefore(k)
<1> DEFINE turns  == {j \in Of("agent-turn") : j < k}
           turns_ == {j \in Of("agent-turn")' : j < k}
           Latest(S) == CHOOSE j \in S : \A l \in S : l <= j
<1>1. /\ Len(events) \in Nat /\ Of("agent-turn") \subseteq 1..Len(events)
      /\ Of("agent-turn") \subseteq Of("agent-turn")'
      /\ \A j \in 1..Len(events) : j \in Of("agent-turn")' => j \in Of("agent-turn")
      /\ \A j \in 1..Len(events) : events'[j] = events[j]
  BY PlacesKept
<1>2. Of("agent-turn")' \subseteq 1..Len(events')
  BY PlacesKept
<1>3. turns_ = turns /\ turns \subseteq 1..Len(events)
  BY <1>1, <1>2
<1>4. TotalBefore(k)' = IF turns_ = {} THEN 0 ELSE events'[Latest(turns_)].total
  BY DEF TotalBefore
<1>5. TotalBefore(k) = IF turns = {} THEN 0 ELSE events[Latest(turns)].total
  BY DEF TotalBefore
<1> HIDE DEF turns, turns_
<1>6. ASSUME turns # {}
      PROVE  Latest(turns) \in 1..Len(events)
  <2>1. \E j \in turns : \A l \in turns : l <= j
    BY <1>1, <1>3, <1>6, GreatestExists
  <2> QED
    BY <1>3, <2>1
<1> HIDE DEF Latest
<1> QED
  BY <1>1, <1>3, <1>4, <1>5, <1>6

LEMMA ToldKept ==
  ASSUME TypeInv, [Next]_vars, NEW q, NEW r, NEW n, NEW a, NEW k, NEW l, Told(q, r, n, a, k),
         k \in Int, l \in Int, k <= l
  PROVE  Told(q, r, n, a, l)' /\ {q, r} \subseteq 1..Len(events) /\ events'[r] = events[r]
<1>1. q \in 1..Len(events) /\ r \in 1..Len(events) /\ Len(events) \in Nat
  BY PlacesKept DEF Told
<1>2. events'[q] = events[q] /\ events'[r] = events[r]
  BY <1>1, PlacesKept
<1>3. q \in Of("model-request")' /\ r \in Of("model-response")'
  BY PlacesKept DEF Told
<1> QED
  BY <1>1, <1>2, <1>3 DEF Told

\* Of the types that are not added, the places are the same.
LEMMA OfUnchanged ==
  ASSUME UNCHANGED events, NEW type
  PROVE  Of(type)' = Of(type)
BY DEF Of

LEMMA UnhealthyStays ==
  ASSUME [Next]_vars, Healthy'
  PROVE  Healthy
<1> USE DEF Healthy
<1>1. CASE Start \/ Check \/ Final
  BY <1>1 DEF Start, Check, Final
<1>2. ASSUME NEW a \in Agents, Ask(a)
      PROVE  Healthy
  BY <1>2 DEF Ask
<1>3. ASSUME NEW a \in Agents, Turn(a)
      PROVE  Healthy
  BY <1>3, TurnSteps DEF TurnStep
<1>4. CASE Record
  BY <1>4 DEF Record, SequentialRecord, SharedRecord, BroadcastRecord, WaveDone
<1>5. CASE \/ AbortNoticed \/ WaveFails \/ Evaluate \/ RaceLost \/ CallerAborts \/ TimerFires
           \/ Tick \/ UNCHANGED vars
  BY <1>5 DEF AbortNoticed, ThrowsIfAborted, Throws, WaveFails, Evaluate, RaceLost, CallerAborts,
              TimerFires, Tick, vars
<1> QED
  BY <1>1, <1>2, <1>3, <1>4, <1>5, StepKinds

-----------------------------------------------------------------------------
(* The wave                                                                *)

\* What a step of a turn does to its call.
LEMMA TurnMoves ==
  ASSUME RunOK, CallOK, NEW a \in Agents, Turn(a)
  PROVE  /\ call[a] \in Active /\ call'[a] \in Active \cup {"done", "failed"}
         /\ \A b \in Agents : b # a => call'[b] = call[b]
         /\ call'[a] = "called" => call[a] = "called"
         /\ ~Answer(a) => /\ UNCHANGED <<reply, providerCalls, totalCost>>
                          /\ call[a] = "called" => call'[a] \in {"called", "failed"}
<1> USE DEF Active, CallOK, RunVars
<1>1. CASE Chunk(a) \/ ProviderFails(a)
  BY <1>1 DEF Chunk, ProviderFails
<1>2. CASE Answer(a)
  BY <1>2 DEF Answer
<1>3. CASE UseTool(a) \/ ToolReturns(a) \/ TurnEnds(a)
  BY <1>3 DEF UseTool, ToolReturns, TurnEnds
<1>4. CASE ToolEnds(a) \/ ToolIsAborted(a) \/ ToolTimesOut(a)
  BY <1>4 DEF ToolEnds, ToolIsAborted, ToolTimesOut, ToolEndsWith
<1> QED
  BY <1>1, <1>2, <1>3, <1>4 DEF Turn

\* As long as the run may resolve, turns go on in their wave only.
LEMMA TurnInWave ==
  ASSUME RunOK, CallOK, WaveInv, Healthy, NEW a \in Agents, Turn(a)
  PROVE  /\ phase = "turns" /\ a \in Wave
         /\ UNCHANGED <<conf, phase, round, transcript, aborted, settled>>
         /\ Wave' = Wave /\ Parallel' = Parallel /\ Agents' = Agents
         /\ \A b \in Agents : Number(b)' = Number(b)
<1>1. call[a] \in Active
  BY TurnMoves
<1>2. phase \in {"turns", "over"} /\ UNCHANGED <<conf, phase, round, transcript, aborted, settled>>
  BY TurnSteps DEF TurnStep
<1>3. phase = "turns" /\ a \in Wave
  BY <1>1, <1>2 DEF WaveInv, InWave
<1>4. Wave' = Wave /\ Parallel' = Parallel /\ Agents' = Agents
  BY <1>2, OptionsKept DEF Wave
<1> QED
  BY <1>2, <1>3, <1>4 DEF Number

\* The abort, the clock and the end.
OuterKind ==
  \/ AbortNoticed \/ WaveFails \/ Evaluate \/ RaceLost \/ CallerAborts \/ TimerFires \/ Tick
  \/ UNCHANGED vars

LEMMA OuterKeeps ==
  ASSUME OuterKind
  PROVE  /\ UNCHANGED <<conf, round, call, reply, events, decisions, transcript, providerCalls,
                        totalCost>>
         /\ Wave' = Wave /\ Parallel' = Parallel /\ Agents' = Agents
         /\ \A b : Number(b)' = Number(b)
         /\ \A type : Of(type)' = Of(type)
         /\ aborted => aborted'
         /\ \A k : Nth(k)' = Nth(k) /\ TotalBefore(k)' = TotalBefore(k)
<1>0. OuterStep
  BY OuterSteps DEF OuterKind
<1>1. /\ UNCHANGED <<conf, round, call, reply, events, decisions, transcript, providerCalls,
                    totalCost>>
      /\ aborted => aborted'
  BY <1>0 DEF OuterStep, WaveVars, RunVars, Log
<1>2. Wave' = Wave /\ Parallel' = Parallel /\ Agents' = Agents
  BY <1>1, OptionsKept DEF Wave
<1>3. \A type : Of(type)' = Of(type)
  BY <1>1 DEF Of
<1>4. ASSUME NEW k
      PROVE  Nth(k)' = Nth(k) /\ TotalBefore(k)' = TotalBefore(k)
  BY <1>1 DEF Nth, TotalBefore, Of
<1> QED
  BY <1>1, <1>2, <1>3, <1>4 DEF Number

LEMMA OuterPhase ==
  ASSUME OuterKind, WaveInv, Healthy'
  PROVE  Healthy /\ (phase' = phase \/ (phase = "evaluate" /\ phase' = "over"))
<1> USE DEF Healthy
<1>1. CASE AbortNoticed \/ WaveFails
  BY <1>1 DEF AbortNoticed, ThrowsIfAborted, Throws, WaveFails, WaveInv
<1>2. CASE Evaluate
  BY <1>2 DEF Evaluate
<1>3. CASE RaceLost \/ CallerAborts \/ TimerFires \/ Tick \/ UNCHANGED vars
  BY <1>3 DEF RaceLost, CallerAborts, TimerFires, Tick, vars
<1> QED
  BY <1>1, <1>2, <1>3 DEF OuterKind

LEMMA ResolvedStep ==
  ASSUME TypeInv, WaveInv, [Next]_vars
  PROVE  settled' = "resolved" => phase' = "over"
<1>1. CASE Start \/ Check \/ Final
  BY <1>1 DEF Start, Check, Final, WaveInv
<1>2. ASSUME NEW a \in Agents, Ask(a)
      PROVE  settled' = "resolved" => phase' = "over"
  BY <1>2 DEF Ask, WaveInv
<1>3. ASSUME NEW a \in Agents, Turn(a)
      PROVE  settled' = "resolved" => phase' = "over"
  BY <1>3, TurnSteps DEF TurnStep, WaveInv
<1>4. CASE Record
  BY <1>4 DEF Record, SequentialRecord, SharedRecord, BroadcastRecord, RecordWave, WaveDone, WaveInv
<1>5. CASE \/ AbortNoticed \/ WaveFails \/ Evaluate \/ RaceLost \/ CallerAborts \/ TimerFires
           \/ Tick \/ UNCHANGED vars
  BY <1>5 DEF AbortNoticed, ThrowsIfAborted, Throws, WaveFails, Evaluate, RaceLost, CallerAborts,
              TimerFires, Tick, vars, WaveInv
<1> QED
  BY <1>1, <1>2, <1>3, <1>4, <1>5, StepKinds

LEMMA WaveStep ==
  ASSUME TypeInv, WaveInv, [Next]_vars
  PROVE  WaveInv'
<1>0. /\ conf' = conf /\ RunOK /\ LogOK /\ CallOK /\ FlagsOK
      /\ Agents' = Agents /\ Parallel' = Parallel
      /\ Wave \subseteq Agents \/ phase \notin {"ask", "turns"}
  BY ConfKept, OptionsKept, WaveInAgents DEF TypeInv
<1>s. settled' = "resolved" => phase' = "over"
  BY ResolvedStep
<1> SUFFICES ASSUME Healthy'
             PROVE  WaveInv'
  BY <1>s DEF WaveInv
<1>h. Healthy
  BY UnhealthyStays
<1>1. CASE Start \/ Final
  BY <1>0, <1>s, <1>h, <1>1 DEF Start, Final, WaveVars, WaveInv, InWave
<1>2. CASE Check
  <2>1. \A a \in Agents : call'[a] = "idle"
    BY <1>2 DEF Check
  <2>2. phase' \in {"output", "ask"}
    BY <1>2 DEF Check
  <2>3. phase' = "ask" => Wave' \subseteq Agents
    <3>1. phase' = "ask" => round < Waves
      BY <1>0, <1>2, WaveFacts DEF Check, FlagsOK
    <3>2. Wave' = Wave
      BY <1>0, <1>2, OptionsKept DEF Check, Wave
    <3>3. round < Waves => Wave \subseteq Agents
      BY <1>0, WaveFacts, RunFacts DEF Wave, Parallel, FlagsOK
    <3> QED
      BY <3>1, <3>2, <3>3
  <2> QED
    BY <1>0, <1>s, <2>1, <2>2, <2>3 DEF WaveInv, InWave, Active
<1>3. ASSUME NEW a \in Agents, Ask(a)
      PROVE  WaveInv'
  <2>1. /\ phase = "ask" /\ a \in Wave /\ Wave' = Wave /\ settled' = settled
        /\ \A b \in Wave : b < a => call[b] # "idle"
        /\ call[a] = "idle" /\ call'[a] \in {"called", "failed"}
        /\ \A b \in Agents : b # a => call'[b] = call[b]
        /\ phase' = IF \A b \in Wave : b <= a THEN "turns" ELSE "ask"
    BY <1>0, <1>3 DEF Ask, Wave, CallOK, ActiveAgents
  <2>2. Wave \subseteq Agents /\ Agents \subseteq Nat
    BY <1>0, <2>1 DEF Agents
  <2>3. /\ \A b \in Agents : call[b] \in Active => b \in Wave
        /\ \A b \in Wave : call[b] \in {"idle", "called", "failed"}
        /\ \A c, b \in Wave : b < c /\ call[c] # "idle" => call[b] # "idle"
    BY <1>h, <2>1 DEF WaveInv, InWave
  <2>4. \A b \in Wave : b # a => b < a \/ a < b
    BY <2>1, <2>2
  <2>5. \A b \in Agents : call'[b] \in Active => b \in Wave
    BY <2>1, <2>3
  <2>6. \A b \in Wave : call'[b] \in {"idle", "called", "failed"}
    BY <2>1, <2>2, <2>3
  <2>7. \A b, c \in Wave : b < c /\ call'[c] # "idle" => call'[b] # "idle"
    BY <2>1, <2>2, <2>3, <2>4
  <2>8. phase' = "turns" => \A b \in Wave : call'[b] # "idle"
    BY <2>1, <2>2, <2>4
  <2> QED
    BY <1>0, <2>1, <2>5, <2>6, <2>7, <2>8, <1>s DEF WaveInv, InWave
<1>4. ASSUME NEW a \in Agents, Turn(a)
      PROVE  WaveInv'
  <2>1. /\ phase = "turns" /\ a \in Wave /\ Wave' = Wave /\ phase' = phase
        /\ call'[a] \in Active \cup {"done", "failed"}
        /\ \A b \in Agents : b # a => call'[b] = call[b]
    BY <1>0, <1>h, <1>4, TurnInWave, TurnMoves
  <2>2. Wave \subseteq Agents /\ \A b \in Wave : call[b] # "idle"
    BY <1>0, <1>h, <2>1 DEF WaveInv
  <2>3. \A b \in Agents : call[b] \in Active => b \in Wave
    BY <1>h, <2>1 DEF WaveInv, InWave
  <2> QED
    BY <1>0, <2>1, <2>2, <2>3, <1>s DEF WaveInv, InWave, Active
<1>5. CASE Record
  <2>1. PICK n \in Nat : RecordStep(n)
    BY <1>0, <1>5, RecordSteps
  <2>2. phase' = "check" /\ UNCHANGED call /\ phase = "turns" /\ \A a \in Wave : call[a] = "done"
    BY <2>1 DEF RecordStep, WaveVars, WaveDone
  <2>3. \A a \in Agents : call[a] \notin Active
    BY <1>h, <2>2 DEF WaveInv, InWave, Active
  <2> QED
    BY <1>0, <1>s, <2>2, <2>3 DEF WaveInv, InWave
<1>6. CASE OuterKind
  <2>1. phase' = phase \/ (phase = "evaluate" /\ phase' = "over")
    BY <1>6, OuterPhase
  <2>2. UNCHANGED call /\ Wave' = Wave
    BY <1>6, OuterKeeps
  <2> QED
    BY <1>0, <1>s, <1>h, <2>1, <2>2 DEF WaveInv, InWave
<1> QED
  BY <1>1, <1>2, <1>3, <1>4, <1>5, <1>6, StepKinds DEF OuterKind

LEMMA WaveInit == Init => WaveInv
BY DEF Init, WaveInv, InWave, Active

-----------------------------------------------------------------------------
(* Requests                                                                *)

\* The place of an event that is appended.
LEMMA AppendedPlace ==
  ASSUME LogOK, NEW e, events' = Append(events, e)
  PROVE  \E new \in Nat :
           /\ new = Len(events) + 1 /\ events'[new] = e
           /\ Of(e.type)' = Of(e.type) \cup {new}
           /\ Nth(new)' = Cardinality(Of(e.type)) + 1
           /\ Cardinality(Of(e.type)') = Cardinality(Of(e.type)) + 1
           /\ \A type : \A k \in Of(type) : k < new
           /\ new \in DOMAIN events'
<1>0. PICK type : type = e.type
  OBVIOUS
<1>1. Len(events) \in Nat /\ \A t : Of(t) \subseteq 1..Len(events) /\ IsFiniteSet(Of(t))
  BY OfFinite
<1>2. PICK new \in Nat : new = Len(events) + 1
  BY <1>1
<1>3. Of(type)' = Of(type) \cup {new} /\ events'[new] = e
  BY <1>0, <1>2, OfAppended
<1>4. \A t : \A k \in Of(t) : k < new
  BY <1>1, <1>2
<1>5. {j \in Of(type)' : j < new} = Of(type)
  BY <1>3, <1>4
<1>6. Nth(new)' = Cardinality({j \in Of(type)' : j < new}) + 1
  BY <1>0, <1>3 DEF Nth
<1>7. Cardinality(Of(type)') = Cardinality(Of(type)) + 1
  <2>1. new \notin Of(type) /\ IsFiniteSet(Of(type))
    BY <1>1, <1>4
  <2> QED
    BY <1>3, <2>1, FS_AddElement
<1>8. new \in DOMAIN events'
  BY <1>2, AppendFacts DEF LogOK
<1>9. Nth(new)' = Cardinality(Of(type)) + 1
  BY <1>5, <1>6
<1> QED
  BY <1>0, <1>2, <1>3, <1>4, <1>7, <1>8, <1>9

\* Of a type that no event is added of, the last ones stay.
LEMMA LastByKept ==
  ASSUME TypeInv, [Next]_vars, NEW type, Of(type)' = Of(type), NEW a, NEW k, LastBy(type, a, k)
  PROVE  LastBy(type, a, k)' /\ k \in DOMAIN events' /\ events'[k] = events[k]
<1>1. \A l \in Of(type) : l \in 1..Len(events) /\ events'[l] = events[l]
  BY PlacesKept
<1>2. DOMAIN events' = 1..Len(events') /\ Len(events) <= Len(events')
      /\ Len(events) \in Nat /\ Len(events') \in Nat
  BY PlacesKept
<1> QED
  BY <1>1, <1>2 DEF LastBy

\* The latest event of another agent is the same, that of the agent is the new one.
LEMMA LastByAppended ==
  ASSUME TypeInv, [Next]_vars, NEW e, NEW new \in Nat, NEW type,
         events'[new] = e, Of(type)' = Of(type) \cup {new}, new \in DOMAIN events',
         \A k \in Of(type) : k < new
  PROVE  /\ LastBy(type, e.agent, new)'
         /\ \A a, k : a # e.agent /\ LastBy(type, a, k) => /\ LastBy(type, a, k)'
                                                           /\ k \in DOMAIN events'
                                                           /\ events'[k] = events[k]
<1>1. /\ \A l \in Of(type) : l \in 1..Len(events) /\ events'[l] = events[l]
      /\ Of(type) \subseteq Nat
  BY PlacesKept
<1>2. DOMAIN events' = 1..Len(events') /\ Len(events) <= Len(events')
      /\ Len(events) \in Nat /\ Len(events') \in Nat
  BY PlacesKept
<1>3. LastBy(type, e.agent, new)'
  BY <1>1 DEF LastBy
<1>4. ASSUME NEW a, NEW k, a # e.agent, LastBy(type, a, k)
      PROVE  LastBy(type, a, k)' /\ k \in DOMAIN events' /\ events'[k] = events[k]
  BY <1>1, <1>2, <1>4 DEF LastBy
<1> QED
  BY <1>3, <1>4

LEMMA AskEvent ==
  ASSUME TypeInv, NEW a \in Agents, Ask(a)
  PROVE  /\ phase = "ask" /\ a \in Wave /\ Wave' = Wave
         /\ UNCHANGED <<conf, round, reply, transcript, providerCalls, totalCost, aborted, settled,
                        decisions>>
         /\ \A b : Number(b)' = Number(b)
         /\ Parallel' = Parallel
         /\ \A b \in Wave : b < a => call[b] # "idle"
         /\ \A b \in Agents : b # a => call'[b] = call[b]
         /\ call[a] = "idle"
         /\ phase' = IF \A b \in Wave : b <= a THEN "turns" ELSE "ask"
         /\ aborted => call'[a] = "failed" /\ UNCHANGED events
         /\ ~aborted => /\ call'[a] = "called"
                        /\ \E e : /\ events' = Append(events, e) /\ e.type = "model-request"
                                  /\ e.agent = a /\ e.call = CallId(a)
<1>0. CallOK /\ RunOK
  BY DEF TypeInv
<1>1. /\ phase = "ask" /\ a \in Wave /\ call[a] = "idle"
      /\ UNCHANGED <<conf, round, reply, transcript, providerCalls, totalCost, aborted, settled>>
      /\ \A b \in Wave : b < a => call[b] # "idle"
      /\ phase' = IF \A b \in Wave : b <= a THEN "turns" ELSE "ask"
  BY DEF Ask, RunVars
<1>2. PICK hint \in BOOLEAN :
        IF aborted THEN call' = [call EXCEPT ![a] = "failed"] /\ UNCHANGED Log
        ELSE /\ call' = [call EXCEPT ![a] = "called"]
             /\ Emit(Event("model-request", a, CallId(a), 0, {}, hint))
  BY DEF Ask
<1>3. Wave' = Wave /\ Parallel' = Parallel
  BY <1>1, OptionsKept DEF Wave
<1>4. \A b : Number(b)' = Number(b)
  BY <1>1, <1>3 DEF Number
<1>5. \A b \in Agents : b # a => call'[b] = call[b]
  BY <1>0, <1>2 DEF CallOK
<1>6. UNCHANGED decisions
  BY <1>2 DEF Log, Emit
<1>7. aborted => call'[a] = "failed" /\ UNCHANGED events
  BY <1>0, <1>2 DEF Log, CallOK
<1>8. ASSUME ~aborted
      PROVE  /\ call'[a] = "called"
             /\ \E e : /\ events' = Append(events, e) /\ e.type = "model-request"
                       /\ e.agent = a /\ e.call = CallId(a)
  <2>1. call'[a] = "called" /\ events' = Append(events, Event("model-request", a, CallId(a), 0, {}, hint))
    BY <1>0, <1>2, <1>8 DEF CallOK, Emit
  <2> QED
    BY <2>1 DEF Event
<1> QED
  BY <1>1, <1>3, <1>4, <1>5, <1>6, <1>7, <1>8

\* The agent that asks next asks under the number of its turn.
LEMMA AskNumber ==
  ASSUME TypeInv, ProviderInv, NEW a \in Agents, Ask(a)
  PROVE  CallId(a) = Number(a)
<1>1. phase = "ask" /\ a \in Wave /\ call[a] = "idle"
  BY AskEvent
<1>2. Len(providerCalls) = Len(transcript)
  BY <1>1 DEF ProviderInv, Healthy, InWave
<1> QED
  BY <1>2 DEF CallId, Number

\* In a wave the agents follow one another, and their turns are the next ones.
LEMMA WaveNumbers ==
  ASSUME TypeInv
  PROVE  /\ Len(transcript) \in Nat
         /\ Cardinality(Wave) \in Nat \ {0} /\ Cardinality(Wave) <= conf.agents
         /\ Parallel => Wave = 1..Cardinality(Wave)
         /\ ~Parallel => Wave = {round + 1} /\ Cardinality(Wave) = 1
         /\ Wave \subseteq Nat
         /\ \A a \in Wave : /\ Number(a) \in (Len(transcript) + 1)..(Len(transcript) + Cardinality(Wave))
                            /\ \A b \in Wave : Number(a) = Number(b) => a = b
         /\ \A n \in 1..Cardinality(Wave) : /\ Speaker(n) \in Wave
                                            /\ Number(Speaker(n)) = Len(transcript) + n
         /\ \A a \in Wave : \E n \in 1..Cardinality(Wave) : a = Speaker(n)
<1>1. RunOK /\ LogOK /\ FlagsOK
  BY DEF TypeInv
<1>2. Len(transcript) \in Nat /\ round \in Nat
  BY <1>1, SeqFacts, WaveFacts DEF LogOK, FlagsOK
<1>3. /\ Cardinality(Wave) \in Nat \ {0} /\ Cardinality(Wave) <= conf.agents
      /\ Parallel => Wave = 1..Cardinality(Wave)
      /\ ~Parallel => Wave = {round + 1} /\ Cardinality(Wave) = 1
  BY <1>1, WaveSize
<1> DEFINE size == Cardinality(Wave)
<1>4. size \in Nat \ {0}
  BY <1>3
<1>5. CASE Parallel
  <2>1. Wave = 1..size
    BY <1>3, <1>5
  <2> HIDE DEF size
  <2> QED
    BY <1>2, <1>3, <1>4, <1>5, <2>1 DEF Number, Speaker, size
<1>6. CASE ~Parallel
  <2>1. Wave = {round + 1} /\ size = 1 /\ 1..size = {1}
    BY <1>3, <1>6
  <2>2. Number(round + 1) = Len(transcript) + 1 /\ Speaker(1) = round + 1
    BY <1>6 DEF Number, Speaker
  <2> HIDE DEF size
  <2>3. Number(round + 1) \in (Len(transcript) + 1)..(Len(transcript) + size)
    BY <1>2, <2>1, <2>2
  <2>4. \A a \in Wave : /\ Number(a) \in (Len(transcript) + 1)..(Len(transcript) + size)
                       /\ \A b \in Wave : a = b
    BY <2>1, <2>3
  <2>5. \A n \in 1..size : Speaker(n) \in Wave /\ Number(Speaker(n)) = Len(transcript) + n
    BY <2>1, <2>2
  <2>6. \A a \in Wave : \E n \in 1..size : a = Speaker(n)
    BY <2>1, <2>2
  <2>7. Wave \subseteq Nat
    BY <1>2, <2>1
  <2> QED
    BY <1>2, <1>3, <1>6, <2>4, <2>5, <2>6, <2>7 DEF size
<1> QED
  BY <1>5, <1>6

LEMMA RequestStep ==
  ASSUME TypeInv, CountInv, WaveInv, ProviderInv, RequestInv, [Next]_vars
  PROVE  RequestInv'
<1> DEFINE Requests == Of("model-request")
           count    == Cardinality(Requests)
           Numbered == \A q \in Requests : events[q].call = Nth(q)
           Counted  ==
             /\ ~InWave => count = Len(transcript)
             /\ phase = "ask" /\ ~aborted => \A a \in Wave :
                  /\ call[a] # "failed"
                  /\ call[a] = "idle" /\ (\A b \in Wave : b < a => call[b] # "idle")
                       => count + 1 = Number(a)
             /\ phase = "turns" =>
                  (\E a \in Wave : call[a] = "failed") \/ count = Len(transcript) + Cardinality(Wave)
           Asked    ==
             InWave => \A a \in Wave : call[a] \in Active \cup {"done"} =>
               \E q \in DOMAIN events : LastBy("model-request", a, q) /\ events[q].call = Number(a)
<1>0. /\ conf' = conf /\ RunOK /\ LogOK /\ CallOK /\ FlagsOK
      /\ Agents' = Agents /\ Parallel' = Parallel
      /\ phase \in {"ask", "turns"} => Wave \subseteq Agents
  BY ConfKept, OptionsKept, WaveInAgents DEF TypeInv
<1>i. Numbered /\ (Healthy => Counted /\ Asked)
  BY DEF RequestInv
<1>g. Numbered' /\ (Healthy' => Counted' /\ Asked') => RequestInv'
  BY DEF RequestInv
<1>n. ASSUME Requests' = Requests
      PROVE  Numbered'
  <2>1. ASSUME NEW q \in Requests
        PROVE  events'[q] = events[q] /\ Nth(q)' = Nth(q)
    BY PlacesKept, RanksKept
  <2> QED
    BY <1>i, <1>n, <2>1
<1>h. Healthy' => Healthy
  BY UnhealthyStays
<1>1. CASE Start \/ Final
  <2>1. Requests' = Requests /\ transcript' = transcript
    <3>1. CASE Start
      <4>1. Requests' = {} /\ Requests = {}
        BY <1>0, <3>1, StartSteps DEF Start, LogOK, Of
      <4> QED
        BY <3>1, <4>1 DEF Start, RunVars
    <3>2. CASE Final
      BY <1>0, <3>2, SmallSteps, OfKept DEF Final, RunVars
    <3> QED
      BY <1>1, <3>1, <3>2
  <2>2. phase' \notin {"ask", "turns"} /\ phase \notin {"ask", "turns", "over"}
    BY <1>1 DEF Start, Final
  <2>3. Counted' /\ Asked'
    BY <1>i, <2>1, <2>2 DEF InWave, Healthy
  <2> HIDE DEF Numbered, Counted, Asked
  <2> QED
    BY <1>n, <1>g, <2>1, <2>3
<1>2. CASE Check
  <2>1. Requests' = Requests
    BY <1>0, <1>2, SmallSteps, OfKept
  <2>2. /\ transcript' = transcript /\ phase = "check" /\ phase' \in {"output", "ask"}
        /\ Wave' = Wave /\ \A a \in Agents : call'[a] = "idle"
    BY <1>0, <1>2, OptionsKept DEF Check, RunVars, Wave
  <2>3. count = Len(transcript) /\ count' = count
    BY <1>i, <2>1, <2>2 DEF InWave, Healthy
  <2>4. ASSUME phase' = "ask"
        PROVE  Wave \subseteq Agents
    <3>1. round < Waves
      BY <1>0, <1>2, <2>4, WaveFacts DEF Check, FlagsOK
    <3> QED
      BY <1>0, <3>1, WaveFacts, RunFacts DEF Wave, Parallel, FlagsOK
  <2>5. ASSUME phase' = "ask", NEW a \in Wave, \A b \in Wave : b < a => call'[b] # "idle"
        PROVE  Number(a)' = count + 1
    <3>1. \A b \in Wave : ~(b < a)
      BY <2>2, <2>4, <2>5
    <3>2. ASSUME Parallel
          PROVE  a = 1
      <4>1. PICK size \in Nat \ {0} : Wave = 1..size
        BY <3>2, WaveNumbers
      <4> QED
        BY <2>5, <3>1, <4>1
    <3> QED
      BY <1>0, <2>2, <2>3, <3>2 DEF Number
  <2>6. Counted'
    BY <2>2, <2>3, <2>4, <2>5 DEF InWave
  <2>7. Asked'
    BY <2>2, <2>4 DEF InWave, Active
  <2> HIDE DEF Numbered, Counted, Asked
  <2> QED
    BY <1>n, <1>g, <2>1, <2>6, <2>7
<1>3. ASSUME NEW a \in Agents, Ask(a)
      PROVE  RequestInv'
  <2>1. /\ phase = "ask" /\ a \in Wave /\ Wave' = Wave
        /\ UNCHANGED <<round, transcript, aborted, settled>>
        /\ \A b : Number(b)' = Number(b)
        /\ \A b \in Wave : b < a => call[b] # "idle"
        /\ \A b \in Agents : b # a => call'[b] = call[b]
        /\ call[a] = "idle"
        /\ phase' = IF \A b \in Wave : b <= a THEN "turns" ELSE "ask"
    BY <1>3, AskEvent
  <2>2. Healthy /\ InWave /\ InWave' /\ Wave \subseteq Nat
    BY <2>1, WaveNumbers DEF Healthy, InWave
  <2>3. CASE aborted
    <3>1. Requests' = Requests /\ call'[a] = "failed" /\ events' = events
      BY <1>3, <2>3, AskEvent, OfUnchanged
    <3>2. Counted'
      BY <2>1, <2>2, <2>3, <3>1
    <3>3. Asked'
      <4> SUFFICES ASSUME NEW b \in Wave, call'[b] \in Active \cup {"done"}
                   PROVE  \E q \in DOMAIN events' :
                            LastBy("model-request", b, q)' /\ events'[q].call = Number(b)'
        BY <2>1
      <4>1. b # a /\ call'[b] = call[b]
        BY <1>0, <2>1, <3>1 DEF Active
      <4>2. PICK q \in DOMAIN events : LastBy("model-request", b, q) /\ events[q].call = Number(b)
        BY <1>i, <2>2, <4>1
      <4>3. LastBy("model-request", b, q)' /\ q \in DOMAIN events' /\ events'[q] = events[q]
        BY <3>1, <4>2, LastByKept
      <4> QED
        BY <2>1, <4>2, <4>3
    <3> HIDE DEF Numbered, Counted, Asked
    <3> QED
      BY <1>n, <1>g, <3>1, <3>2, <3>3
  <2>4. CASE ~aborted
    <3>1. call'[a] = "called"
      BY <1>3, <2>4, AskEvent
    <3>2. PICK e : /\ events' = Append(events, e) /\ e.type = "model-request"
                   /\ e.agent = a /\ e.call = CallId(a)
      BY <1>3, <2>4, AskEvent
    <3>3. PICK new \in Nat :
            /\ events'[new] = e
            /\ Requests' = Requests \cup {new}
            /\ Nth(new)' = count + 1 /\ count' = count + 1
            /\ \A k \in Requests : k < new
            /\ new \in DOMAIN events'
      BY <1>0, <3>2, AppendedPlace
    <3>4. e.call = Number(a) /\ count + 1 = Number(a)
      <4>1. e.call = Number(a)
        BY <1>3, <3>2, AskNumber
      <4>2. Counted
        BY <1>i, <2>2
      <4> QED
        BY <2>1, <2>4, <4>1, <4>2
    <3>5. Numbered'
      <4>1. ASSUME NEW q \in Requests
            PROVE  events'[q].call = Nth(q)'
        <5>1. events'[q] = events[q] /\ Nth(q)' = Nth(q)
          BY PlacesKept, RanksKept
        <5> QED
          BY <1>i, <5>1
      <4> HIDE DEF Requests, count
      <4> QED
        BY <3>2, <3>3, <3>4, <4>1
    <3>6. Counted'
      <4> HIDE DEF Requests
      <4>1. \A b \in Wave : call'[b] # "failed"
        BY <1>0, <1>i, <2>1, <2>2, <2>4, <3>1
      <4>2. ASSUME phase' = "ask", NEW b \in Wave, call'[b] = "idle",
                   \A c \in Wave : c < b => call'[c] # "idle"
            PROVE  count' + 1 = Number(b)'
        <5>1. b # a /\ call[b] = "idle"
          BY <1>0, <2>1, <3>1, <4>2
        <5>2. a < b
          BY <2>1, <2>2, <5>1
        <5>3. Parallel /\ Wave = 1..Cardinality(Wave) /\ Cardinality(Wave) \in Nat
          BY <2>1, <5>1, WaveNumbers
        <5>4. b = a + 1
          <6> SUFFICES ASSUME a + 1 < b
                       PROVE  FALSE
            BY <2>1, <2>2, <5>2
          <6>1. a + 1 \in Wave /\ a + 1 # a
            BY <2>1, <2>2, <5>3
          <6>2. call'[a + 1] # "idle"
            BY <4>2, <6>1
          <6>3. call[a + 1] # "idle"
            BY <1>0, <2>1, <6>1, <6>2
          <6>4. a < a + 1
            BY <2>1, <2>2
          <6> QED
            BY <2>1, <2>2, <6>1, <6>3, <6>4 DEF WaveInv
        <5>5. Number(b) = Number(a) + 1
          BY <2>1, <2>2, <5>3, <5>4, WaveNumbers DEF Number
        <5> QED
          BY <2>1, <3>3, <3>4, <5>5
      <4>3. ASSUME phase' = "turns"
            PROVE  count' = Len(transcript) + Cardinality(Wave)
        <5>1. \A b \in Wave : b <= a
          BY <2>1, <4>3
        <5>2. Number(a) = Len(transcript) + Cardinality(Wave)
          <6>1. CASE Parallel
            <7> DEFINE size == Cardinality(Wave)
            <7>1. Wave = 1..size /\ size \in Nat \ {0}
              BY <6>1, WaveNumbers
            <7> HIDE DEF size
            <7>2. a = size
              BY <2>1, <5>1, <7>1
            <7> QED
              BY <6>1, <7>2 DEF Number, size
          <6>2. CASE ~Parallel
            BY <6>2, WaveNumbers DEF Number
          <6> QED
            BY <6>1, <6>2
        <5> QED
          BY <3>3, <3>4, <5>2
      <4> HIDE DEF count
      <4> QED
        BY <2>1, <2>2, <4>1, <4>2, <4>3
    <3>7. Asked'
      <4> SUFFICES ASSUME NEW b \in Wave, call'[b] \in Active \cup {"done"}
                   PROVE  \E q \in DOMAIN events' :
                            LastBy("model-request", b, q)' /\ events'[q].call = Number(b)'
        BY <2>1
      <4>0. /\ LastBy("model-request", a, new)'
            /\ \A c, k : c # a /\ LastBy("model-request", c, k) =>
                 LastBy("model-request", c, k)' /\ k \in DOMAIN events' /\ events'[k] = events[k]
        BY <3>2, <3>3, LastByAppended
      <4>1. CASE b = a
        BY <2>1, <3>2, <3>3, <3>4, <4>0, <4>1
      <4>2. CASE b # a
        <5>1. call'[b] = call[b]
          BY <1>0, <2>1, <4>2
        <5>2. PICK q \in DOMAIN events : LastBy("model-request", b, q) /\ events[q].call = Number(b)
          BY <1>i, <2>2, <5>1
        <5> QED
          BY <2>1, <4>0, <4>2, <5>2
      <4> QED
        BY <4>1, <4>2
    <3> HIDE DEF Numbered, Counted, Asked
    <3> QED
      BY <1>g, <3>5, <3>6, <3>7
  <2> QED
    BY <2>3, <2>4
<1>4. ASSUME NEW a \in Agents, Turn(a)
      PROVE  RequestInv'
  <2>1. Requests' = Requests
    BY <1>0, <1>4, TurnSteps, SmallSteps, OfKept DEF TurnTypes
  <2>2. ASSUME Healthy'
        PROVE  Counted' /\ Asked'
    <3>1. /\ phase = "turns" /\ phase' = phase /\ a \in Wave /\ transcript' = transcript
          /\ Wave' = Wave /\ Healthy /\ InWave
          /\ \A b \in Agents : Number(b)' = Number(b)
      BY <1>0, <1>4, <1>h, <2>2, TurnInWave DEF InWave
    <3>2. /\ call[a] \in Active /\ \A b \in Agents : b # a => call'[b] = call[b]
      BY <1>0, <1>4, TurnMoves
    <3>3. Counted'
      <4>1. \A b \in Wave : call[b] = "failed" => call'[b] = "failed"
        BY <1>0, <3>1, <3>2 DEF Active
      <4>2. count' = count
        BY <2>1
      <4>3. (\E b \in Wave : call[b] = "failed") \/ count = Len(transcript) + Cardinality(Wave)
        BY <1>i, <3>1
      <4> HIDE DEF count
      <4> QED
        BY <3>1, <4>1, <4>2, <4>3 DEF InWave
    <3>4. Asked'
      <4> SUFFICES ASSUME NEW b \in Wave, call'[b] \in Active \cup {"done"}
                   PROVE  \E q \in DOMAIN events' :
                            LastBy("model-request", b, q)' /\ events'[q].call = Number(b)'
        BY <3>1
      <4>1. call[b] \in Active \cup {"done"} /\ b \in Agents
        BY <1>0, <3>1, <3>2
      <4>2. PICK q \in DOMAIN events : LastBy("model-request", b, q) /\ events[q].call = Number(b)
        BY <1>i, <3>1, <4>1
      <4>3. LastBy("model-request", b, q)' /\ q \in DOMAIN events' /\ events'[q] = events[q]
        BY <2>1, <4>2, LastByKept
      <4> QED
        BY <3>1, <4>1, <4>2, <4>3
    <3> QED
      BY <3>3, <3>4
  <2> HIDE DEF Numbered, Counted, Asked
  <2> QED
    BY <1>n, <1>g, <2>1, <2>2
<1>5. CASE Record
  <2>1. PICK n \in Nat : RecordStep(n)
    BY <1>0, <1>5, RecordSteps
  <2>2. Requests' = Requests
    BY <1>0, <2>1, RecordOf
  <2>3. /\ phase' = "check" /\ phase = "turns" /\ \A a \in Wave : call[a] = "done"
        /\ n = Cardinality(Wave) /\ Len(transcript') = Len(transcript) + n
    BY <2>1 DEF RecordStep, WaveDone
  <2>4. Counted' /\ Asked'
    BY <1>i, <2>2, <2>3 DEF InWave, Healthy
  <2> HIDE DEF Numbered, Counted, Asked
  <2> QED
    BY <1>n, <1>g, <2>2, <2>4
<1>6. CASE OuterKind
  <2>1. Requests' = Requests
    BY <1>6, OuterKeeps
  <2>2. ASSUME Healthy'
        PROVE  Counted' /\ Asked'
    <3>1. Healthy /\ (phase' = phase \/ (phase = "evaluate" /\ phase' = "over"))
      BY <1>6, <2>2, OuterPhase
    <3>2. /\ UNCHANGED <<call, transcript, events>> /\ Wave' = Wave /\ (aborted => aborted')
          /\ \A b : Number(b)' = Number(b)
      BY <1>6, OuterKeeps
    <3>3. Counted /\ Asked
      BY <1>i, <3>1
    <3>4. count' = count
      BY <2>1
    <3>5. Counted'
      <4> HIDE DEF count
      <4> QED
        BY <3>1, <3>2, <3>3, <3>4 DEF InWave
    <3>6. Asked'
      <4>1. InWave' = InWave
        BY <3>1 DEF InWave
      <4>2. \A b, q : LastBy("model-request", b, q)' = LastBy("model-request", b, q)
        BY <3>2, <2>1 DEF LastBy
      <4> QED
        BY <3>2, <3>3, <4>1, <4>2
    <3> QED
      BY <3>5, <3>6
  <2> HIDE DEF Numbered, Counted, Asked
  <2> QED
    BY <1>n, <1>g, <2>1, <2>2
<1> QED
  BY <1>1, <1>2, <1>3, <1>4, <1>5, <1>6, StepKinds DEF OuterKind

LEMMA RequestInit == Init => RequestInv
<1> SUFFICES ASSUME Init
             PROVE  RequestInv
  OBVIOUS
<1>1. Of("model-request") = {}
  BY DEF Init, Of
<1> QED
  BY <1>1, FS_EmptySet, EmptyIsSeq DEF Init, RequestInv, InWave

-----------------------------------------------------------------------------
(* Responses                                                               *)

\* The latest call of an agent is that of its last event.
LEMMA LatestIsLast ==
  ASSUME TypeInv, NEW type, NEW a, NEW k, LastBy(type, a, k)
  PROVE  LatestCall(type, a) = events[k].call
<1> DEFINE such == {l \in DOMAIN events : events[l].type = type /\ events[l].agent = a}
<1>1. k \in such /\ \A l \in such : l <= k
  BY DEF LastBy, Of
<1>2. such \subseteq Nat
  BY SeqFacts DEF TypeInv, LogOK
<1>3. LatestCall(type, a) = events[CHOOSE l \in such : \A m \in such : m <= l].call
  BY DEF LatestCall
<1> HIDE DEF such
<1>4. (CHOOSE l \in such : \A m \in such : m <= l) = k
  <2>1. PICK last \in such : /\ last = (CHOOSE l \in such : \A m \in such : m <= l)
                             /\ \A m \in such : m <= last
    BY <1>1
  <2>2. last <= k /\ k <= last
    BY <1>1, <2>1
  <2> QED
    BY <1>1, <1>2, <2>1, <2>2
<1> QED
  BY <1>3, <1>4

\* What the check before a wave leaves.
LEMMA CheckFacts ==
  ASSUME TypeInv, Check
  PROVE  /\ phase = "check" /\ phase' \in {"output", "ask"}
         /\ UNCHANGED <<conf, round, reply, transcript, providerCalls, totalCost, aborted, settled>>
         /\ Wave' = Wave /\ Parallel' = Parallel /\ \A b : Number(b)' = Number(b)
         /\ \A b \in Agents : call'[b] = "idle"
         /\ phase' = "ask" => Wave \subseteq Agents
         /\ \A type : type # "budget-stop" => Of(type)' = Of(type)
<1>0. RunOK /\ LogOK /\ FlagsOK
  BY DEF TypeInv
<1>1. /\ phase = "check" /\ phase' \in {"output", "ask"}
      /\ UNCHANGED <<conf, round, reply, transcript, providerCalls, totalCost, aborted, settled>>
      /\ \A b \in Agents : call'[b] = "idle"
  BY DEF Check, RunVars
<1>2. Wave' = Wave /\ Parallel' = Parallel
  BY <1>1, OptionsKept DEF Wave
<1>3. \A b : Number(b)' = Number(b)
  BY <1>1, <1>2 DEF Number
<1>4. ASSUME phase' = "ask"
      PROVE  Wave \subseteq Agents
  <2>1. round < Waves
    BY <1>0, <1>4, WaveFacts DEF Check, FlagsOK
  <2> QED
    BY <1>0, <2>1, WaveFacts, RunFacts DEF Wave, Parallel, FlagsOK
<1>5. \A type : type # "budget-stop" => Of(type)' = Of(type)
  BY <1>0, SmallSteps, OfKept
<1> QED
  BY <1>1, <1>2, <1>3, <1>4, <1>5

\* Start and the final event are no part of a wave.
LEMMA EndFacts ==
  ASSUME TypeInv, Start \/ Final
  PROVE  /\ UNCHANGED <<conf, round, call, reply, transcript, providerCalls, totalCost, aborted,
                        settled>>
         /\ phase \in {"setup", "output"} /\ phase' \in {"check", "evaluate"}
         /\ \A type : type \notin {"role-assignment", "final"} => Of(type)' = Of(type)
         /\ Start => events = <<>> /\ transcript = <<>>
<1>0. RunOK /\ LogOK
  BY DEF TypeInv
<1>1. CASE Start
  <2>1. \A type : type # "role-assignment" => Of(type)' = {} /\ Of(type) = {}
    BY <1>0, <1>1, StartSteps DEF Start, LogOK, Of
  <2> QED
    BY <1>0, <1>1, <2>1 DEF Start, WaveVars, RunVars, LogOK
<1>2. CASE Final
  <2>1. \A type : type # "final" => Of(type)' = Of(type)
    BY <1>0, <1>2, SmallSteps, OfKept
  <2> QED
    BY <1>2, <2>1 DEF Final, WaveVars, RunVars, Start
<1> QED
  BY <1>1, <1>2

\* What a step of a turn other than the answer may add.
LEMMA PlainTurn ==
  ASSUME NEW a \in Agents, Turn(a), ~Answer(a)
  PROVE  Adds({"model-output-chunk", "tool-call", "tool-result"}, Agents)
<1> USE DEF Adds, Emit, EmitAndRecord, Log, Event, Plain
<1>1. CASE Chunk(a)
  BY <1>1 DEF Chunk
<1>2. CASE ProviderFails(a)
  BY <1>2 DEF ProviderFails
<1>3. CASE UseTool(a)
  BY <1>3 DEF UseTool
<1>4. CASE ToolEnds(a) \/ ToolIsAborted(a) \/ ToolTimesOut(a)
  BY <1>4 DEF ToolEnds, ToolIsAborted, ToolTimesOut, ToolEndsWith
<1>5. CASE ToolReturns(a)
  BY <1>5 DEF ToolReturns
<1>6. CASE TurnEnds(a)
  BY <1>6 DEF TurnEnds
<1> QED
  BY <1>1, <1>2, <1>3, <1>4, <1>5, <1>6 DEF Turn

\* A step of a turn other than the answer adds no response, and none adds a request or
\* a turn.
LEMMA TurnOf ==
  ASSUME TypeInv, NEW a \in Agents, Turn(a)
  PROVE  /\ \A type : type \notin TurnTypes => Of(type)' = Of(type)
         /\ ~Answer(a) => Of("model-response")' = Of("model-response")
<1>0. LogOK
  BY DEF TypeInv
<1>1. \A type : type \notin TurnTypes => Of(type)' = Of(type)
  BY <1>0, TurnSteps, SmallSteps, OfKept
<1>2. ASSUME ~Answer(a)
      PROVE  Adds({"model-output-chunk", "tool-call", "tool-result"}, Agents)
  BY <1>2, PlainTurn
<1>3. ASSUME ~Answer(a)
      PROVE  Of("model-response")' = Of("model-response")
  BY <1>0, <1>2, <1>3, OfKept
<1> QED
  BY <1>1, <1>3

\* An answer that comes after the abort, and one that counts.
LEMMA AnswerFacts ==
  ASSUME TypeInv, NEW a \in Agents, Answer(a)
  PROVE  /\ call[a] = "called" /\ UNCHANGED decisions
         /\ aborted => call'[a] = "failed" /\ UNCHANGED <<events, reply, providerCalls, totalCost>>
         /\ ~aborted => \E response \in conf.answers :
              /\ call'[a] \in {"failed", "answered"}
              /\ reply'[a] = response /\ \A b \in Agents : b # a => reply'[b] = reply[b]
              /\ \E e : /\ events' = Append(events, e) /\ e.type = "model-response"
                        /\ e.agent = a /\ e.call = AskedAs(a)
                        /\ e.own = response.cost /\ e.text = response.text
              /\ Parallel => UNCHANGED <<providerCalls, totalCost>>
              /\ ~Parallel => /\ providerCalls' = Append(providerCalls, [call |-> AskedAs(a), agent |-> a])
                              /\ totalCost' = totalCost + response.cost
<1>0. CallOK
  BY DEF TypeInv
<1>1. call[a] = "called"
  BY DEF Answer
<1>2. ASSUME aborted
      PROVE  /\ call'[a] = "failed"
             /\ UNCHANGED <<events, decisions, reply, providerCalls, totalCost>>
  BY <1>0, <1>2 DEF Answer, AnswerCounts, Log, CallOK
<1>3. ASSUME ~aborted
      PROVE  /\ UNCHANGED decisions
             /\ \E response \in conf.answers :
              /\ call'[a] \in {"failed", "answered"}
              /\ reply'[a] = response /\ \A b \in Agents : b # a => reply'[b] = reply[b]
              /\ \E e : /\ events' = Append(events, e) /\ e.type = "model-response"
                        /\ e.agent = a /\ e.call = AskedAs(a)
                        /\ e.own = response.cost /\ e.text = response.text
              /\ Parallel => UNCHANGED <<providerCalls, totalCost>>
              /\ ~Parallel => /\ providerCalls' = Append(providerCalls, [call |-> AskedAs(a), agent |-> a])
                              /\ totalCost' = totalCost + response.cost
  <2>1. PICK response \in conf.answers :
          /\ call' = [call EXCEPT ![a] = IF DecisionOf(response).kind = "invalid"
                                         THEN "failed" ELSE "answered"]
          /\ reply' = [reply EXCEPT ![a] = response]
          /\ Emit(Event("model-response", a, AskedAs(a), response.cost, response.text, FALSE))
          /\ IF Parallel THEN UNCHANGED <<providerCalls, totalCost>>
             ELSE /\ providerCalls' = Append(providerCalls, RecordedCall(a))
                  /\ totalCost' = totalCost + response.cost
    BY <1>3 DEF Answer, AnswerCounts
  <2> DEFINE e == Event("model-response", a, AskedAs(a), response.cost, response.text, FALSE)
  <2>2. /\ e.type = "model-response" /\ e.agent = a /\ e.call = AskedAs(a)
        /\ e.own = response.cost /\ e.text = response.text
    BY DEF Event
  <2>3. events' = Append(events, e) /\ UNCHANGED decisions
    BY <2>1 DEF Emit
  <2> HIDE DEF e
  <2>4. call'[a] \in {"failed", "answered"}
    BY <1>0, <2>1 DEF CallOK
  <2>5. reply'[a] = response /\ \A b \in Agents : b # a => reply'[b] = reply[b]
    BY <1>0, <2>1 DEF CallOK
  <2>6. RecordedCall(a) = [call |-> AskedAs(a), agent |-> a]
    BY DEF RecordedCall
  <2> QED
    BY <2>1, <2>2, <2>3, <2>4, <2>5, <2>6
<1> QED
  BY <1>1, <1>2, <1>3

\* In a wave an answer belongs to the request that its agent has made.
LEMMA AskedNumber ==
  ASSUME TypeInv, RequestInv, Healthy, InWave, NEW a \in Wave, call[a] \in Active \cup {"done"}
  PROVE  /\ AskedAs(a) = Number(a)
         /\ \E q \in Of("model-request") : events[q].call = Number(a) /\ events[q].agent = a
<1>1. PICK q \in DOMAIN events : LastBy("model-request", a, q) /\ events[q].call = Number(a)
  BY DEF RequestInv
<1>2. AskedAs(a) = Number(a)
  BY <1>1, LatestIsLast DEF AskedAs
<1> QED
  BY <1>1, <1>2 DEF LastBy

\* Steps that leave the responses as they are.
LEMMA ResponsesCarried ==
  ASSUME TypeInv, ResponseInv, [Next]_vars, Healthy' => Healthy,
         Of("model-response")' = Of("model-response"),
         Healthy' =>
           \/ ~InWave /\ ~InWave' /\ transcript' = transcript
           \/ /\ InWave /\ InWave' /\ Wave' = Wave
              /\ UNCHANGED <<transcript, reply>>
              /\ \A b \in Wave : /\ Number(b)' = Number(b)
                                 /\ call[b] \notin {"idle", "called"} => call'[b] \notin {"idle", "called"}
                                 /\ call'[b] \in Answered => call[b] \in Answered
           \/ /\ ~InWave /\ InWave' /\ transcript' = transcript
              /\ \A b \in Wave' : call'[b] \notin Answered
  PROVE  ResponseInv'
<1> SUFFICES ASSUME Healthy'
             PROVE  ResponseInv'
  BY DEF ResponseInv
<1> DEFINE Responses == Of("model-response")
<1>1. /\ \A r \in Responses : events'[r] = events[r]
      /\ Len(events) \in Nat /\ Len(events') \in Nat /\ Len(events) <= Len(events')
  BY PlacesKept
<1>2. \A r, s \in Responses : events'[r].call = events'[s].call => r = s
  BY <1>1 DEF ResponseInv
<1>3. CASE ~InWave /\ ~InWave' /\ transcript' = transcript
  BY <1>1, <1>2, <1>3 DEF ResponseInv
<1>4. CASE /\ InWave /\ InWave' /\ Wave' = Wave
           /\ UNCHANGED <<transcript, reply>>
           /\ \A b \in Wave : /\ Number(b)' = Number(b)
                              /\ call[b] \notin {"idle", "called"} => call'[b] \notin {"idle", "called"}
                              /\ call'[b] \in Answered => call[b] \in Answered
  <2>1. ASSUME NEW r \in Responses
        PROVE  \/ events'[r].call \in 1..Len(transcript')
               \/ \E b \in Wave' : events'[r].call = Number(b)' /\ call'[b] \notin {"idle", "called"}
    <3>1. \/ events[r].call \in 1..Len(transcript)
          \/ \E b \in Wave : events[r].call = Number(b) /\ call[b] \notin {"idle", "called"}
      BY DEF ResponseInv
    <3> QED
      BY <1>1, <1>4, <3>1
  <2>2. ASSUME NEW b \in Wave, call'[b] \in Answered
        PROVE  \E q, r \in DOMAIN events' : /\ Told(q, r, Number(b), b, Len(events) + 1)'
                                            /\ events'[r].text = reply'[b].text
                                            /\ events'[r].own = reply'[b].cost
    <3>1. PICK q, r \in DOMAIN events : /\ Told(q, r, Number(b), b, Len(events) + 1)
                                        /\ events[r].text = reply[b].text
                                        /\ events[r].own = reply[b].cost
      BY <1>4, <2>2 DEF ResponseInv
    <3>2. PICK n : n = Number(b) /\ n = Number(b)'
      BY <1>4
    <3>3. PICK k \in Int : k = Len(events) + 1
      BY <1>1
    <3>4. PICK l \in Int : l = Len(events') + 1
      BY <1>1
    <3>5. Told(q, r, n, b, l)' /\ events'[r] = events[r] /\ {q, r} \subseteq 1..Len(events)
      <4>1. Told(q, r, n, b, k) /\ k <= l
        BY <1>1, <3>1, <3>2, <3>3, <3>4
      <4> QED
        BY <4>1, ToldKept
    <3>6. q \in DOMAIN events' /\ r \in DOMAIN events'
      BY <3>5, PlacesKept
    <3>7. Told(q, r, Number(b), b, Len(events) + 1)'
      BY <3>2, <3>4, <3>5 DEF Told
    <3> QED
      BY <1>4, <3>1, <3>5, <3>6, <3>7
  <2> QED
    BY <1>2, <1>4, <2>1, <2>2 DEF ResponseInv
<1>5. CASE /\ ~InWave /\ InWave' /\ transcript' = transcript
           /\ \A b \in Wave' : call'[b] \notin Answered
  BY <1>1, <1>2, <1>5 DEF ResponseInv
<1> QED
  BY <1>3, <1>4, <1>5

LEMMA AnswerResponse ==
  ASSUME TypeInv, WaveInv, RequestInv, ResponseInv, [Next]_vars, Healthy, ~aborted,
         NEW a \in Agents, Answer(a), Turn(a)
  PROVE  ResponseInv'
<1> DEFINE Responses == Of("model-response")
<1>0. /\ LogOK /\ CallOK /\ RunOK /\ FlagsOK
      /\ phase = "turns" /\ a \in Wave /\ Wave' = Wave /\ UNCHANGED <<phase, transcript>>
      /\ \A b \in Agents : Number(b)' = Number(b)
      /\ Wave \subseteq Agents /\ InWave /\ InWave'
  BY TurnInWave, WaveInAgents DEF TypeInv, InWave
<1>r. PICK response \in conf.answers :
        /\ call'[a] \in {"failed", "answered"}
        /\ reply'[a] = response /\ \A b \in Agents : b # a => reply'[b] = reply[b]
        /\ \E e : /\ events' = Append(events, e) /\ e.type = "model-response"
                  /\ e.agent = a /\ e.call = AskedAs(a)
                  /\ e.own = response.cost /\ e.text = response.text
        /\ Parallel => UNCHANGED <<providerCalls, totalCost>>
        /\ ~Parallel => /\ providerCalls' = Append(providerCalls, [call |-> AskedAs(a), agent |-> a])
                        /\ totalCost' = totalCost + response.cost
  BY AnswerFacts
<1>m. call[a] = "called" /\ \A b \in Agents : b # a => call'[b] = call[b]
  BY <1>0, AnswerFacts, TurnMoves
<1>1. /\ call[a] = "called" /\ call'[a] \in {"failed", "answered"}
      /\ \A b \in Agents : b # a => call'[b] = call[b] /\ reply'[b] = reply[b]
  BY <1>r, <1>m
<1>2. PICK e : /\ events' = Append(events, e) /\ e.type = "model-response"
               /\ e.agent = a /\ e.call = AskedAs(a)
               /\ e.own = reply'[a].cost /\ e.text = reply'[a].text
  BY <1>r
<1>3. PICK new \in Nat :
        /\ new = Len(events) + 1 /\ events'[new] = e
        /\ Responses' = Responses \cup {new}
        /\ \A type : \A k \in Of(type) : k < new
        /\ new \in DOMAIN events'
  BY <1>0, <1>2, AppendedPlace
<1>4. /\ \A r \in Responses : events'[r] = events[r]
      /\ Len(events) \in Nat /\ Len(events') \in Nat /\ Len(events') = new
  BY <1>0, <1>2, <1>3, PlacesKept, AppendFacts DEF LogOK
<1>5. e.call = Number(a)
  BY <1>0, <1>1, <1>2, AskedNumber DEF Active
<1>6. ASSUME NEW r \in Responses
      PROVE  events[r].call # Number(a)
  <2>1. \/ events[r].call \in 1..Len(transcript)
        \/ \E b \in Wave : events[r].call = Number(b) /\ call[b] \notin {"idle", "called"}
    BY DEF ResponseInv
  <2>2. Number(a) > Len(transcript) /\ Len(transcript) \in Nat
    BY <1>0, WaveNumbers
  <2>3. ASSUME NEW b \in Wave, events[r].call = Number(b), call[b] \notin {"idle", "called"}
        PROVE  events[r].call # Number(a)
    BY <1>0, <1>1, <2>3, WaveNumbers
  <2> QED
    BY <2>1, <2>2, <2>3
<1>7. \A r, s \in Responses' : events'[r].call = events'[s].call => r = s
  <2>1. \A r, s \in Responses : events[r].call = events[s].call => r = s
    BY DEF ResponseInv
  <2>2. events'[new].call = Number(a)
    BY <1>3, <1>5
  <2>3. \A r \in Responses : events'[r].call # Number(a)
    BY <1>4, <1>6
  <2>4. \A r, s \in Responses : events'[r].call = events'[s].call => r = s
    BY <1>4, <2>1
  <2> HIDE DEF Responses
  <2> QED
    BY <1>3, <2>2, <2>3, <2>4
<1>8. ASSUME NEW r \in Responses'
      PROVE  \/ events'[r].call \in 1..Len(transcript')
             \/ \E b \in Wave' : events'[r].call = Number(b)' /\ call'[b] \notin {"idle", "called"}
  <2>1. CASE r = new
    BY <1>0, <1>1, <1>2, <1>3, <1>5, <2>1
  <2>2. CASE r \in Responses
    <3>1. \/ events[r].call \in 1..Len(transcript)
          \/ \E b \in Wave : events[r].call = Number(b) /\ call[b] \notin {"idle", "called"}
      BY <2>2 DEF ResponseInv
    <3> QED
      BY <1>0, <1>1, <1>4, <2>2, <3>1
  <2> QED
    BY <1>3, <2>1, <2>2
<1>9. ASSUME NEW b \in Wave, call'[b] \in Answered
      PROVE  \E q, r \in DOMAIN events' : /\ Told(q, r, Number(b), b, Len(events) + 1)'
                                          /\ events'[r].text = reply'[b].text
                                          /\ events'[r].own = reply'[b].cost
  <2>1. CASE b = a
    <3>1. PICK q \in Of("model-request") : events[q].call = Number(a) /\ events[q].agent = a
      BY <1>0, <1>1, AskedNumber DEF Active
    <3>2. q \in DOMAIN events' /\ events'[q] = events[q] /\ q \in Of("model-request")' /\ q < new
          /\ q \in Nat
      BY <1>3, <3>1, PlacesKept
    <3>3. Told(q, new, Number(a), a, Len(events) + 1)'
      BY <1>0, <1>2, <1>3, <1>4, <1>5, <3>1, <3>2 DEF Told
    <3> QED
      BY <1>2, <1>3, <2>1, <3>2, <3>3
  <2>2. CASE b # a
    <3>1. call[b] \in Answered /\ reply'[b] = reply[b]
      BY <1>0, <1>1, <1>9, <2>2
    <3>2. PICK q, r \in DOMAIN events : /\ Told(q, r, Number(b), b, Len(events) + 1)
                                        /\ events[r].text = reply[b].text
                                        /\ events[r].own = reply[b].cost
      BY <1>0, <3>1 DEF ResponseInv
    <3>3. PICK n : n = Number(b) /\ n = Number(b)'
      BY <1>0
    <3>4. Told(q, r, n, b, new + 1)' /\ events'[r] = events[r] /\ {q, r} \subseteq 1..Len(events)
      <4>1. Told(q, r, n, b, new) /\ new \in Int /\ new + 1 \in Int /\ new <= new + 1
        BY <1>3, <3>2, <3>3
      <4> QED
        BY <4>1, ToldKept
    <3>5. q \in DOMAIN events' /\ r \in DOMAIN events'
      BY <3>4, PlacesKept
    <3>6. Told(q, r, Number(b), b, Len(events) + 1)'
      BY <1>4, <3>3, <3>4 DEF Told
    <3> QED
      BY <3>1, <3>2, <3>4, <3>5, <3>6
  <2> QED
    BY <2>1, <2>2
<1> QED
  BY <1>0, <1>7, <1>8, <1>9 DEF ResponseInv

LEMMA ResponseStep ==
  ASSUME TypeInv, CountInv, WaveInv, RequestInv, ResponseInv, [Next]_vars
  PROVE  ResponseInv'
<1>0. /\ conf' = conf /\ RunOK /\ LogOK /\ CallOK /\ FlagsOK
      /\ Agents' = Agents /\ Parallel' = Parallel
      /\ phase \in {"ask", "turns"} => Wave \subseteq Agents
  BY ConfKept, OptionsKept, WaveInAgents DEF TypeInv
<1>h. Healthy' => Healthy
  BY UnhealthyStays
<1>1. CASE Start \/ Final
  BY <1>1, <1>h, EndFacts, ResponsesCarried DEF InWave
<1>2. CASE Check
  <2>1. /\ ~InWave /\ transcript' = transcript
        /\ Of("model-response")' = Of("model-response")
        /\ InWave' => \A b \in Wave' : call'[b] \notin Answered
    BY <1>2, CheckFacts DEF InWave, Answered
  <2> QED
    BY <1>h, <2>1, ResponsesCarried
<1>3. ASSUME NEW a \in Agents, Ask(a)
      PROVE  ResponseInv'
  <2>1. Of("model-response")' = Of("model-response")
    <3>1. Adds({"model-request"}, {a})
      BY <1>3, SmallSteps
    <3> QED
      BY <1>0, <3>1, OfKept
  <2>2. InWave /\ InWave'
    BY <1>3, AskEvent DEF InWave
  <2>3. /\ UNCHANGED <<transcript, reply>> /\ Wave' = Wave /\ Wave \subseteq Agents
        /\ \A b \in Wave : Number(b)' = Number(b)
        /\ call[a] = "idle" /\ call'[a] \in {"called", "failed"}
        /\ \A b \in Agents : b # a => call'[b] = call[b]
    BY <1>0, <1>3, AskEvent
  <2>4. \A b \in Wave : /\ call[b] \notin {"idle", "called"} => call'[b] \notin {"idle", "called"}
                        /\ call'[b] \in Answered => call[b] \in Answered
    BY <2>3 DEF Answered
  <2> QED
    BY <1>h, <2>1, <2>2, <2>3, <2>4, ResponsesCarried
<1>4. ASSUME NEW a \in Agents, Turn(a)
      PROVE  ResponseInv'
  <2>0. CASE ~Healthy'
    BY <2>0 DEF ResponseInv
  <2>1. CASE Healthy' /\ Answer(a) /\ ~aborted
    BY <1>4, <1>h, <2>1, AnswerResponse
  <2>2. CASE Healthy' /\ ~(Answer(a) /\ ~aborted)
    <3>1. /\ InWave /\ InWave' /\ Wave' = Wave /\ transcript' = transcript /\ Wave \subseteq Agents
          /\ \A b \in Agents : Number(b)' = Number(b)
      BY <1>0, <1>4, <1>h, <2>2, TurnInWave DEF InWave
    <3>2. Of("model-response")' = Of("model-response") /\ reply' = reply
      <4>1. CASE Answer(a)
        BY <2>2, <4>1, AnswerFacts, OfUnchanged
      <4>2. CASE ~Answer(a)
        BY <1>0, <1>4, <4>2, TurnOf, TurnMoves
      <4> QED
        BY <4>1, <4>2
    <3>3. /\ call[a] \in Active /\ call'[a] \in Active \cup {"done", "failed"}
          /\ \A b \in Agents : b # a => call'[b] = call[b]
          /\ call'[a] = "called" => call[a] = "called"
          /\ call[a] = "called" => call'[a] \in {"called", "failed"}
      <4>1. Answer(a) => call[a] = "called" /\ call'[a] = "failed"
        BY <2>2, AnswerFacts
      <4> QED
        BY <1>0, <1>4, <4>1, TurnMoves
    <3>4. \A b \in Wave : /\ call[b] \notin {"idle", "called"} => call'[b] \notin {"idle", "called"}
                          /\ call'[b] \in Answered => call[b] \in Answered
      BY <3>1, <3>3 DEF Active, Answered
    <3> QED
      BY <1>h, <3>1, <3>2, <3>4, ResponsesCarried
  <2> QED
    BY <2>0, <2>1, <2>2
<1>5. CASE Record
  <2>1. PICK n \in Nat : RecordStep(n)
    BY <1>0, <1>5, RecordSteps
  <2>2. Of("model-response")' = Of("model-response")
    BY <1>0, <2>1, RecordOf
  <2>3. /\ phase' = "check" /\ phase = "turns"
        /\ n = Cardinality(Wave) /\ Len(transcript') = Len(transcript) + n
    BY <2>1 DEF RecordStep, WaveDone
  <2>4. ASSUME NEW r \in Of("model-response")
        PROVE  events'[r] = events[r] /\ events[r].call \in 1..Len(transcript')
    <3>1. \/ events[r].call \in 1..Len(transcript)
          \/ \E b \in Wave : events[r].call = Number(b)
      BY <2>3 DEF ResponseInv, Healthy
    <3>2. /\ Len(transcript) \in Nat
          /\ \A b \in Wave : Number(b) \in (Len(transcript) + 1)..(Len(transcript) + n)
      BY <2>3, WaveNumbers
    <3> QED
      BY <2>3, <3>1, <3>2, PlacesKept
  <2>5. \A r, s \in Of("model-response") : events[r].call = events[s].call => r = s
    BY <2>3 DEF ResponseInv, Healthy
  <2> QED
    BY <2>2, <2>3, <2>4, <2>5 DEF ResponseInv, InWave
<1>6. CASE OuterKind
  <2>1. /\ Of("model-response")' = Of("model-response") /\ UNCHANGED <<transcript, call, reply>>
        /\ Wave' = Wave /\ \A b : Number(b)' = Number(b)
    BY <1>6, OuterKeeps
  <2>2. Healthy' => InWave' = InWave
    BY <1>6, OuterPhase DEF InWave
  <2> QED
    BY <1>h, <2>1, <2>2, ResponsesCarried
<1> QED
  BY <1>1, <1>2, <1>3, <1>4, <1>5, <1>6, StepKinds DEF OuterKind

LEMMA ResponseInit == Init => ResponseInv
<1> SUFFICES ASSUME Init
             PROVE  ResponseInv
  OBVIOUS
<1>1. Of("model-response") = {}
  BY DEF Init, Of
<1> QED
  BY <1>1 DEF Init, ResponseInv, InWave

-----------------------------------------------------------------------------
(* The record of the calls                                                 *)

LEMMA CallsCarried ==
  ASSUME ProviderInv, Healthy' => Healthy, UNCHANGED <<providerCalls, transcript>>,
         Parallel' = Parallel,
         Healthy' =>
           \/ ~InWave /\ ~InWave'
           \/ /\ InWave /\ InWave' /\ Wave' = Wave
              /\ \A b \in Wave : /\ Number(b)' = Number(b)
                                 /\ call'[b] \in {"idle", "called"} => call[b] \in {"idle", "called"}
                                 /\ call'[b] \in Answered => call[b] \in Answered
           \/ /\ ~InWave /\ InWave'
              /\ \A b \in Wave' : call'[b] \notin Answered
  PROVE  ProviderInv'
<1> SUFFICES ASSUME Healthy'
             PROVE  ProviderInv'
  BY DEF ProviderInv
<1>1. CASE ~InWave /\ ~InWave'
  BY <1>1 DEF ProviderInv
<1>2. CASE /\ InWave /\ InWave' /\ Wave' = Wave
           /\ \A b \in Wave : /\ Number(b)' = Number(b)
                              /\ call'[b] \in {"idle", "called"} => call[b] \in {"idle", "called"}
                              /\ call'[b] \in Answered => call[b] \in Answered
  BY <1>2 DEF ProviderInv
<1>3. CASE /\ ~InWave /\ InWave'
           /\ \A b \in Wave' : call'[b] \notin Answered
  BY <1>3 DEF ProviderInv
<1> QED
  BY <1>1, <1>2, <1>3

LEMMA AnswerProvider ==
  ASSUME TypeInv, WaveInv, RequestInv, ProviderInv, Healthy, ~aborted, ~Parallel,
         NEW a \in Agents, Answer(a), Turn(a)
  PROVE  ProviderInv'
<1>0. /\ LogOK /\ CallOK /\ RunOK /\ FlagsOK
      /\ phase = "turns" /\ a \in Wave /\ Wave' = Wave /\ UNCHANGED <<phase, transcript>>
      /\ Parallel' = Parallel
      /\ \A b \in Agents : Number(b)' = Number(b)
      /\ Wave \subseteq Agents /\ InWave /\ InWave'
  BY TurnInWave, WaveInAgents DEF TypeInv, InWave
<1>1. call[a] = "called" /\ providerCalls' = Append(providerCalls, [call |-> AskedAs(a), agent |-> a])
      /\ call'[a] \in {"failed", "answered"}
  BY AnswerFacts
<1>2. AskedAs(a) = Number(a)
  BY <1>0, <1>1, AskedNumber DEF Active
<1>3. Len(providerCalls) = Len(transcript) /\ Number(a) = Len(transcript) + 1 /\ Len(transcript) \in Nat
  BY <1>0, <1>1, SeqFacts DEF ProviderInv, Number, LogOK
<1>4. /\ IsSeq(providerCalls') /\ Len(providerCalls') = Len(providerCalls) + 1
      /\ providerCalls'[Len(providerCalls) + 1] = [call |-> Number(a), agent |-> a]
      /\ \A k \in 1..Len(providerCalls) : providerCalls'[k] = providerCalls[k]
  BY <1>1, <1>2, AppendFacts DEF ProviderInv
<1>5. \A b \in Wave : b = a
  BY <1>0, WaveNumbers
<1>6. \A k \in 1..Len(transcript) :
        providerCalls'[k] = [call |-> k, agent |-> transcript[k].agent]
  BY <1>3, <1>4 DEF ProviderInv
<1> QED
  BY <1>0, <1>1, <1>3, <1>4, <1>5, <1>6 DEF ProviderInv

LEMMA RecordProvider ==
  ASSUME TypeInv, RequestInv, ProviderInv, Record, NEW n \in Nat, RecordStep(n)
  PROVE  ProviderInv'
<1>0. /\ LogOK /\ CallOK /\ RunOK /\ FlagsOK
      /\ phase = "turns" /\ phase' = "check" /\ \A a \in Wave : call[a] = "done"
      /\ n = Cardinality(Wave) /\ n \in Nat \ {0}
      /\ Extends(transcript', transcript)
      /\ Len(transcript') = Len(transcript) + n
      /\ \A k \in 1..n : transcript'[Len(transcript) + k] = Entry(Speaker(k))
      /\ conf' = conf
  BY DEF RecordStep, WaveDone, TypeInv
<1>1. Healthy /\ InWave /\ ~InWave' /\ Len(transcript) \in Nat /\ Len(providerCalls) \in Nat
  BY <1>0, SeqFacts DEF Healthy, InWave, LogOK, ProviderInv
<1>2. \A k \in 1..n : /\ Speaker(k) \in Wave /\ Number(Speaker(k)) = Len(transcript) + k
                      /\ transcript'[Len(transcript) + k].agent = Speaker(k)
  <2>1. \A k \in 1..n : Speaker(k) \in Wave /\ Number(Speaker(k)) = Len(transcript) + k
    BY <1>0, WaveNumbers
  <2>2. \A a : Entry(a).agent = a
    BY DEF Entry
  <2> QED
    BY <1>0, <2>1, <2>2
<1>3. /\ IsSeq(providerCalls') /\ Len(providerCalls') = Len(transcript) + n
      /\ \A k \in 1..Len(transcript) : providerCalls'[k] = providerCalls[k]
      /\ \A k \in 1..n : providerCalls'[Len(transcript) + k]
                           = [call |-> Len(transcript) + k, agent |-> Speaker(k)]
  <2>1. CASE Parallel
    <3>1. providerCalls' = providerCalls \o Slots
      BY <2>1 DEF Record, SequentialRecord, SharedRecord, BroadcastRecord, Parallel
    <3>2. IsSeq(Slots) /\ Len(Slots) = n /\ \A k \in 1..n : Slots[k] = RecordedCall(k)
      <4>1. Slots = [k \in 1..n |-> RecordedCall(k)]
        BY <1>0 DEF Slots
      <4> QED
        BY <1>0, <4>1, FunctionIsSeq
    <3>3. Len(providerCalls) = Len(transcript) /\ IsSeq(providerCalls)
      BY <1>1, <2>1 DEF ProviderInv
    <3>4. ASSUME NEW k \in 1..n
          PROVE  Slots[k] = [call |-> Len(transcript) + k, agent |-> Speaker(k)]
      <4>1. Speaker(k) = k
        BY <2>1 DEF Speaker
      <4>2. AskedAs(k) = Len(transcript) + k
        BY <1>0, <1>1, <1>2, <4>1, AskedNumber
      <4> QED
        BY <3>2, <4>1, <4>2 DEF RecordedCall
    <3>5. Joined(providerCalls', providerCalls, Slots)
      BY <3>1, <3>2, <3>3, ConcatJoins
    <3> QED
      BY <3>2, <3>3, <3>4, <3>5 DEF Joined, Extends
  <2>2. CASE ~Parallel
    <3>1. providerCalls' = providerCalls
      BY <2>2 DEF Record, SequentialRecord, SharedRecord, BroadcastRecord, Parallel
    <3>2. n = 1 /\ Speaker(1) \in Wave /\ Number(Speaker(1)) = Len(transcript) + 1 /\ 1..1 = {1}
      BY <1>0, <1>2, <2>2, WaveNumbers
    <3>3. /\ Len(providerCalls) = Len(transcript) + 1
          /\ providerCalls[Len(transcript) + 1]
               = [call |-> Len(transcript) + 1, agent |-> Speaker(1)]
      BY <1>0, <1>1, <2>2, <3>2 DEF ProviderInv, Answered
    <3> QED
      BY <3>1, <3>2, <3>3 DEF ProviderInv
  <2> QED
    BY <2>1, <2>2
<1>4. ASSUME NEW k \in 1..Len(transcript')
      PROVE  providerCalls'[k] = [call |-> k, agent |-> transcript'[k].agent]
  <2>1. CASE k \in 1..Len(transcript)
    BY <1>0, <1>1, <1>3, <2>1 DEF ProviderInv, Extends
  <2>2. CASE k \notin 1..Len(transcript)
    <3>1. PICK j \in 1..n : k = Len(transcript) + j
      <4>1. k - Len(transcript) \in 1..n /\ k = Len(transcript) + (k - Len(transcript))
        BY <1>0, <1>1, <2>2
      <4> QED
        BY <4>1
    <3> QED
      BY <1>2, <1>3, <3>1
  <2> QED
    BY <2>1, <2>2
<1> QED
  BY <1>0, <1>1, <1>3, <1>4 DEF ProviderInv

LEMMA ProviderStep ==
  ASSUME TypeInv, WaveInv, RequestInv, ProviderInv, [Next]_vars
  PROVE  ProviderInv'
<1>0. /\ conf' = conf /\ RunOK /\ LogOK /\ CallOK /\ FlagsOK
      /\ Agents' = Agents /\ Parallel' = Parallel
      /\ phase \in {"ask", "turns"} => Wave \subseteq Agents
  BY ConfKept, OptionsKept, WaveInAgents DEF TypeInv
<1>h. Healthy' => Healthy
  BY UnhealthyStays
<1>1. CASE Start \/ Final
  BY <1>0, <1>1, <1>h, EndFacts, CallsCarried DEF InWave
<1>2. CASE Check
  <2>1. /\ ~InWave /\ UNCHANGED <<providerCalls, transcript>>
        /\ InWave' => \A b \in Wave' : call'[b] \notin Answered
    BY <1>2, CheckFacts DEF InWave, Answered
  <2> QED
    BY <1>0, <1>h, <2>1, CallsCarried
<1>3. ASSUME NEW a \in Agents, Ask(a)
      PROVE  ProviderInv'
  <2>1. InWave /\ InWave'
    BY <1>3, AskEvent DEF InWave
  <2>2. /\ UNCHANGED <<transcript, providerCalls>> /\ Wave' = Wave /\ Wave \subseteq Agents
        /\ \A b \in Wave : Number(b)' = Number(b)
        /\ call[a] = "idle" /\ call'[a] \in {"called", "failed"}
        /\ \A b \in Agents : b # a => call'[b] = call[b]
    BY <1>0, <1>3, AskEvent
  <2>3. \A b \in Wave : /\ call'[b] \in {"idle", "called"} => call[b] \in {"idle", "called"}
                        /\ call'[b] \in Answered => call[b] \in Answered
    BY <2>2 DEF Answered
  <2> QED
    BY <1>0, <1>h, <2>1, <2>2, <2>3, CallsCarried
<1>4. ASSUME NEW a \in Agents, Turn(a)
      PROVE  ProviderInv'
  <2>1. CASE Healthy' /\ Answer(a) /\ ~aborted /\ ~Parallel
    BY <1>4, <1>h, <2>1, AnswerProvider
  <2>2. CASE ~Healthy'
    <3>1. IsSeq(providerCalls')
      <4>1. CASE Answer(a) /\ ~aborted /\ ~Parallel
        <5>1. providerCalls' = Append(providerCalls, [call |-> AskedAs(a), agent |-> a])
          BY <4>1, AnswerFacts
        <5> QED
          BY <5>1, AppendFacts DEF ProviderInv
      <4>2. CASE ~(Answer(a) /\ ~aborted /\ ~Parallel)
        <5>1. providerCalls' = providerCalls
          BY <1>0, <1>4, <4>2, AnswerFacts, TurnMoves
        <5> QED
          BY <5>1 DEF ProviderInv
      <4> QED
        BY <4>1, <4>2
    <3> QED
      BY <2>2, <3>1 DEF ProviderInv
  <2>3. CASE Healthy' /\ ~(Answer(a) /\ ~aborted /\ ~Parallel)
    <3>1. /\ InWave /\ InWave' /\ Wave' = Wave /\ transcript' = transcript /\ Wave \subseteq Agents
          /\ \A b \in Agents : Number(b)' = Number(b)
      BY <1>0, <1>4, <1>h, <2>3, TurnInWave DEF InWave
    <3>2. providerCalls' = providerCalls
      BY <1>0, <1>4, <2>3, AnswerFacts, TurnMoves
    <3>3. CASE Parallel
      BY <1>0, <1>h, <2>3, <3>1, <3>2, <3>3 DEF ProviderInv
    <3>4. CASE ~Parallel
      <4>1. /\ call[a] \in Active /\ call'[a] \in Active \cup {"done", "failed"}
            /\ \A b \in Agents : b # a => call'[b] = call[b]
            /\ call'[a] = "called" => call[a] = "called"
            /\ call[a] = "called" => call'[a] \in {"called", "failed"}
        <5>1. Answer(a) => call[a] = "called" /\ call'[a] = "failed"
          BY <2>3, <3>4, AnswerFacts
        <5> QED
          BY <1>0, <1>4, <5>1, TurnMoves
      <4>2. \A b \in Wave : /\ call'[b] \in {"idle", "called"} => call[b] \in {"idle", "called"}
                            /\ call'[b] \in Answered => call[b] \in Answered
        BY <3>1, <4>1 DEF Active, Answered
      <4> QED
        BY <1>0, <1>h, <3>1, <3>2, <4>2, CallsCarried
    <3> QED
      BY <3>3, <3>4
  <2> QED
    BY <2>1, <2>2, <2>3
<1>5. CASE Record
  <2>1. PICK n \in Nat : RecordStep(n)
    BY <1>0, <1>5, RecordSteps
  <2> QED
    BY <1>5, <2>1, RecordProvider
<1>6. CASE OuterKind
  <2>1. /\ UNCHANGED <<transcript, call, providerCalls>>
        /\ Wave' = Wave /\ \A b : Number(b)' = Number(b)
    BY <1>6, OuterKeeps
  <2>2. Healthy' => InWave' = InWave
    BY <1>6, OuterPhase DEF InWave
  <2> QED
    BY <1>0, <1>h, <2>1, <2>2, CallsCarried
<1> QED
  BY <1>1, <1>2, <1>3, <1>4, <1>5, <1>6, StepKinds DEF OuterKind

LEMMA ProviderInit == Init => ProviderInv
BY EmptyIsSeq DEF Init, ProviderInv, InWave


-----------------------------------------------------------------------------
(* Turns and costs                                                         *)

\* The total before a position is that of the greatest turn below it.
LEMMA TotalOfLatest ==
  ASSUME NEW x \in Int, NEW p \in Int, p \in Of("agent-turn")', Of("agent-turn")' \subseteq Int,
         p < x, \A j \in Of("agent-turn")' : j < x => j <= p
  PROVE  TotalBefore(x)' = events'[p].total
<1> DEFINE turns == {j \in Of("agent-turn")' : j < x}
<1>1. p \in turns /\ turns # {} /\ turns \subseteq Int /\ \A l \in turns : l <= p
  OBVIOUS
<1>2. TotalBefore(x)' = IF turns = {} THEN 0
                        ELSE events'[CHOOSE j \in turns : \A l \in turns : l <= j].total
  BY DEF TotalBefore
<1> HIDE DEF turns
<1>3. (CHOOSE j \in turns : \A l \in turns : l <= j) = p
  <2>1. PICK last \in turns : /\ last = (CHOOSE j \in turns : \A l \in turns : l <= j)
                              /\ \A l \in turns : l <= last
    BY <1>1
  <2>2. last <= p /\ p <= last
    BY <1>1, <2>1
  <2> QED
    BY <1>1, <2>1, <2>2
<1> QED
  BY <1>1, <1>2, <1>3

\* As long as no turn is recorded, the end of the log has the same total before it.
LEMMA TotalStays ==
  ASSUME TypeInv, [Next]_vars, Of("agent-turn")' = Of("agent-turn")
  PROVE  TotalBefore(Len(events) + 1)' = TotalBefore(Len(events) + 1)
<1>1. /\ Len(events) \in Nat /\ Len(events') \in Nat /\ Len(events) <= Len(events')
      /\ Of("agent-turn") \subseteq 1..Len(events)
  BY PlacesKept
<1>2. PICK k \in Nat : k = Len(events) + 1
  BY <1>1
<1>3. PICK l \in Nat : l = Len(events') + 1
  BY <1>1
<1>4. TotalBefore(k)' = TotalBefore(k)
  BY <1>1, <1>2, TotalsKept
<1>5. {j \in Of("agent-turn")' : j < l} = {j \in Of("agent-turn")' : j < k}
  BY <1>1, <1>2, <1>3
<1>6. TotalBefore(l)' = TotalBefore(k)'
  <2> DEFINE upTo(m)   == {j \in Of("agent-turn")' : j < m}
             total(S)  == IF S = {} THEN 0 ELSE events'[CHOOSE j \in S : \A i \in S : i <= j].total
  <2>1. TotalBefore(l)' = total(upTo(l)) /\ TotalBefore(k)' = total(upTo(k))
    BY DEF TotalBefore
  <2>2. upTo(l) = upTo(k)
    BY <1>5
  <2> HIDE DEF upTo, total
  <2> QED
    BY <2>1, <2>2
<1> QED
  BY <1>2, <1>3, <1>4, <1>6

\* The k-th turn that a wave records: its rank, and what it adds to the total.
LEMMA TurnRecorded ==
  ASSUME TypeInv, CountInv, [Next]_vars, SpentInv, NEW n \in Nat, RecordStep(n), NEW k \in 1..n
  PROVE  \E p \in Nat :
           /\ p = Len(events) + k /\ p \in Of("agent-turn")' /\ p \in DOMAIN events'
           /\ Nth(p)' = Len(transcript) + k
           /\ events'[p].agent = Speaker(k) /\ events'[p].text = reply[Speaker(k)].text
           /\ events'[p].total = Spending(k)
           /\ Spending(k) = TotalBefore(p)' + reply[Speaker(k)].cost
<1> DEFINE Taken == Of("agent-turn")
<1>0. /\ LogOK /\ CallOK /\ RunOK /\ FlagsOK
      /\ phase = "turns" /\ \A a \in Wave : call[a] = "done"
      /\ n = Cardinality(Wave) /\ Healthy /\ InWave
      /\ \A j \in 1..n : Speaker(j) \in Wave
      /\ \A j \in 1..n : /\ events'[Len(events) + j].type = "agent-turn"
                         /\ events'[Len(events) + j].agent = Speaker(j)
                         /\ events'[Len(events) + j].text = reply[Speaker(j)].text
                         /\ events'[Len(events) + j].total = Spending(j)
  BY DEF RecordStep, WaveDone, TypeInv, Healthy, InWave
<1>1. PICK len \in Nat : len = Len(events)
  BY PlacesKept
<1>2. PICK p \in Nat : p = len + k
  OBVIOUS
<1>3. Taken' = Taken \cup ((len + 1)..(len + n)) /\ Taken \subseteq 1..len
  BY <1>0, <1>1, RecordOf, PlacesKept
<1>4. p \in Taken' /\ p \in DOMAIN events'
  <2>1. p \in Taken'
    BY <1>2, <1>3
  <2> QED
    BY <2>1 DEF Of
<1>5. /\ events'[p].agent = Speaker(k) /\ events'[p].text = reply[Speaker(k)].text
      /\ events'[p].total = Spending(k) /\ events'[p].type = "agent-turn"
  BY <1>0, <1>1, <1>2
<1>6. Nth(p)' = Len(transcript) + k
  <2>1. Nth(p)' = Cardinality({j \in Taken' : j < p}) + 1
    BY <1>5 DEF Nth
  <2>2. PICK m \in Nat : m = k - 1
    OBVIOUS
  <2>3. {j \in Taken' : j < p} = Taken \cup ((len + 1)..(len + m))
    BY <1>2, <1>3, <2>2
  <2>4. Cardinality(Taken \cup ((len + 1)..(len + m))) = Cardinality(Taken) + m
    BY <1>3, LongerCount
  <2>5. Cardinality(Taken) = Len(transcript) /\ Len(transcript) \in Nat
    BY WaveNumbers DEF CountInv
  <2>6. Nth(p)' = Cardinality(Taken \cup ((len + 1)..(len + m))) + 1
    BY <2>1, <2>3
  <2>7. Nth(p)' = (Len(transcript) + m) + 1
    BY <2>4, <2>5, <2>6
  <2> QED
    BY <2>2, <2>5, <2>7
<1>7. Spending(k) = TotalBefore(p)' + reply[Speaker(k)].cost
  <2>1. k = 1 => TotalBefore(p)' = TotalBefore(len + 1)
    BY <1>1, <1>2, TotalsKept
  <2>2. CASE Parallel
    <3>1. totalCost = TotalBefore(len + 1) /\ totalCost \in Nat
      BY <1>0, <1>1, <2>2 DEF SpentInv, FlagsOK
    <3>2. conf.agents \in Nat /\ n <= conf.agents
      BY <1>0, WaveSize, RunFacts
    <3>3. /\ CostUpTo[0] = 0 /\ CostUpTo[k] = CostUpTo[k - 1] + reply[k].cost
          /\ CostUpTo[k - 1] \in Nat /\ reply[k].cost \in Nat
      <4>1. k \in 0..conf.agents /\ k - 1 \in 0..conf.agents /\ k # 0 /\ 0 \in 0..conf.agents
            /\ k \in Agents
        BY <3>2 DEF Agents
      <4>2. \A a \in Agents : reply[a].cost \in Nat
        BY <1>0, RepliesTyped
      <4>3. CostUpTo \in [0..conf.agents -> Nat]
        BY <3>2, <4>2, CostUpToType
      <4>4. \A j \in 0..conf.agents :
              CostUpTo[j] = IF j = 0 THEN 0 ELSE CostUpTo[j - 1] + reply[j].cost
        BY <3>2, CostUpToSums
      <4> QED
        BY <4>1, <4>2, <4>3, <4>4
    <3>4. Speaker(k) = k /\ Spending(k) = totalCost + CostUpTo[k]
      BY <2>2 DEF Speaker, Spending
    <3>5. k # 1 => TotalBefore(p)' = totalCost + CostUpTo[k - 1]
      <4> SUFFICES ASSUME k # 1
                   PROVE  TotalBefore(p)' = totalCost + CostUpTo[k - 1]
        OBVIOUS
      <4>1. PICK j \in 1..n : j = k - 1
        OBVIOUS
      <4>2. len + j \in Taken' /\ Taken' \subseteq Int /\ len + j < p
            /\ \A i \in Taken' : i < p => i <= len + j
        BY <1>2, <1>3, <4>1
      <4>3. TotalBefore(p)' = events'[len + j].total
        <5> HIDE DEF Taken
        <5>1. PICK q \in Int : q = len + j
          OBVIOUS
        <5> QED
          BY <4>2, <5>1, TotalOfLatest DEF Taken
      <4>4. Spending(j) = totalCost + CostUpTo[j]
        BY <2>2 DEF Spending
      <4> QED
        BY <1>0, <1>1, <4>1, <4>3, <4>4
    <3>6. CASE k = 1
      BY <2>1, <3>1, <3>3, <3>4, <3>6
    <3>7. CASE k # 1
      BY <3>1, <3>3, <3>4, <3>5, <3>7
    <3> QED
      BY <3>6, <3>7
  <2>3. CASE ~Parallel
    <3>1. k = 1
      BY <1>0, <2>3, WaveNumbers
    <3>2. Speaker(k) \in Wave /\ call[Speaker(k)] = "done"
      BY <1>0
    <3>3. totalCost = TotalBefore(len + 1) + reply[Speaker(k)].cost
      BY <1>0, <1>1, <2>3, <3>2 DEF SpentInv, Answered
    <3>4. Spending(k) = totalCost
      BY <2>3 DEF Spending
    <3> QED
      BY <2>1, <3>1, <3>3, <3>4
  <2> QED
    BY <2>2, <2>3
<1> QED
  BY <1>1, <1>2, <1>4, <1>5, <1>6, <1>7


\* A turn that is in the log.
LEMMA TurnKept ==
  ASSUME TypeInv, TurnInv, [Next]_vars, NEW k \in Of("agent-turn")
  PROVE  /\ Nth(k)' \in 1..Len(transcript')
         /\ events'[k].agent = transcript'[Nth(k)'].agent
         /\ Healthy => \E q, r \in DOMAIN events' :
              /\ Told(q, r, Nth(k), events[k].agent, k)'
              /\ events'[r].text = events'[k].text
              /\ events'[k].total = TotalBefore(k)' + events'[r].own
<1>1. k \in 1..Len(events) /\ events'[k] = events[k] /\ Len(events) \in Nat
  BY PlacesKept
<1>2. PICK n : n = Nth(k) /\ n = Nth(k)'
  BY <1>1, RanksKept
<1>3. TotalBefore(k)' = TotalBefore(k)
  BY <1>1, TotalsKept
<1>4. n \in 1..Len(transcript) /\ events[k].agent = transcript[n].agent
  BY <1>2 DEF TurnInv
<1>5. n \in 1..Len(transcript') /\ transcript'[n] = transcript[n]
  <2>1. Extends(transcript', transcript) /\ Len(transcript) \in Nat /\ Len(transcript') \in Nat
    BY LogStep, SeqFacts DEF TypeInv, LogOK
  <2> QED
    BY <1>4, <2>1 DEF Extends
<1>6. ASSUME Healthy
      PROVE  \E q, r \in DOMAIN events' :
               /\ Told(q, r, Nth(k), events[k].agent, k)'
               /\ events'[r].text = events'[k].text
               /\ events'[k].total = TotalBefore(k)' + events'[r].own
  <2>1. PICK q, r \in DOMAIN events :
          /\ Told(q, r, n, events[k].agent, k)
          /\ events[r].text = events[k].text
          /\ events[k].total = TotalBefore(k) + events[r].own
    BY <1>2, <1>6 DEF TurnInv
  <2>2. PICK a : a = events[k].agent
    OBVIOUS
  <2>3. Told(q, r, n, a, k)' /\ {q, r} \subseteq 1..Len(events) /\ events'[r] = events[r]
    <3>1. Told(q, r, n, a, k) /\ k \in Int /\ k <= k
      BY <1>1, <2>1, <2>2
    <3> QED
      BY <3>1, ToldKept
  <2>4. q \in DOMAIN events' /\ r \in DOMAIN events'
    BY <2>3, PlacesKept
  <2>5. Told(q, r, Nth(k), events[k].agent, k)'
    BY <1>1, <1>2, <2>2, <2>3 DEF Told
  <2> QED
    BY <1>1, <1>3, <2>1, <2>3, <2>4, <2>5
<1> QED
  BY <1>1, <1>2, <1>4, <1>5, <1>6

\* A turn that is recorded tells what its agent was answered.
LEMMA TurnTold ==
  ASSUME TypeInv, CountInv, ResponseInv, SpentInv, [Next]_vars, NEW n \in Nat, RecordStep(n),
         NEW k \in 1..n, NEW p \in Nat, p = Len(events) + k
  PROVE  /\ Nth(p)' \in 1..Len(transcript')
         /\ events'[p].agent = transcript'[Nth(p)'].agent
         /\ \E q, r \in DOMAIN events' :
              /\ Told(q, r, Nth(p), events[p].agent, p)'
              /\ events'[r].text = events'[p].text
              /\ events'[p].total = TotalBefore(p)' + events'[r].own
<1>0. /\ phase = "turns" /\ \A a \in Wave : call[a] = "done"
      /\ n = Cardinality(Wave) /\ Healthy /\ InWave
      /\ Len(transcript') = Len(transcript) + n
      /\ transcript'[Len(transcript) + k] = Entry(Speaker(k))
  BY DEF RecordStep, WaveDone, Healthy, InWave
<1>1. /\ Nth(p)' = Len(transcript) + k
      /\ events'[p].agent = Speaker(k) /\ events'[p].text = reply[Speaker(k)].text
      /\ events'[p].total = TotalBefore(p)' + reply[Speaker(k)].cost
  BY TurnRecorded
<1>2. PICK a \in Wave : a = Speaker(k) /\ Number(a) = Len(transcript) + k /\ call[a] = "done"
  BY <1>0, WaveNumbers
<1>3. Nth(p)' \in 1..Len(transcript') /\ events'[p].agent = transcript'[Nth(p)'].agent
  <2>1. Len(transcript) \in Nat
    BY WaveNumbers
  <2>2. Entry(Speaker(k)).agent = Speaker(k)
    BY DEF Entry
  <2> QED
    BY <1>0, <1>1, <2>1, <2>2
<1>4. PICK q, r \in DOMAIN events : /\ Told(q, r, Number(a), a, Len(events) + 1)
                                    /\ events[r].text = reply[a].text
                                    /\ events[r].own = reply[a].cost
  BY <1>0, <1>2 DEF ResponseInv, Answered
<1>5. PICK m : m = Number(a)
  OBVIOUS
<1>6. PICK end \in Int : end = Len(events) + 1 /\ end <= p
  BY PlacesKept
<1>7. Told(q, r, m, a, p)' /\ {q, r} \subseteq 1..Len(events) /\ events'[r] = events[r]
  <2>1. Told(q, r, m, a, end) /\ p \in Int
    BY <1>4, <1>5, <1>6
  <2> QED
    BY <1>6, <2>1, ToldKept
<1>8. q \in DOMAIN events' /\ r \in DOMAIN events'
  BY <1>7, PlacesKept
<1>9. Told(q, r, Nth(p), events[p].agent, p)'
  BY <1>1, <1>2, <1>5, <1>7 DEF Told
<1> QED
  BY <1>1, <1>2, <1>3, <1>4, <1>7, <1>8, <1>9

\* Which steps record turns.
LEMMA TurnsAdded ==
  ASSUME TypeInv, [Next]_vars
  PROVE  \/ Of("agent-turn")' = Of("agent-turn") /\ ~Record
         \/ Record /\ \E n \in Nat : RecordStep(n)
<1>0. RunOK /\ LogOK
  BY DEF TypeInv
<1>1. CASE Record
  BY <1>0, <1>1, RecordSteps
<1>2. CASE ~Record
  <2>1. CASE Start
    BY <2>1, <1>2, EndFacts
  <2>2. CASE ~Start
    <3>1. Adds({"budget-stop", "model-request", "final"} \cup TurnTypes, {0} \cup Agents)
      BY <1>0, <1>2, <2>2, PlainSteps
    <3> QED
      BY <1>0, <1>2, <3>1, OfKept DEF TurnTypes
  <2> QED
    BY <2>1, <2>2
<1> QED
  BY <1>1, <1>2

LEMMA TurnsStep ==
  ASSUME TypeInv, CountInv, ResponseInv, SpentInv, TurnInv, [Next]_vars
  PROVE  TurnInv'
<1>h. Healthy' => Healthy
  BY UnhealthyStays
<1>1. CASE Of("agent-turn")' = Of("agent-turn")
  BY <1>h, <1>1, TurnKept DEF TurnInv
<1>2. ASSUME NEW n \in Nat, RecordStep(n)
      PROVE  TurnInv'
  <2>1. Of("agent-turn")' = Of("agent-turn") \cup ((Len(events) + 1)..(Len(events) + n))
    BY <1>2, RecordOf DEF TypeInv
  <2>2. ASSUME NEW p \in (Len(events) + 1)..(Len(events) + n)
        PROVE  \E k \in 1..n : p = Len(events) + k /\ p \in Nat
    <3>1. Len(events) \in Nat
      BY PlacesKept
    <3>2. p - Len(events) \in 1..n /\ p = Len(events) + (p - Len(events)) /\ p \in Nat
      BY <3>1
    <3> QED
      BY <3>2
  <2>3. ASSUME NEW p \in Of("agent-turn")'
        PROVE  /\ Nth(p)' \in 1..Len(transcript')
               /\ events'[p].agent = transcript'[Nth(p)'].agent
               /\ Healthy => \E q, r \in DOMAIN events' :
                    /\ Told(q, r, Nth(p), events[p].agent, p)'
                    /\ events'[r].text = events'[p].text
                    /\ events'[p].total = TotalBefore(p)' + events'[r].own
    <3>1. CASE p \in Of("agent-turn")
      <4>1. events'[p] = events[p]
        BY <3>1, PlacesKept
      <4> QED
        BY <3>1, <4>1, TurnKept
    <3>2. CASE p \in (Len(events) + 1)..(Len(events) + n)
      <4>1. PICK k \in 1..n : p = Len(events) + k /\ p \in Nat
        BY <2>2, <3>2
      <4> QED
        BY <1>2, <4>1, TurnTold
    <3> QED
      BY <2>1, <3>1, <3>2
  <2> QED
    BY <1>h, <2>3 DEF TurnInv
<1> QED
  BY <1>1, <1>2, TurnsAdded

LEMMA TurnsInit == Init => TurnInv
BY DEF Init, TurnInv, Of


\* Steps that spend nothing.
LEMMA CostCarried ==
  ASSUME TypeInv, SpentInv, [Next]_vars, Healthy' => Healthy, totalCost' = totalCost,
         Parallel' = Parallel, Of("agent-turn")' = Of("agent-turn"),
         Healthy' =>
           \/ ~InWave /\ ~InWave'
           \/ /\ InWave /\ InWave' /\ Wave' = Wave
              /\ \A b \in Wave : /\ call'[b] \in {"idle", "called"} => call[b] \in {"idle", "called"}
                                 /\ call'[b] \in Answered =>
                                      call[b] \in Answered /\ reply'[b] = reply[b]
           \/ /\ ~InWave /\ InWave'
              /\ \A b \in Wave' : call'[b] \notin Answered
  PROVE  SpentInv'
<1> SUFFICES ASSUME Healthy'
             PROVE  SpentInv'
  BY DEF SpentInv
<1>1. PICK total : total = TotalBefore(Len(events) + 1) /\ TotalBefore(Len(events) + 1)' = total
  BY TotalStays
<1>2. CASE ~InWave /\ ~InWave'
  BY <1>1, <1>2 DEF SpentInv
<1>3. CASE /\ InWave /\ InWave' /\ Wave' = Wave
           /\ \A b \in Wave : /\ call'[b] \in {"idle", "called"} => call[b] \in {"idle", "called"}
                              /\ call'[b] \in Answered =>
                                   call[b] \in Answered /\ reply'[b] = reply[b]
  BY <1>1, <1>3 DEF SpentInv
<1>4. CASE /\ ~InWave /\ InWave'
           /\ \A b \in Wave' : call'[b] \notin Answered
  BY <1>1, <1>4 DEF SpentInv
<1> QED
  BY <1>2, <1>3, <1>4

LEMMA SpentStep ==
  ASSUME TypeInv, CountInv, WaveInv, SpentInv, [Next]_vars
  PROVE  SpentInv'
<1>0. /\ conf' = conf /\ RunOK /\ LogOK /\ CallOK /\ FlagsOK
      /\ Agents' = Agents /\ Parallel' = Parallel
      /\ phase \in {"ask", "turns"} => Wave \subseteq Agents
  BY ConfKept, OptionsKept, WaveInAgents DEF TypeInv
<1>h. Healthy' => Healthy
  BY UnhealthyStays
<1>1. CASE Start \/ Final
  <2>1. totalCost' = totalCost /\ ~InWave /\ ~InWave' /\ Of("agent-turn")' = Of("agent-turn")
    BY <1>1, EndFacts DEF InWave
  <2> QED
    BY <1>0, <1>h, <2>1, CostCarried
<1>2. CASE Check
  <2>1. /\ ~InWave /\ totalCost' = totalCost /\ Of("agent-turn")' = Of("agent-turn")
        /\ InWave' => \A b \in Wave' : call'[b] \notin Answered
    BY <1>2, CheckFacts DEF InWave, Answered
  <2> QED
    BY <1>0, <1>h, <2>1, CostCarried
<1>3. ASSUME NEW a \in Agents, Ask(a)
      PROVE  SpentInv'
  <2>1. InWave /\ InWave' /\ Of("agent-turn")' = Of("agent-turn")
    <3>1. Adds({"model-request"}, {a})
      BY <1>3, SmallSteps
    <3> QED
      BY <1>0, <1>3, <3>1, AskEvent, OfKept DEF InWave
  <2>2. /\ UNCHANGED <<reply, totalCost>> /\ Wave' = Wave /\ Wave \subseteq Agents
        /\ call[a] = "idle" /\ call'[a] \in {"called", "failed"}
        /\ \A b \in Agents : b # a => call'[b] = call[b]
    BY <1>0, <1>3, AskEvent
  <2>3. \A b \in Wave : /\ call'[b] \in {"idle", "called"} => call[b] \in {"idle", "called"}
                        /\ call'[b] \in Answered => call[b] \in Answered /\ reply'[b] = reply[b]
    BY <2>2 DEF Answered
  <2> QED
    BY <1>0, <1>h, <2>1, <2>2, <2>3, CostCarried
<1>4. ASSUME NEW a \in Agents, Turn(a), Healthy'
      PROVE  SpentInv'
  <2>1. /\ phase = "turns" /\ a \in Wave /\ InWave /\ InWave' /\ Wave' = Wave /\ Wave \subseteq Agents
        /\ Of("agent-turn")' = Of("agent-turn")
    <3>1. phase = "turns" /\ a \in Wave /\ phase' = phase /\ Wave' = Wave
      BY <1>0, <1>4, <1>h, TurnInWave
    <3> QED
      BY <1>0, <1>4, <3>1, TurnOf DEF InWave, TurnTypes
  <2>2. /\ call[a] \in Active /\ call'[a] \in Active \cup {"done", "failed"}
        /\ \A b \in Agents : b # a => call'[b] = call[b]
        /\ call'[a] = "called" => call[a] = "called"
    BY <1>0, <1>4, TurnMoves
  <2>3. PICK total : total = TotalBefore(Len(events) + 1) /\ TotalBefore(Len(events) + 1)' = total
    BY <2>1, TotalStays
  <2>4. CASE Answer(a) /\ ~aborted
    <3>1. PICK response \in conf.answers :
            /\ call'[a] \in {"failed", "answered"}
            /\ reply'[a] = response /\ \A b \in Agents : b # a => reply'[b] = reply[b]
            /\ \E e : /\ events' = Append(events, e) /\ e.type = "model-response"
                      /\ e.agent = a /\ e.call = AskedAs(a)
                      /\ e.own = response.cost /\ e.text = response.text
            /\ Parallel => UNCHANGED <<providerCalls, totalCost>>
            /\ ~Parallel => /\ providerCalls' = Append(providerCalls, [call |-> AskedAs(a), agent |-> a])
                            /\ totalCost' = totalCost + response.cost
      BY <2>4, AnswerFacts
    <3>2. call[a] = "called" /\ call'[a] \in {"failed", "answered"}
      BY <2>4, AnswerFacts
    <3>3. CASE Parallel
      BY <1>0, <1>h, <1>4, <2>1, <2>3, <3>1, <3>3 DEF SpentInv
    <3>4. CASE ~Parallel
      <4>1. \A b \in Wave : b = a
        BY <2>1, <3>4, WaveNumbers
      <4>2. totalCost = total
        BY <1>h, <1>4, <2>1, <2>3, <3>2, <3>4 DEF SpentInv
      <4> QED
        BY <1>0, <1>4, <2>1, <2>3, <3>1, <3>2, <3>4, <4>1, <4>2 DEF SpentInv
    <3> QED
      BY <3>3, <3>4
  <2>5. CASE ~(Answer(a) /\ ~aborted)
    <3>1. Answer(a) => call[a] = "called" /\ call'[a] = "failed" /\ UNCHANGED <<reply, totalCost>>
      BY <2>5, AnswerFacts
    <3>2. ~Answer(a) => /\ UNCHANGED <<reply, totalCost>>
                        /\ call[a] = "called" => call'[a] \in {"called", "failed"}
      BY <1>0, <1>4, TurnMoves
    <3>3. \A b \in Wave : /\ call'[b] \in {"idle", "called"} => call[b] \in {"idle", "called"}
                          /\ call'[b] \in Answered => call[b] \in Answered /\ reply'[b] = reply[b]
      BY <2>1, <2>2, <3>1, <3>2 DEF Active, Answered
    <3> QED
      BY <1>0, <1>h, <2>1, <3>1, <3>2, <3>3, CostCarried
  <2> QED
    BY <2>4, <2>5
<1>5. CASE Record
  <2>1. PICK n \in Nat : RecordStep(n)
    BY <1>0, <1>5, RecordSteps
  <2>2. n \in 1..n /\ totalCost' = Spending(n) /\ phase' = "check"
    BY <2>1 DEF RecordStep, Spending
  <2>3. PICK p \in Nat : /\ p = Len(events) + n /\ p \in Of("agent-turn")'
                         /\ events'[p].total = Spending(n)
    BY <2>1, <2>2, TurnRecorded
  <2>4. Of("agent-turn")' = Of("agent-turn") \cup ((Len(events) + 1)..(Len(events) + n))
    BY <1>0, <2>1, RecordOf
  <2>5. /\ Len(events) \in Nat /\ Len(events') \in Nat /\ Of("agent-turn") \subseteq 1..Len(events)
        /\ Of("agent-turn")' \subseteq 1..Len(events')
    BY PlacesKept
  <2>6. PICK end \in Int : end = Len(events') + 1
    BY <2>5
  <2>7. p < end /\ (\A j \in Of("agent-turn")' : j < end => j <= p) /\ Of("agent-turn")' \subseteq Int
    BY <2>3, <2>4, <2>5, <2>6
  <2>8. TotalBefore(end)' = events'[p].total
    BY <2>3, <2>7, TotalOfLatest
  <2>9. TotalBefore(Len(events) + 1)' = totalCost'
    BY <2>2, <2>3, <2>6, <2>8
  <2> QED
    BY <2>2, <2>9 DEF SpentInv, InWave
<1>6. CASE OuterKind
  <2>1. /\ UNCHANGED <<call, reply, totalCost>> /\ Wave' = Wave
        /\ Of("agent-turn")' = Of("agent-turn")
    BY <1>6, OuterKeeps
  <2>2. Healthy' => InWave' = InWave
    BY <1>6, OuterPhase DEF InWave
  <2> QED
    BY <1>0, <1>h, <2>1, <2>2, CostCarried
<1>7. ~Healthy' => SpentInv'
  BY DEF SpentInv
<1> QED
  BY <1>1, <1>2, <1>3, <1>4, <1>5, <1>6, <1>7, StepKinds DEF OuterKind

LEMMA SpentInit == Init => SpentInv
<1> SUFFICES ASSUME Init
             PROVE  SpentInv
  OBVIOUS
<1>1. {j \in Of("agent-turn") : j < Len(events) + 1} = {}
  BY DEF Init, Of
<1>2. TotalBefore(Len(events) + 1) = 0
  BY <1>1 DEF TotalBefore
<1> QED
  BY <1>2 DEF Init, SpentInv, InWave


-----------------------------------------------------------------------------
(* Ranks                                                                   *)

\* The events of a type have the ranks from 1 to their number, each one of its own.
LEMMA NthFacts ==
  ASSUME LogOK, NEW type
  PROVE  /\ Cardinality(Of(type)) \in Nat
         /\ \A k \in Of(type) : Nth(k) \in 1..Cardinality(Of(type))
         /\ \A j, k \in Of(type) : Nth(j) = Nth(k) => j = k
         /\ \A n \in 1..Cardinality(Of(type)) : \E k \in Of(type) : Nth(k) = n
<1> DEFINE All      == Of(type)
           below(k) == {j \in All : j < k}
<1>1. /\ All \subseteq 1..Len(events) /\ Len(events) \in Nat /\ IsFiniteSet(All)
      /\ Cardinality(All) \in Nat
  BY OfFinite, FS_CardinalityType
<1>2. PICK count \in Nat : count = Cardinality(All)
  BY <1>1
<1>3. ASSUME NEW k \in All
      PROVE  Nth(k) = Cardinality(below(k)) + 1
  BY DEF Of, Nth
<1>4. ASSUME NEW S \in SUBSET All
      PROVE  IsFiniteSet(S) /\ Cardinality(S) \in Nat
  BY <1>1, FS_Subset, FS_CardinalityType
<1>5. ASSUME NEW S \in SUBSET All, NEW T \in SUBSET All, NEW j \in T, j \notin S, S \subseteq T
      PROVE  Cardinality(S) < Cardinality(T)
  <2>1. S # T /\ IsFiniteSet(T) /\ Cardinality(S) \in Nat /\ Cardinality(T) \in Nat
    BY <1>4, <1>5
  <2>2. Cardinality(S) <= Cardinality(T) /\ (Cardinality(S) = Cardinality(T) => S = T)
    BY <1>5, <2>1, FS_Subset
  <2> QED
    BY <2>1, <2>2
<1> HIDE DEF All
<1>6. ASSUME NEW j \in All, NEW k \in All, j < k
      PROVE  Nth(j) < Nth(k)
  <2>0. \A i \in All : i \in Int
    BY <1>1
  <2>1. below(j) \in SUBSET All /\ below(k) \in SUBSET All /\ j \in below(k) /\ j \notin below(j)
        /\ below(j) \subseteq below(k)
    BY <1>6, <2>0
  <2>2. Cardinality(below(j)) < Cardinality(below(k))
    BY <1>5, <2>1
  <2>3. Cardinality(below(j)) \in Nat /\ Cardinality(below(k)) \in Nat
    BY <1>4, <2>1
  <2> HIDE DEF below
  <2> QED
    BY <1>3, <2>2, <2>3
<1>7. ASSUME NEW k \in All
      PROVE  Nth(k) \in 1..count
  <2>1. below(k) \in SUBSET All /\ k \in All /\ k \notin below(k) /\ All \in SUBSET All
    BY <1>1
  <2>2. Cardinality(below(k)) < Cardinality(All) /\ Cardinality(below(k)) \in Nat
    BY <1>4, <1>5, <2>1
  <2>3. Nth(k) = Cardinality(below(k)) + 1
    BY <1>3
  <2> HIDE DEF below
  <2> QED
    BY <1>2, <2>2, <2>3
<1>8. ASSUME NEW j \in All, NEW k \in All, Nth(j) = Nth(k)
      PROVE  j = k
  <2>1. j < k \/ k < j \/ j = k
    BY <1>1
  <2>2. Nth(j) \in Nat /\ Nth(k) \in Nat
    BY <1>7
  <2> QED
    BY <1>6, <1>8, <2>1, <2>2
<1>9. ASSUME NEW n \in 1..count
      PROVE  \E k \in All : Nth(k) = n
  <2> DEFINE rank == [k \in All |-> Nth(k)]
  <2>1. rank \in Injection(All, 1..count)
    BY <1>7, <1>8 DEF Injection, IsInjective
  <2>2. IsFiniteSet(1..count) /\ Cardinality(1..count) = count
    BY <1>2, FS_Interval
  <2>3. rank \in Surjection(All, 1..count)
    <3> HIDE DEF rank
    <3> QED
      BY <1>2, <2>1, <2>2, FS_Injection
  <2> QED
    BY <2>3 DEF Surjection
<1> QED
  BY <1>2, <1>7, <1>8, <1>9 DEF All


-----------------------------------------------------------------------------
(* Tools                                                                   *)

Tooled == {"tool", "tool-ended"}

\* The call of a tool, and the return of its result.
LEMMA UseFacts ==
  ASSUME TypeInv, NEW a \in Agents, UseTool(a)
  PROVE  /\ call[a] = "answered" /\ call'[a] \in Tooled \cup {"failed"}
         /\ \A b \in Agents : b # a => call'[b] = call[b]
         /\ \E e : /\ EmitAndRecord(e, NotCounted) /\ e.type = "tool-call" /\ e.agent = a
                   /\ e.call = Cardinality(Of("tool-call")) + 1
<1>0. CallOK
  BY DEF TypeInv
<1> DEFINE e == Event("tool-call", a, ToolCallId, 0, {}, FALSE)
<1>1. e.type = "tool-call" /\ e.agent = a /\ e.call = ToolCallId
  BY DEF Event
<1>2. ToolCallId = Cardinality(Of("tool-call")) + 1
  BY DEF ToolCallId, Of
<1>3. EmitAndRecord(e, NotCounted) /\ call[a] = "answered"
  BY DEF UseTool
<1> HIDE DEF e
<1>4. call'[a] \in Tooled \cup {"failed"} /\ \A b \in Agents : b # a => call'[b] = call[b]
  BY <1>0 DEF UseTool, CallOK, Tooled
<1> QED
  BY <1>1, <1>2, <1>3, <1>4

LEMMA ReturnFacts ==
  ASSUME TypeInv, NEW a \in Agents, ToolReturns(a)
  PROVE  /\ call[a] = "tool-ended" /\ call'[a] = "answered"
         /\ \A b \in Agents : b # a => call'[b] = call[b]
         /\ \E e : /\ EmitAndRecord(e, NotCounted) /\ e.type = "tool-result" /\ e.agent = a
                   /\ e.call = ToolCalledAs(a)
<1>0. CallOK
  BY DEF TypeInv
<1> DEFINE e == Event("tool-result", a, ToolCalledAs(a), 0, {toolResult[a]}, FALSE)
<1>1. e.type = "tool-result" /\ e.agent = a /\ e.call = ToolCalledAs(a)
  BY DEF Event
<1>2. EmitAndRecord(e, NotCounted) /\ call[a] = "tool-ended"
  BY DEF ToolReturns
<1> HIDE DEF e
<1>3. call'[a] = "answered" /\ \A b \in Agents : b # a => call'[b] = call[b]
  BY <1>0 DEF ToolReturns, CallOK
<1> QED
  BY <1>1, <1>2, <1>3

\* The other steps of a turn neither call a tool nor return its result.
LEMMA OtherTurns ==
  ASSUME TypeInv, NEW a \in Agents, Turn(a), ~UseTool(a), ~ToolReturns(a)
  PROVE  /\ UNCHANGED decisions
         /\ Of("tool-call")' = Of("tool-call") /\ Of("tool-result")' = Of("tool-result")
         /\ call[a] \in Tooled <=> call'[a] \in Tooled
         /\ call[a] # "failed"
         /\ \A b \in Agents : b # a => call'[b] = call[b]
         /\ Adds({"model-output-chunk", "model-response"}, Agents)
<1>0. CallOK /\ LogOK /\ RunOK
  BY DEF TypeInv
<1>a. Adds({"model-output-chunk", "model-response"}, Agents) /\ UNCHANGED decisions
  <2> USE DEF Adds, Log, Emit, Event, Plain
  <2>1. CASE Chunk(a) \/ ProviderFails(a)
    BY <2>1 DEF Chunk, ProviderFails
  <2>2. CASE Answer(a)
    BY <2>2 DEF Answer
  <2>3. CASE ToolEnds(a) \/ ToolIsAborted(a) \/ ToolTimesOut(a) \/ TurnEnds(a)
    BY <2>3 DEF ToolEnds, ToolIsAborted, ToolTimesOut, ToolEndsWith, TurnEnds
  <2> QED
    BY <2>1, <2>2, <2>3 DEF Turn
<1>b. Of("tool-call")' = Of("tool-call") /\ Of("tool-result")' = Of("tool-result")
  BY <1>0, <1>a, OfKept
<1>c. /\ call[a] \in Tooled <=> call'[a] \in Tooled
      /\ call[a] # "failed"
  <2>1. CASE Chunk(a) \/ ProviderFails(a)
    BY <1>0, <2>1 DEF Chunk, ProviderFails, CallOK, Tooled
  <2>2. CASE Answer(a)
    BY <2>2, AnswerFacts DEF Tooled
  <2>3. CASE ToolEnds(a) \/ ToolIsAborted(a) \/ ToolTimesOut(a)
    BY <1>0, <2>3 DEF ToolEnds, ToolIsAborted, ToolTimesOut, ToolEndsWith, CallOK, Tooled
  <2>4. CASE TurnEnds(a)
    BY <1>0, <2>4 DEF TurnEnds, CallOK, Tooled
  <2> QED
    BY <2>1, <2>2, <2>3, <2>4 DEF Turn
<1>d. \A b \in Agents : b # a => call'[b] = call[b]
  BY <1>0, TurnMoves
<1> QED
  BY <1>a, <1>b, <1>c, <1>d

LEMMA ResultKept ==
  ASSUME TypeInv, [Next]_vars, NEW k \in Of("tool-call"), ToolResult(k)
  PROVE  ToolResult(k)'
<1>1. PICK r \in Of("tool-result") :
        r > k /\ events[r].call = events[k].call /\ events[r].agent = events[k].agent
  BY DEF ToolResult
<1>2. events'[r] = events[r] /\ events'[k] = events[k] /\ r \in Of("tool-result")'
  BY <1>1, PlacesKept
<1> QED
  BY <1>1, <1>2 DEF ToolResult

\* Steps that neither call a tool nor return its result.
LEMMA ToolsCarried ==
  ASSUME TypeInv, ToolInv, [Next]_vars, Healthy' => Healthy,
         Of("tool-call")' = Of("tool-call"), Of("tool-result")' = Of("tool-result"),
         Agents' = Agents,
         Healthy' =>
           /\ \A b \in Agents : call'[b] \in Tooled => call[b] \in Tooled
           /\ \/ ~InWave \/ \A b \in Wave : call[b] = "done"
              \/ /\ InWave' /\ Wave' = Wave
                 /\ \A b \in Wave : /\ call[b] \in Tooled => call'[b] \in Tooled
                                    /\ call[b] = "failed" => call'[b] = "failed"
  PROVE  ToolInv'
<1> DEFINE Calls   == Of("tool-call")
           Results == Of("tool-result")
<1>0. /\ \A k \in Calls : events'[k] = events[k] /\ Nth(k)' = Nth(k)
      /\ \A r \in Results : events'[r] = events[r]
  BY PlacesKept, RanksKept
<1>1. \A k \in Calls : events'[k].call = Nth(k)'
  BY <1>0 DEF ToolInv
<1> SUFFICES ASSUME Healthy'
             PROVE  ToolInv'
  BY <1>1 DEF ToolInv
<1>2. ASSUME NEW k \in Calls
      PROVE  \/ ToolResult(k)'
             \/ InWave' /\ \E a \in Wave' : call'[a] \in Tooled /\ LastBy("tool-call", a, k)'
             \/ InWave' /\ \E a \in Wave' : call'[a] = "failed"
  <2>1. CASE ToolResult(k)
    BY <1>2, <2>1, ResultKept
  <2>2. ASSUME NEW a \in Wave, InWave, call[a] \in Tooled, LastBy("tool-call", a, k)
        PROVE  InWave' /\ Wave' = Wave /\ call'[a] \in Tooled /\ LastBy("tool-call", a, k)'
    BY <2>2, LastByKept DEF Tooled
  <2>3. ASSUME NEW a \in Wave, InWave, call[a] = "failed"
        PROVE  InWave' /\ Wave' = Wave /\ call'[a] = "failed"
    BY <2>3
  <2> QED
    BY <2>1, <2>2, <2>3 DEF ToolInv, Tooled
<1>3. \A r \in Results : \E k \in Calls : events'[k].call = events'[r].call
  BY <1>0 DEF ToolInv
<1>4. \A r, s \in Results : events'[r].call = events'[s].call => r = s
  BY <1>0 DEF ToolInv
<1>5. ASSUME NEW a \in Agents, call'[a] \in Tooled
      PROVE  \E k \in DOMAIN events' : /\ LastBy("tool-call", a, k)'
                                       /\ \A r \in Results : events'[r].call # events'[k].call
  <2>1. PICK k \in DOMAIN events : /\ LastBy("tool-call", a, k)
                                   /\ \A r \in Results : events[r].call # events[k].call
    BY <1>5 DEF ToolInv, Tooled
  <2>2. LastBy("tool-call", a, k)' /\ k \in DOMAIN events' /\ events'[k] = events[k]
    BY <2>1, LastByKept
  <2> QED
    BY <1>0, <2>1, <2>2
<1> QED
  BY <1>1, <1>2, <1>3, <1>4, <1>5 DEF ToolInv, Tooled


LEMMA UseToolStep ==
  ASSUME TypeInv, WaveInv, ToolInv, [Next]_vars, Healthy' => Healthy,
         NEW a \in Agents, UseTool(a), Turn(a)
  PROVE  ToolInv'
<1> DEFINE Calls   == Of("tool-call")
           Results == Of("tool-result")
<1>0. LogOK /\ CallOK /\ RunOK
  BY DEF TypeInv
<1>1. /\ call[a] = "answered" /\ call'[a] \in Tooled \cup {"failed"}
      /\ \A b \in Agents : b # a => call'[b] = call[b]
  BY UseFacts
<1>2. PICK e : /\ events' = Append(events, e) /\ e.type = "tool-call" /\ e.agent = a
               /\ e.call = Cardinality(Calls) + 1
  BY UseFacts DEF EmitAndRecord
<1>3. PICK new \in Nat :
        /\ events'[new] = e /\ Calls' = Calls \cup {new}
        /\ Nth(new)' = Cardinality(Calls) + 1
        /\ \A type : \A k \in Of(type) : k < new
        /\ new \in DOMAIN events'
  BY <1>0, <1>2, AppendedPlace
<1>4. Results' = Results
  <2>1. Adds({"tool-call"}, {a})
    BY <1>2 DEF Adds
  <2> QED
    BY <1>0, <2>1, OfKept
<1>5. /\ \A k \in Calls : events'[k] = events[k] /\ Nth(k)' = Nth(k)
      /\ \A r \in Results : events'[r] = events[r]
  BY PlacesKept, RanksKept
<1>6. \A k \in Calls' : events'[k].call = Nth(k)'
  <2>1. \A k \in Calls : events'[k].call = Nth(k)'
    BY <1>5 DEF ToolInv
  <2> QED
    BY <1>2, <1>3, <2>1
<1> SUFFICES ASSUME Healthy'
             PROVE  ToolInv'
  BY <1>6 DEF ToolInv
<1>7. InWave /\ InWave' /\ a \in Wave /\ Wave' = Wave /\ Agents' = Agents /\ Wave \subseteq Agents
  <2>1. phase = "turns" /\ a \in Wave /\ phase' = phase /\ Wave' = Wave /\ Agents' = Agents
    BY <1>0, TurnInWave
  <2> QED
    BY <1>0, <2>1, WaveInAgents DEF InWave, TypeInv
<1>8. /\ LastBy("tool-call", a, new)'
      /\ \A b, k : b # a /\ LastBy("tool-call", b, k) =>
           LastBy("tool-call", b, k)' /\ k \in DOMAIN events' /\ events'[k] = events[k]
  BY <1>2, <1>3, LastByAppended
<1>9. ASSUME NEW r \in Results
      PROVE  events[r].call # events'[new].call
  <2>1. PICK k \in Calls : events[k].call = events[r].call
    BY DEF ToolInv
  <2>2. Nth(k) \in 1..Cardinality(Calls) /\ events[k].call = Nth(k) /\ Cardinality(Calls) \in Nat
    BY <1>0, NthFacts DEF ToolInv
  <2> QED
    BY <1>2, <1>3, <2>1, <2>2
<1>10. ASSUME NEW k \in Calls
       PROVE  \/ ToolResult(k)'
              \/ \E b \in Wave : call'[b] \in Tooled /\ LastBy("tool-call", b, k)'
              \/ \E b \in Wave : call'[b] = "failed"
  <2>1. CASE ToolResult(k)
    BY <2>1, ResultKept
  <2>2. ASSUME NEW b \in Wave, call[b] \in Tooled, LastBy("tool-call", b, k)
        PROVE  call'[b] \in Tooled /\ LastBy("tool-call", b, k)'
    BY <1>1, <1>7, <1>8, <2>2 DEF Tooled
  <2>3. ASSUME NEW b \in Wave, call[b] = "failed"
        PROVE  call'[b] = "failed"
    BY <1>1, <1>7, <2>3
  <2> QED
    BY <2>1, <2>2, <2>3 DEF ToolInv, Tooled
<1>11. \/ \E b \in Wave : call'[b] \in Tooled /\ LastBy("tool-call", b, new)'
       \/ \E b \in Wave : call'[b] = "failed"
  BY <1>1, <1>7, <1>8
<1>12. \A r \in Results : \E k \in Calls' : events'[k].call = events'[r].call
  BY <1>3, <1>5 DEF ToolInv
<1>13. \A r, s \in Results : events'[r].call = events'[s].call => r = s
  BY <1>5 DEF ToolInv
<1>14. ASSUME NEW b \in Agents, call'[b] \in Tooled
       PROVE  \E k \in DOMAIN events' : /\ LastBy("tool-call", b, k)'
                                        /\ \A r \in Results : events'[r].call # events'[k].call
  <2>1. CASE b = a
    BY <1>3, <1>5, <1>8, <1>9, <2>1
  <2>2. CASE b # a
    <3>1. PICK k \in DOMAIN events : /\ LastBy("tool-call", b, k)
                                     /\ \A r \in Results : events[r].call # events[k].call
      BY <1>1, <1>14, <2>2 DEF ToolInv, Tooled
    <3> QED
      BY <1>5, <1>8, <2>2, <3>1
  <2> QED
    BY <2>1, <2>2
<1>15. \A k \in Calls' : \/ ToolResult(k)'
                         \/ \E b \in Wave : call'[b] \in Tooled /\ LastBy("tool-call", b, k)'
                         \/ \E b \in Wave : call'[b] = "failed"
  BY <1>3, <1>10, <1>11
<1> HIDE DEF Calls, Results
<1> QED
  BY <1>4, <1>6, <1>7, <1>12, <1>13, <1>14, <1>15 DEF ToolInv, Tooled, Calls, Results

LEMMA ReturnStep ==
  ASSUME TypeInv, WaveInv, ToolInv, [Next]_vars, Healthy' => Healthy,
         NEW a \in Agents, ToolReturns(a), Turn(a)
  PROVE  ToolInv'
<1> DEFINE Calls   == Of("tool-call")
           Results == Of("tool-result")
<1>0. LogOK /\ CallOK /\ RunOK
  BY DEF TypeInv
<1>1. /\ call[a] = "tool-ended" /\ call'[a] = "answered"
      /\ \A b \in Agents : b # a => call'[b] = call[b]
  BY ReturnFacts
<1>2. PICK e : /\ events' = Append(events, e) /\ e.type = "tool-result" /\ e.agent = a
               /\ e.call = ToolCalledAs(a)
  BY ReturnFacts DEF EmitAndRecord
<1>3. PICK new \in Nat :
        /\ events'[new] = e /\ Results' = Results \cup {new}
        /\ \A type : \A k \in Of(type) : k < new
        /\ new \in DOMAIN events'
  BY <1>0, <1>2, AppendedPlace
<1>4. Calls' = Calls
  <2>1. Adds({"tool-result"}, {a})
    BY <1>2 DEF Adds
  <2> QED
    BY <1>0, <2>1, OfKept
<1>5. /\ \A k \in Calls : events'[k] = events[k] /\ Nth(k)' = Nth(k)
      /\ \A r \in Results : events'[r] = events[r]
  BY PlacesKept, RanksKept
<1>6. \A k \in Calls : events'[k].call = Nth(k)'
  BY <1>5 DEF ToolInv
<1> SUFFICES ASSUME Healthy'
             PROVE  ToolInv'
  BY <1>4, <1>6 DEF ToolInv
<1>7. InWave /\ InWave' /\ a \in Wave /\ Wave' = Wave /\ Agents' = Agents /\ Wave \subseteq Agents
  <2>1. phase = "turns" /\ a \in Wave /\ phase' = phase /\ Wave' = Wave /\ Agents' = Agents
    BY <1>0, TurnInWave
  <2> QED
    BY <1>0, <2>1, WaveInAgents DEF InWave, TypeInv
<1>8. PICK p \in Calls : /\ LastBy("tool-call", a, p)
                         /\ \A r \in Results : events[r].call # events[p].call
                         /\ events[p].agent = a
  BY <1>1 DEF ToolInv, LastBy
<1>9. e.call = events[p].call
  BY <1>2, <1>8, LatestIsLast DEF ToolCalledAs
<1>10. ASSUME NEW k, LastBy("tool-call", a, k)
       PROVE  k = p
  <2>1. k <= p /\ p <= k /\ k \in Calls
    BY <1>8, <1>10 DEF LastBy
  <2>2. Calls \subseteq 1..Len(events)
    BY PlacesKept
  <2> QED
    BY <2>1, <2>2
<1>11. ToolResult(p)'
  <2>1. new \in Results' /\ new > p /\ p \in Nat
    <3>1. Calls \subseteq 1..Len(events) /\ Len(events) \in Nat
      BY PlacesKept
    <3> QED
      BY <1>3, <3>1
  <2>2. events'[new].call = events'[p].call /\ events'[new].agent = events'[p].agent
    BY <1>2, <1>3, <1>5, <1>8, <1>9
  <2> QED
    BY <2>1, <2>2 DEF ToolResult
<1>12. ASSUME NEW k \in Calls
       PROVE  \/ ToolResult(k)'
              \/ \E b \in Wave : call'[b] \in Tooled /\ LastBy("tool-call", b, k)'
              \/ \E b \in Wave : call'[b] = "failed"
  <2>1. CASE ToolResult(k)
    BY <2>1, ResultKept
  <2>2. ASSUME NEW b \in Wave, call[b] \in Tooled, LastBy("tool-call", b, k)
        PROVE  \/ ToolResult(k)'
               \/ call'[b] \in Tooled /\ LastBy("tool-call", b, k)'
    <3>1. CASE b = a
      BY <1>10, <1>11, <2>2, <3>1
    <3>2. CASE b # a
      BY <1>1, <1>4, <1>7, <2>2, <3>2, LastByKept
    <3> QED
      BY <3>1, <3>2
  <2>3. ASSUME NEW b \in Wave, call[b] = "failed"
        PROVE  call'[b] = "failed"
    BY <1>1, <1>7, <2>3
  <2> QED
    BY <2>1, <2>2, <2>3 DEF ToolInv, Tooled
<1>13. \A r \in Results' : \E k \in Calls : events'[k].call = events'[r].call
  <2>1. \A r \in Results : \E k \in Calls : events'[k].call = events'[r].call
    BY <1>5 DEF ToolInv
  <2> QED
    BY <1>3, <1>5, <1>9, <2>1
<1>14. \A r, s \in Results' : events'[r].call = events'[s].call => r = s
  <2>1. \A r, s \in Results : events'[r].call = events'[s].call => r = s
    BY <1>5 DEF ToolInv
  <2>2. \A r \in Results : events'[r].call # events'[new].call
    BY <1>3, <1>5, <1>8, <1>9
  <2> QED
    BY <1>3, <2>1, <2>2
<1>15. ASSUME NEW b \in Agents, call'[b] \in Tooled
       PROVE  \E k \in DOMAIN events' : /\ LastBy("tool-call", b, k)'
                                        /\ \A r \in Results' : events'[r].call # events'[k].call
  <2>1. b # a /\ call[b] \in Tooled
    BY <1>1, <1>15 DEF Tooled
  <2>2. PICK k \in DOMAIN events : /\ LastBy("tool-call", b, k)
                                   /\ \A r \in Results : events[r].call # events[k].call
    BY <2>1 DEF ToolInv, Tooled
  <2>3. LastBy("tool-call", b, k)' /\ k \in DOMAIN events' /\ events'[k] = events[k]
    BY <1>4, <2>2, LastByKept
  <2>4. events[k].call # events[p].call
    <3>1. k # p /\ k \in Calls
      BY <1>8, <2>1, <2>2 DEF LastBy
    <3>2. Nth(k) # Nth(p)
      BY <1>0, <3>1, NthFacts
    <3> QED
      BY <3>1, <3>2 DEF ToolInv
  <2> QED
    BY <1>3, <1>5, <1>9, <2>2, <2>3, <2>4
<1> HIDE DEF Calls, Results
<1> QED
  BY <1>4, <1>6, <1>7, <1>12, <1>13, <1>14, <1>15 DEF ToolInv, Tooled, Calls, Results

LEMMA ToolStep ==
  ASSUME TypeInv, WaveInv, ToolInv, [Next]_vars
  PROVE  ToolInv'
<1>0. /\ conf' = conf /\ RunOK /\ LogOK /\ CallOK /\ FlagsOK
      /\ Agents' = Agents /\ Parallel' = Parallel
      /\ phase \in {"ask", "turns"} => Wave \subseteq Agents
  BY ConfKept, OptionsKept, WaveInAgents DEF TypeInv
<1>h. Healthy' => Healthy
  BY UnhealthyStays
<1>1. CASE Start \/ Final
  <2>1. call' = call /\ ~InWave
        /\ Of("tool-call")' = Of("tool-call") /\ Of("tool-result")' = Of("tool-result")
    BY <1>1, EndFacts DEF InWave
  <2> QED
    BY <1>0, <1>h, <2>1, ToolsCarried
<1>2. CASE Check
  <2>1. /\ ~InWave /\ \A b \in Agents : call'[b] \notin Tooled
        /\ Of("tool-call")' = Of("tool-call") /\ Of("tool-result")' = Of("tool-result")
    BY <1>2, CheckFacts DEF InWave, Tooled
  <2> QED
    BY <1>0, <1>h, <2>1, ToolsCarried
<1>3. ASSUME NEW a \in Agents, Ask(a)
      PROVE  ToolInv'
  <2>1. Of("tool-call")' = Of("tool-call") /\ Of("tool-result")' = Of("tool-result")
    <3>1. Adds({"model-request"}, {a})
      BY <1>3, SmallSteps
    <3> QED
      BY <1>0, <3>1, OfKept
  <2>2. InWave /\ InWave' /\ Wave' = Wave /\ Wave \subseteq Agents
        /\ call[a] = "idle" /\ call'[a] \in {"called", "failed"}
        /\ \A b \in Agents : b # a => call'[b] = call[b]
    BY <1>0, <1>3, AskEvent DEF InWave
  <2>3. /\ \A b \in Agents : call'[b] \in Tooled => call[b] \in Tooled
        /\ \A b \in Wave : /\ call[b] \in Tooled => call'[b] \in Tooled
                           /\ call[b] = "failed" => call'[b] = "failed"
    BY <2>2 DEF Tooled
  <2> QED
    BY <1>0, <1>h, <2>1, <2>2, <2>3, ToolsCarried
<1>4. ASSUME NEW a \in Agents, Turn(a)
      PROVE  ToolInv'
  <2>1. CASE UseTool(a)
    BY <1>4, <1>h, <2>1, UseToolStep
  <2>2. CASE ToolReturns(a)
    BY <1>4, <1>h, <2>2, ReturnStep
  <2>3. CASE ~UseTool(a) /\ ~ToolReturns(a)
    <3>1. /\ Of("tool-call")' = Of("tool-call") /\ Of("tool-result")' = Of("tool-result")
          /\ call[a] \in Tooled <=> call'[a] \in Tooled
          /\ call[a] # "failed"
          /\ \A b \in Agents : b # a => call'[b] = call[b]
      BY <1>4, <2>3, OtherTurns
    <3>2. Healthy' => InWave /\ InWave' /\ Wave' = Wave /\ Wave \subseteq Agents
      BY <1>0, <1>4, <1>h, TurnInWave DEF InWave
    <3>3. \A b \in Agents : /\ call'[b] \in Tooled <=> call[b] \in Tooled
                            /\ call[b] = "failed" => call'[b] = "failed"
      BY <3>1
    <3> QED
      BY <1>0, <1>h, <3>1, <3>2, <3>3, ToolsCarried
  <2> QED
    BY <2>1, <2>2, <2>3
<1>5. CASE Record
  <2>1. PICK n \in Nat : RecordStep(n)
    BY <1>0, <1>5, RecordSteps
  <2>2. Of("tool-call")' = Of("tool-call") /\ Of("tool-result")' = Of("tool-result")
    BY <1>0, <2>1, RecordOf
  <2>3. UNCHANGED call /\ \A a \in Wave : call[a] = "done"
    BY <2>1 DEF RecordStep, WaveVars, WaveDone
  <2> QED
    BY <1>0, <1>h, <2>2, <2>3, ToolsCarried
<1>6. CASE OuterKind
  <2>1. /\ Of("tool-call")' = Of("tool-call") /\ Of("tool-result")' = Of("tool-result")
        /\ UNCHANGED call /\ Wave' = Wave
    BY <1>6, OuterKeeps
  <2>2. Healthy' => InWave' = InWave
    BY <1>6, OuterPhase DEF InWave
  <2> QED
    BY <1>0, <1>h, <2>1, <2>2, ToolsCarried
<1> QED
  BY <1>1, <1>2, <1>3, <1>4, <1>5, <1>6, StepKinds DEF OuterKind

LEMMA ToolsInit == Init => ToolInv
BY DEF Init, ToolInv, Of


-----------------------------------------------------------------------------
(* Decisions                                                               *)

\* The events that the trace keeps no decision about.
Silent == Provenance \cup {"model-output-chunk"}

\* The turns before a place that is in the log, or the next one.
LEMMA BeforeKept ==
  ASSUME TypeInv, [Next]_vars, NEW k \in 1..(Len(events) + 1)
  PROVE  TurnsBefore(k)' = TurnsBefore(k)
<1>1. {j \in Of("agent-turn")' : j < k} = {j \in Of("agent-turn") : j < k}
  BY PlacesKept
<1> QED
  BY <1>1 DEF TurnsBefore

\* A decision stays right as the log grows.
LEMMA DecisionKept ==
  ASSUME TypeInv, DecisionInv, [Next]_vars, NEW k \in DOMAIN decisions
  PROVE  /\ decisions[k].index \in 1..Len(events) /\ decisions[k].index \in DOMAIN events'
         /\ events'[decisions[k].index] = events[decisions[k].index]
         /\ decisions[k].type = events[decisions[k].index].type
         /\ decisions[k].type = "agent-turn" <=> decisions[k].turn # 0
         /\ \E next \in Nat :
              /\ next = decisions[k].index + 1
              /\ decisions[k].turn # 0 => decisions[k].turn = TurnsBefore(next)'
              /\ decisions[k].entries # NotCounted => decisions[k].entries = TurnsBefore(next)'
<1> DEFINE d == decisions[k]
<1>1. /\ Len(events) \in Nat /\ Len(events') \in Nat /\ Len(events) <= Len(events')
      /\ DOMAIN events = 1..Len(events) /\ DOMAIN events' = 1..Len(events')
      /\ \A j \in 1..Len(events) : events'[j] = events[j]
  BY PlacesKept
<1>2. PICK i \in 1..Len(events) : i = d.index
  BY <1>1 DEF DecisionInv
<1>3. PICK next \in 1..(Len(events) + 1) : next = i + 1
  BY <1>1
<1>4. /\ d.type = events[i].type
      /\ d.type = "agent-turn" <=> d.turn # 0
      /\ d.turn # 0 => d.turn = TurnsBefore(next)
      /\ d.entries # NotCounted => d.entries = TurnsBefore(next)
  BY <1>2, <1>3 DEF DecisionInv, DecisionsAgree
<1>5. TurnsBefore(next)' = TurnsBefore(next)
  BY BeforeKept
<1>6. next \in Nat /\ next = d.index + 1
  BY <1>1, <1>2, <1>3
<1> QED
  BY <1>1, <1>2, <1>4, <1>5, <1>6

\* What the decisions of the next state have to say.
LEMMA AgreesNext ==
  ASSUME \A k \in DOMAIN decisions' :
           /\ decisions'[k].type = events'[decisions'[k].index].type
           /\ decisions'[k].type = "agent-turn" <=> decisions'[k].turn # 0
           /\ \E next \in Nat :
                /\ next = decisions'[k].index + 1
                /\ decisions'[k].turn # 0 => decisions'[k].turn = TurnsBefore(next)'
                /\ decisions'[k].entries # NotCounted =>
                     decisions'[k].entries = TurnsBefore(next)',
         \A k \in DOMAIN decisions' : k > 1 => decisions'[k - 1].index < decisions'[k].index,
         {decisions'[k].index : k \in DOMAIN decisions'}
           = {k \in DOMAIN events' : events'[k].type \notin Silent}
  PROVE  DecisionsAgree'
<1>1. ASSUME NEW k \in DOMAIN decisions'
      PROVE  /\ decisions'[k].type = events'[decisions'[k].index].type
             /\ decisions'[k].type = "agent-turn" <=> decisions'[k].turn # 0
             /\ decisions'[k].turn # 0 =>
                  decisions'[k].turn = TurnsBefore(decisions[k].index + 1)'
             /\ decisions'[k].entries # NotCounted =>
                  decisions'[k].entries = TurnsBefore(decisions[k].index + 1)'
  <2>1. PICK next \in Nat :
          /\ next = decisions'[k].index + 1
          /\ decisions'[k].turn # 0 => decisions'[k].turn = TurnsBefore(next)'
          /\ decisions'[k].entries # NotCounted => decisions'[k].entries = TurnsBefore(next)'
    OBVIOUS
  <2>2. TurnsBefore(decisions[k].index + 1)' = TurnsBefore(next)'
    BY <2>1 DEF TurnsBefore
  <2> QED
    BY <2>1, <2>2
<1> QED
  BY <1>1 DEF DecisionsAgree, Silent

LEMMA DecisionsSame ==
  ASSUME TypeInv, DecisionInv, [Next]_vars, UNCHANGED decisions,
         phase' = "setup" => phase = "setup",
         \A e \in Added(events', events) : e.type \in Silent
  PROVE  DecisionInv'
<1>1. /\ Len(events) \in Nat /\ Len(events') \in Nat /\ Len(events) <= Len(events')
      /\ DOMAIN events = 1..Len(events) /\ DOMAIN events' = 1..Len(events')
      /\ \A j \in 1..Len(events) : events'[j] = events[j]
  BY PlacesKept
<1>2. \A j \in (Len(events) + 1)..Len(events') : events'[j].type \in Silent
  BY DEF Added
<1>3. {j \in DOMAIN events' : events'[j].type \notin Silent}
        = {j \in DOMAIN events : events[j].type \notin Silent}
  BY <1>1, <1>2
<1>4. {decisions[k].index : k \in DOMAIN decisions}
        = {j \in DOMAIN events : events[j].type \notin Silent}
  BY DEF DecisionInv, DecisionsAgree, Silent
<1>5. \A k \in DOMAIN decisions : k > 1 => decisions[k - 1].index < decisions[k].index
  BY DEF DecisionInv, DecisionsAgree
<1>6. DecisionsAgree'
  <2>1. ASSUME NEW k \in DOMAIN decisions'
        PROVE  /\ decisions'[k].type = events'[decisions'[k].index].type
               /\ decisions'[k].type = "agent-turn" <=> decisions'[k].turn # 0
               /\ \E next \in Nat :
                    /\ next = decisions'[k].index + 1
                    /\ decisions'[k].turn # 0 => decisions'[k].turn = TurnsBefore(next)'
                    /\ decisions'[k].entries # NotCounted =>
                         decisions'[k].entries = TurnsBefore(next)'
    BY DecisionKept
  <2> QED
    BY <1>3, <1>4, <1>5, <2>1, AgreesNext DEF Silent
<1>7. \A k \in DOMAIN decisions : decisions[k].index \in DOMAIN events'
  BY DecisionKept
<1> QED
  BY <1>6, <1>7 DEF DecisionInv

\* Each event that is added has its decision.
LEMMA DecisionsGrow ==
  ASSUME TypeInv, DecisionInv, [Next]_vars, NEW m \in Nat, phase' # "setup",
         Len(events') = Len(events) + m,
         Extends(decisions', decisions), Len(decisions') = Len(decisions) + m,
         \A j \in 1..m :
           LET d == decisions'[Len(decisions) + j]
               e == events'[Len(events) + j]
           IN  /\ d.index = Len(events) + j /\ d.type = e.type /\ e.type \notin Silent
               /\ d.type = "agent-turn" <=> d.turn # 0
               /\ \E next \in Nat :
                    /\ next = Len(events) + j + 1
                    /\ d.turn # 0 => d.turn = TurnsBefore(next)'
                    /\ d.entries # NotCounted => d.entries = TurnsBefore(next)'
  PROVE  DecisionInv'
<1>1. /\ Len(events) \in Nat /\ DOMAIN events = 1..Len(events) /\ DOMAIN events' = 1..Len(events')
      /\ \A j \in 1..Len(events) : events'[j] = events[j]
  BY PlacesKept
<1>2. /\ Len(decisions) \in Nat /\ DOMAIN decisions = 1..Len(decisions)
      /\ IsSeq(decisions') /\ DOMAIN decisions' = 1..Len(decisions')
      /\ \A k \in 1..Len(decisions) : decisions'[k] = decisions[k]
  BY SeqFacts DEF DecisionInv, Extends
<1>3. PICK len \in Nat : len = Len(events)
  BY <1>1
<1>4. PICK old \in Nat : old = Len(decisions)
  BY <1>2
<1> DEFINE Right(d) == /\ d.index \in DOMAIN events'
                       /\ d.type = events'[d.index].type
                       /\ d.type = "agent-turn" <=> d.turn # 0
                       /\ \E next \in Nat :
                            /\ next = d.index + 1
                            /\ d.turn # 0 => d.turn = TurnsBefore(next)'
                            /\ d.entries # NotCounted => d.entries = TurnsBefore(next)'
<1>5. ASSUME NEW j \in 1..m
      PROVE  /\ old + j \in DOMAIN decisions' /\ Right(decisions'[old + j])
             /\ decisions'[old + j].index = len + j /\ events'[len + j].type \notin Silent
  <2>1. len + j \in DOMAIN events' /\ old + j \in DOMAIN decisions'
    BY <1>1, <1>2, <1>3, <1>4
  <2> QED
    BY <1>3, <1>4, <2>1
<1>6. ASSUME NEW k \in 1..old
      PROVE  /\ Right(decisions'[k]) /\ decisions'[k] = decisions[k]
             /\ decisions[k].index \in 1..len
  <2>1. k \in DOMAIN decisions /\ decisions'[k] = decisions[k]
    BY <1>2, <1>4
  <2> QED
    BY <1>3, <2>1, DecisionKept
<1>7. ASSUME NEW k \in DOMAIN decisions'
      PROVE  k \in 1..old \/ \E j \in 1..m : k = old + j
  <2>1. k \notin 1..old => k - old \in 1..m /\ k = old + (k - old)
    BY <1>2, <1>4
  <2> QED
    BY <2>1
<1>8. \A k \in DOMAIN decisions' : Right(decisions'[k])
  <2> HIDE DEF Right
  <2> QED
    BY <1>5, <1>6, <1>7
<1>9. ASSUME NEW k \in DOMAIN decisions', k > 1
      PROVE  decisions'[k - 1].index < decisions'[k].index
  <2> HIDE DEF Right
  <2>1. CASE k \in 1..old
    <3>1. k - 1 \in 1..old /\ k \in DOMAIN decisions
      BY <1>2, <1>4, <1>9, <2>1
    <3>2. decisions[k - 1].index < decisions[k].index
      BY <1>9, <3>1 DEF DecisionInv, DecisionsAgree
    <3> QED
      BY <1>6, <2>1, <3>1, <3>2
  <2>2. ASSUME NEW j \in 1..m, k = old + j
        PROVE  decisions'[k - 1].index < decisions'[k].index
    <3>1. CASE j = 1
      <4>1. k - 1 \in 1..old
        BY <1>9, <2>2, <3>1
      <4>2. decisions'[k - 1].index \in 1..len
        BY <1>6, <4>1
      <4>3. decisions'[k].index = len + j
        BY <1>5, <2>2
      <4> QED
        BY <4>2, <4>3
    <3>2. CASE j # 1
      <4>1. PICK i \in 1..m : i = j - 1
        BY <3>2
      <4>2. k - 1 = old + i
        BY <2>2, <4>1
      <4>3. decisions'[old + i].index = len + i
        BY <1>5
      <4>4. decisions'[old + j].index = len + j
        BY <1>5
      <4> QED
        BY <2>2, <4>1, <4>2, <4>3, <4>4
    <3> QED
      BY <3>1, <3>2
  <2> QED
    BY <1>7, <2>1, <2>2
<1>10. {decisions'[k].index : k \in DOMAIN decisions'}
         = {j \in DOMAIN events' : events'[j].type \notin Silent}
  <2> HIDE DEF Right
  <2>0. {decisions[k].index : k \in DOMAIN decisions}
          = {j \in DOMAIN events : events[j].type \notin Silent}
    BY DEF DecisionInv, DecisionsAgree, Silent
  <2>1. ASSUME NEW k \in DOMAIN decisions'
        PROVE  /\ decisions'[k].index \in DOMAIN events'
               /\ events'[decisions'[k].index].type \notin Silent
    <3>1. CASE k \in 1..old
      <4>1. k \in DOMAIN decisions /\ decisions'[k] = decisions[k] /\ decisions[k].index \in 1..len
        BY <1>2, <1>4, <1>6, <3>1
      <4>2. decisions[k].index \in DOMAIN events /\ events[decisions[k].index].type \notin Silent
        BY <2>0, <4>1
      <4>3. len <= Len(events')
        BY <1>3
      <4> QED
        BY <1>1, <1>3, <4>1, <4>2, <4>3
    <3>2. ASSUME NEW j \in 1..m, k = old + j
          PROVE  /\ decisions'[k].index \in DOMAIN events'
                 /\ events'[decisions'[k].index].type \notin Silent
      <4>1. decisions'[k].index = len + j /\ events'[len + j].type \notin Silent
        BY <1>5, <3>2
      <4> QED
        BY <1>1, <1>3, <4>1
    <3> QED
      BY <1>7, <3>1, <3>2
  <2>2. ASSUME NEW i \in DOMAIN events', events'[i].type \notin Silent
        PROVE  \E k \in DOMAIN decisions' : decisions'[k].index = i
    <3>1. CASE i \in 1..len
      <4>1. i \in DOMAIN events /\ events[i].type \notin Silent
        BY <1>1, <1>3, <2>2, <3>1
      <4>2. PICK k \in DOMAIN decisions : decisions[k].index = i
        BY <2>0, <4>1
      <4>3. k \in DOMAIN decisions' /\ decisions'[k] = decisions[k]
        BY <1>2, <4>2
      <4> QED
        BY <4>2, <4>3
    <3>2. CASE i \notin 1..len
      <4>1. PICK j \in 1..m : i = len + j
        <5>1. i - len \in 1..m /\ i = len + (i - len)
          BY <1>1, <1>3, <3>2
        <5> QED
          BY <5>1
      <4> QED
        BY <1>5, <4>1
    <3> QED
      BY <3>1, <3>2
  <2> QED
    BY <2>1, <2>2
<1>11. DecisionsAgree'
  BY <1>8, <1>9, <1>10, AgreesNext
<1> QED
  BY <1>2, <1>8, <1>11 DEF DecisionInv


\* An event other than a turn, with its decision.
LEMMA EventRecorded ==
  ASSUME TypeInv, CountInv, DecisionInv, [Next]_vars, phase' # "setup",
         NEW e, NEW entries, EmitAndRecord(e, entries), e.type \notin Silent \cup {"agent-turn"},
         entries \in {NotCounted, Len(transcript)}
  PROVE  DecisionInv'
<1>1. LogOK /\ Len(events) \in Nat /\ IsSeq(decisions)
  BY PlacesKept DEF TypeInv, DecisionInv
<1>2. events' = Append(events, e)
      /\ decisions' = Append(decisions, Decision(Len(events) + 1, e, 0, entries))
  BY DEF EmitAndRecord
<1>3. Len(events') = Len(events) + 1 /\ events'[Len(events) + 1] = e
  BY <1>1, <1>2, AppendFacts DEF LogOK
<1>4. /\ Extends(decisions', decisions) /\ Len(decisions') = Len(decisions) + 1
      /\ decisions'[Len(decisions) + 1] = Decision(Len(events) + 1, e, 0, entries)
  BY <1>1, <1>2, AppendExtends, AppendFacts
<1>5. PICK next \in Nat : next = Len(events) + 1 + 1
  BY <1>1
<1>6. TurnsBefore(next)' = Len(transcript)
  <2>1. Adds({e.type}, {e.agent})
    BY <1>2 DEF Adds
  <2>2. Of("agent-turn")' = Of("agent-turn") /\ Of("agent-turn") \subseteq 1..Len(events)
    BY <1>1, <2>1, OfKept, PlacesKept
  <2>3. {j \in Of("agent-turn")' : j < next} = Of("agent-turn")
    BY <1>1, <1>5, <2>2
  <2> QED
    BY <2>3 DEF TurnsBefore, CountInv
<1>7. /\ Decision(Len(events) + 1, e, 0, entries).index = Len(events) + 1
      /\ Decision(Len(events) + 1, e, 0, entries).type = e.type
      /\ Decision(Len(events) + 1, e, 0, entries).turn = 0
      /\ Decision(Len(events) + 1, e, 0, entries).entries = entries
  BY DEF Decision
<1>8. PICK m \in Nat : m = 1 /\ 1..m = {1}
  OBVIOUS
<1>9. ASSUME NEW j \in 1..m
      PROVE  LET d == decisions'[Len(decisions) + j]
                 f == events'[Len(events) + j]
             IN  /\ d.index = Len(events) + j /\ d.type = f.type /\ f.type \notin Silent
                 /\ d.type = "agent-turn" <=> d.turn # 0
                 /\ \E x \in Nat :
                      /\ x = Len(events) + j + 1
                      /\ d.turn # 0 => d.turn = TurnsBefore(x)'
                      /\ d.entries # NotCounted => d.entries = TurnsBefore(x)'
  <2>1. j = 1
    BY <1>8
  <2> QED
    BY <1>3, <1>4, <1>5, <1>6, <1>7, <2>1
<1>10. Len(events') = Len(events) + m /\ Len(decisions') = Len(decisions) + m
  BY <1>3, <1>4, <1>8
<1> QED
  BY <1>4, <1>9, <1>10, DecisionsGrow

\* The roles.
LEMMA StartDecisions ==
  ASSUME TypeInv, DecisionInv, [Next]_vars, Start
  PROVE  DecisionInv'
<1>0. RunOK /\ LogOK
  BY DEF TypeInv
<1>1. PICK size \in Nat : ActiveAgents = 1..size
  BY <1>0, WaveFacts
<1>2. /\ phase = "setup" /\ phase' = "check"
      /\ events' = [k \in 1..size |-> Plain("role-assignment", k)]
      /\ decisions' = [k \in 1..size |-> Decision(k, events'[k], 0, NotCounted)]
  BY <1>1 DEF Start
<1>3. events = <<>> /\ decisions = <<>> /\ Len(events) = 0 /\ Len(decisions) = 0
  BY <1>0, <1>2, EmptyIsSeq DEF LogOK, DecisionInv
<1>4. /\ DOMAIN events' = 1..size /\ events' = [k \in 1..size |-> events'[k]]
      /\ \A k \in 1..size : events'[k].type = "role-assignment"
  BY <1>2 DEF Plain, Event
<1>5. /\ DOMAIN decisions' = 1..size /\ decisions' = [k \in 1..size |-> decisions'[k]]
      /\ \A k \in 1..size : decisions'[k] = Decision(k, events'[k], 0, NotCounted)
  BY <1>2
<1>6. Len(events') = size /\ IsSeq(decisions') /\ Len(decisions') = size
  BY <1>4, <1>5, FunctionIsSeq
<1>7. Extends(decisions', decisions) /\ Len(events') = Len(events) + size
      /\ Len(decisions') = Len(decisions) + size
  BY <1>3, <1>6 DEF Extends
<1>8. ASSUME NEW j \in 1..size
      PROVE  LET d == decisions'[Len(decisions) + j]
                 f == events'[Len(events) + j]
             IN  /\ d.index = Len(events) + j /\ d.type = f.type /\ f.type \notin Silent
                 /\ d.type = "agent-turn" <=> d.turn # 0
                 /\ \E x \in Nat :
                      /\ x = Len(events) + j + 1
                      /\ d.turn # 0 => d.turn = TurnsBefore(x)'
                      /\ d.entries # NotCounted => d.entries = TurnsBefore(x)'
  <2>1. Len(decisions) + j = j /\ Len(events) + j = j /\ j + 1 \in Nat
    BY <1>3
  <2>2. /\ decisions'[j].index = j /\ decisions'[j].type = "role-assignment"
        /\ decisions'[j].turn = 0 /\ decisions'[j].entries = NotCounted
        /\ events'[j].type = "role-assignment"
    BY <1>4, <1>5 DEF Decision
  <2>3. "role-assignment" \notin Silent
    BY DEF Silent, Provenance
  <2> QED
    BY <2>1, <2>2, <2>3
<1> QED
  BY <1>2, <1>7, <1>8, DecisionsGrow

\* What a wave records, as sequences.
LEMMA RecordLogs ==
  ASSUME RunOK, LogOK, Record
  PROVE  \E turns, extra, total :
           /\ RecordWave(turns, total, extra)
           /\ IsSeq(turns) /\ Len(turns) = Cardinality(Wave)
           /\ \A k \in 1..Len(turns) : turns[k].type = "agent-turn"
           /\ IsSeq(extra) /\ \A k \in 1..Len(extra) : extra[k].type = "broadcast"
<1> DEFINE n == Cardinality(Wave)
<1>1. n \in Nat
  BY WaveSize
<1>2. \A k, total : TurnEvent(k, total).type = "agent-turn"
  BY DEF TurnEvent, Plain, Event
<1>3. IsSeq(<<>>) /\ Len(<<>>) = 0
  BY EmptyIsSeq
<1>4. \A e : IsSeq(<<e>>) /\ Len(<<e>>) = 1 /\ <<e>>[1] = e
  <2>1. ASSUME NEW e
        PROVE  IsSeq(<<e>>) /\ Len(<<e>>) = 1 /\ <<e>>[1] = e
    <3> DEFINE s == <<e>>
    <3>1. DOMAIN s = 1..1 /\ s = [k \in 1..1 |-> s[k]] /\ s[1] = e
      OBVIOUS
    <3> HIDE DEF s
    <3>2. IsSeq(s) /\ Len(s) = 1
      BY <3>1, FunctionIsSeq
    <3> QED
      BY <3>1, <3>2 DEF s
  <2> QED
    BY <2>1
<1>5. CASE SequentialRecord
  <2>1. n = 1
    BY <1>5, WaveSize DEF SequentialRecord, Parallel
  <2>2. PICK e : e = TurnEvent(round + 1, totalCost)
    OBVIOUS
  <2>3. RecordWave(<<e>>, totalCost, <<>>)
    BY <1>5, <2>2 DEF SequentialRecord
  <2>4. PICK turns : turns = <<e>>
    OBVIOUS
  <2>5. IsSeq(turns) /\ Len(turns) = 1 /\ \A k \in 1..1 : turns[k].type = "agent-turn"
    BY <1>2, <1>4, <2>2, <2>4
  <2> QED
    BY <1>3, <2>1, <2>3, <2>4, <2>5
<1>6. CASE SharedRecord \/ BroadcastRecord
  <2>1. DOMAIN ParallelTurns = 1..n /\ ParallelTurns = [k \in 1..n |-> ParallelTurns[k]]
        /\ \A k \in 1..n : ParallelTurns[k].type = "agent-turn"
    BY <1>2 DEF ParallelTurns
  <2>2. IsSeq(ParallelTurns) /\ Len(ParallelTurns) = n
    BY <1>1, <2>1, FunctionIsSeq
  <2>3. \E extra, total : /\ RecordWave(ParallelTurns, total, extra)
                          /\ IsSeq(extra) /\ \A k \in 1..Len(extra) : extra[k].type = "broadcast"
    <3>1. CASE SharedRecord
      <4>1. RecordWave(ParallelTurns, totalCost + CostUpTo[n], <<>>)
        BY <3>1 DEF SharedRecord
      <4> QED
        BY <1>3, <4>1
    <3>2. CASE BroadcastRecord
      <4>1. PICK total, e : /\ RecordWave(ParallelTurns, total, <<e>>)
                            /\ e = [Plain("broadcast", 0) EXCEPT !.total = total]
        BY <3>2 DEF BroadcastRecord
      <4>2. e.type = "broadcast"
        BY <4>1 DEF Plain, Event
      <4>3. PICK extra : extra = <<e>>
        OBVIOUS
      <4>4. IsSeq(extra) /\ \A k \in 1..Len(extra) : extra[k].type = "broadcast"
        BY <1>4, <4>2, <4>3
      <4> QED
        BY <4>1, <4>3, <4>4
    <3> QED
      BY <1>6, <3>1, <3>2
  <2> QED
    BY <2>1, <2>2, <2>3
<1> QED
  BY <1>5, <1>6 DEF Record


\* The turns before a place behind the first ones that a wave records.
LEMMA BeforeRecorded ==
  ASSUME TypeInv, CountInv, [Next]_vars, NEW n \in Nat, RecordStep(n), NEW m \in 0..n, NEW next \in Nat,
         next = Len(events) + m + 1 \/ (m = n /\ next > Len(events) + n)
  PROVE  TurnsBefore(next)' = Len(transcript) + m
<1>0. RunOK /\ LogOK
  BY DEF TypeInv
<1>1. PICK len \in Nat : len = Len(events)
  BY PlacesKept
<1>2. Of("agent-turn")' = Of("agent-turn") \cup ((len + 1)..(len + n))
      /\ Of("agent-turn") \subseteq 1..len
  BY <1>0, <1>1, RecordOf, PlacesKept
<1>3. {j \in Of("agent-turn")' : j < next} = Of("agent-turn") \cup ((len + 1)..(len + m))
  BY <1>1, <1>2
<1>4. Cardinality(Of("agent-turn") \cup ((len + 1)..(len + m))) = Cardinality(Of("agent-turn")) + m
  <2>1. Of("agent-turn") \in SUBSET (1..len) /\ m \in Nat
    BY <1>2
  <2> QED
    BY <2>1, LongerCount
<1> QED
  BY <1>3, <1>4 DEF TurnsBefore, CountInv

LEMMA RecordDecisions ==
  ASSUME TypeInv, CountInv, DecisionInv, [Next]_vars, Record
  PROVE  DecisionInv'
<1>0. RunOK /\ LogOK /\ IsSeq(decisions) /\ IsSeq(events)
  BY DEF TypeInv, DecisionInv, LogOK
<1>1. PICK turns, extra, total :
        /\ RecordWave(turns, total, extra)
        /\ IsSeq(turns) /\ Len(turns) = Cardinality(Wave)
        /\ \A k \in 1..Len(turns) : turns[k].type = "agent-turn"
        /\ IsSeq(extra) /\ \A k \in 1..Len(extra) : extra[k].type = "broadcast"
  BY <1>0, RecordLogs
<1>2. PICK n \in Nat : RecordStep(n) /\ n = Len(turns)
  <2>1. PICK n \in Nat : RecordStep(n)
    BY <1>0, RecordSteps
  <2>2. n = Cardinality(Wave)
    BY <2>1 DEF RecordStep
  <2> QED
    BY <1>1, <2>1, <2>2
<1>3. PICK x \in Nat : x = Len(extra) /\ DOMAIN extra = 1..x /\ DOMAIN turns = 1..n
  BY <1>1, <1>2, SeqFacts
<1>4. PICK len \in Nat : len = Len(events)
  BY <1>0, SeqFacts
<1>5. PICK old \in Nat : old = Len(decisions)
  BY <1>0, SeqFacts
<1>6. PICK count \in Nat : count = Len(transcript)
  BY <1>0, SeqFacts DEF LogOK
<1> DEFINE about  == [k \in 1..n |-> Decision(len + k, turns[k], count + k, count + k)]
           about_ == [k \in 1..x |-> Decision(len + n + k, extra[k], 0, count + n)]
<1>7. /\ events' = (events \o turns) \o extra
      /\ decisions' = (decisions \o about) \o about_
      /\ phase' = "check"
  BY <1>1, <1>2, <1>3, <1>4, <1>6 DEF RecordWave
<1>8. /\ IsSeq(about) /\ Len(about) = n /\ \A k \in 1..n :
           about[k] = Decision(len + k, turns[k], count + k, count + k)
      /\ IsSeq(about_) /\ Len(about_) = x /\ \A k \in 1..x :
           about_[k] = Decision(len + n + k, extra[k], 0, count + n)
  <2>1. DOMAIN about = 1..n /\ about = [k \in 1..n |-> about[k]]
    OBVIOUS
  <2>2. DOMAIN about_ = 1..x /\ about_ = [k \in 1..x |-> about_[k]]
    OBVIOUS
  <2>3. \A k \in 1..n : about[k] = Decision(len + k, turns[k], count + k, count + k)
    OBVIOUS
  <2>4. \A k \in 1..x : about_[k] = Decision(len + n + k, extra[k], 0, count + n)
    OBVIOUS
  <2> HIDE DEF about, about_
  <2> QED
    BY <2>1, <2>2, <2>3, <2>4, FunctionIsSeq
<1> HIDE DEF about, about_
<1>9. PICK first : first = events \o turns /\ Joined(first, events, turns) /\ IsSeq(first)
  BY <1>0, <1>1, ConcatJoins, ConcatFacts
<1>10. PICK mid : mid = decisions \o about /\ Joined(mid, decisions, about) /\ IsSeq(mid)
  BY <1>0, <1>8, ConcatJoins, ConcatFacts
<1>11. Joined(events', first, extra) /\ Joined(decisions', mid, about_)
  BY <1>1, <1>7, <1>8, <1>9, <1>10, ConcatJoins
<1>12. /\ Len(first) = len + n /\ Len(mid) = old + n
       /\ Len(events') = len + n + x /\ Len(decisions') = old + n + x
  BY <1>2, <1>3, <1>4, <1>5, <1>8, <1>9, <1>10, <1>11 DEF Joined
<1>13. ASSUME NEW j \in 1..n
       PROVE  /\ events'[len + j] = turns[j]
              /\ decisions'[old + j] = Decision(len + j, turns[j], count + j, count + j)
  <2>1. len + j \in 1..Len(first) /\ old + j \in 1..Len(mid)
    BY <1>12
  <2>2. events'[len + j] = first[len + j] /\ decisions'[old + j] = mid[old + j]
    BY <1>11, <2>1 DEF Joined, Extends
  <2>3. first[len + j] = turns[j] /\ mid[old + j] = about[j]
    BY <1>2, <1>4, <1>5, <1>8, <1>9, <1>10 DEF Joined
  <2> QED
    BY <1>8, <2>2, <2>3
<1>14. ASSUME NEW i \in 1..x
       PROVE  /\ events'[len + n + i] = extra[i]
              /\ decisions'[old + n + i] = Decision(len + n + i, extra[i], 0, count + n)
  BY <1>3, <1>8, <1>11, <1>12 DEF Joined
<1>15. \A k \in 1..Len(decisions) : decisions'[k] = decisions[k]
  <2>1. Len(decisions) <= Len(mid)
    BY <1>5, <1>12
  <2>2. \A k \in 1..Len(decisions) : mid[k] = decisions[k]
    BY <1>10 DEF Joined, Extends
  <2>3. \A k \in 1..Len(mid) : decisions'[k] = mid[k]
    BY <1>11 DEF Joined, Extends
  <2> QED
    BY <1>5, <1>12, <2>1, <2>2, <2>3
<1>16. Extends(decisions', decisions)
  <2>1. IsSeq(decisions')
    BY <1>11 DEF Joined
  <2> QED
    BY <1>5, <1>12, <1>15, <2>1 DEF Extends
<1>17. PICK m \in Nat : m = n + x
  OBVIOUS
<1>d. ASSUME NEW k, NEW e, NEW turn, NEW entries
      PROVE  /\ Decision(k, e, turn, entries).index = k /\ Decision(k, e, turn, entries).type = e.type
             /\ Decision(k, e, turn, entries).turn = turn
             /\ Decision(k, e, turn, entries).entries = entries
  BY DEF Decision
<1>18. ASSUME NEW j \in 1..m
       PROVE  LET d == decisions'[Len(decisions) + j]
                  f == events'[Len(events) + j]
              IN  /\ d.index = Len(events) + j /\ d.type = f.type /\ f.type \notin Silent
                  /\ d.type = "agent-turn" <=> d.turn # 0
                  /\ \E next \in Nat :
                       /\ next = Len(events) + j + 1
                       /\ d.turn # 0 => d.turn = TurnsBefore(next)'
                       /\ d.entries # NotCounted => d.entries = TurnsBefore(next)'
  <2>0. "agent-turn" \notin Silent /\ "broadcast" \notin Silent
    BY DEF Silent, Provenance
  <2>1. PICK next \in Nat : next = len + j + 1
    OBVIOUS
  <2>2. CASE j \in 1..n
    <3>1. TurnsBefore(next)' = count + j
      <4>1. j \in 0..n
        BY <2>2
      <4> QED
        BY <1>2, <1>4, <1>6, <2>1, <4>1, BeforeRecorded
    <3>2. LET d == decisions'[old + j]
          IN  /\ d.index = len + j /\ d.type = turns[j].type
              /\ d.turn = count + j /\ d.entries = count + j
      <4>1. decisions'[old + j] = Decision(len + j, turns[j], count + j, count + j)
        BY <1>13, <2>2
      <4> QED
        BY <1>d, <4>1
    <3>3. events'[len + j] = turns[j] /\ turns[j].type = "agent-turn"
      BY <1>1, <1>2, <1>13, <2>2
    <3>4. count + j # 0
      BY <2>2
    <3> QED
      BY <1>4, <1>5, <2>0, <2>1, <3>1, <3>2, <3>3, <3>4
  <2>3. CASE j \notin 1..n
    <3>1. PICK i \in 1..x : j = n + i
      <4>1. j - n \in 1..x /\ j = n + (j - n)
        BY <1>17, <2>3
      <4> QED
        BY <4>1
    <3>2. TurnsBefore(next)' = count + n
      <4>1. n \in 0..n /\ next > len + n
        BY <2>1, <3>1
      <4> QED
        BY <1>2, <1>4, <1>6, <4>1, BeforeRecorded
    <3>3. LET d == decisions'[old + n + i]
          IN  /\ d.index = len + n + i /\ d.type = extra[i].type
              /\ d.turn = 0 /\ d.entries = count + n
      <4>1. decisions'[old + n + i] = Decision(len + n + i, extra[i], 0, count + n)
        BY <1>14
      <4> QED
        BY <1>d, <4>1
    <3>4. events'[len + n + i] = extra[i] /\ extra[i].type = "broadcast"
      BY <1>1, <1>3, <1>14
    <3>5. old + j = old + n + i /\ len + j = len + n + i
      BY <3>1
    <3> QED
      BY <1>4, <1>5, <2>0, <2>1, <3>2, <3>3, <3>4, <3>5
  <2> QED
    BY <2>2, <2>3
<1>19. /\ Len(events') = Len(events) + m /\ Len(decisions') = Len(decisions) + m
  BY <1>4, <1>5, <1>12, <1>17
<1> QED
  BY <1>7, <1>16, <1>18, <1>19, DecisionsGrow

LEMMA DecisionStep ==
  ASSUME TypeInv, CountInv, DecisionInv, [Next]_vars
  PROVE  DecisionInv'
<1>0. RunOK /\ LogOK /\ Len(transcript) \in Nat
  BY SeqFacts DEF TypeInv, LogOK
<1>p. "model-request" \in Silent /\ "model-response" \in Silent /\ "model-output-chunk" \in Silent
      /\ {"budget-stop", "tool-call", "tool-result", "final"} \cap (Silent \cup {"agent-turn"}) = {}
  BY DEF Silent, Provenance
<1>1. CASE Start
  BY <1>1, StartDecisions
<1>2. CASE Check
  <2>1. phase' # "setup" /\ StopIfNeeded
    BY <1>2 DEF Check
  <2>2. CASE EmitAndRecord(Plain("budget-stop", 0), Len(transcript))
    <3>1. PICK e : e = Plain("budget-stop", 0)
      OBVIOUS
    <3>2. e.type = "budget-stop"
      BY <3>1 DEF Plain, Event
    <3> QED
      BY <1>p, <2>1, <2>2, <3>1, <3>2, EventRecorded
  <2>3. CASE UNCHANGED Log
    BY <1>0, <2>1, <2>3, DecisionsSame, AddsExtends DEF Log, Adds
  <2> QED
    BY <2>1, <2>2, <2>3 DEF StopIfNeeded
<1>3. ASSUME NEW a \in Agents, Ask(a)
      PROVE  DecisionInv'
  <2>1. UNCHANGED decisions /\ phase' # "setup"
    BY <1>3, AskEvent
  <2>2. Adds({"model-request"}, {a})
    BY <1>3, SmallSteps
  <2>3. \A e \in Added(events', events) : e.type \in {"model-request"}
    BY <1>0, <2>2, AddsExtends
  <2> QED
    BY <1>p, <2>1, <2>3, DecisionsSame
<1>4. ASSUME NEW a \in Agents, Turn(a)
      PROVE  DecisionInv'
  <2>0. phase' # "setup"
    BY <1>4, TurnSteps DEF TurnStep
  <2>1. CASE UseTool(a)
    <3>1. PICK e : EmitAndRecord(e, NotCounted) /\ e.type = "tool-call"
      BY <2>1, UseFacts
    <3> QED
      BY <1>p, <2>0, <3>1, EventRecorded
  <2>2. CASE ToolReturns(a)
    <3>1. PICK e : EmitAndRecord(e, NotCounted) /\ e.type = "tool-result"
      BY <2>2, ReturnFacts
    <3> QED
      BY <1>p, <2>0, <3>1, EventRecorded
  <2>3. CASE ~UseTool(a) /\ ~ToolReturns(a)
    <3>1. UNCHANGED decisions /\ Adds({"model-output-chunk", "model-response"}, Agents)
      BY <1>4, <2>3, OtherTurns
    <3>2. \A e \in Added(events', events) : e.type \in {"model-output-chunk", "model-response"}
      BY <1>0, <3>1, AddsExtends
    <3> QED
      BY <1>p, <2>0, <3>1, <3>2, DecisionsSame
  <2> QED
    BY <2>1, <2>2, <2>3
<1>5. CASE Record
  BY <1>5, RecordDecisions
<1>6. CASE Final
  <2>1. PICK e : e = [Plain("final", 0) EXCEPT !.text = Output]
    OBVIOUS
  <2>2. e.type = "final"
    BY <2>1 DEF Plain, Event
  <2>3. EmitAndRecord(e, Len(transcript)) /\ phase' # "setup"
    BY <1>6, <2>1 DEF Final
  <2> QED
    BY <1>p, <2>2, <2>3, EventRecorded
<1>7. CASE OuterKind
  <2>1. UNCHANGED <<events, decisions>>
    BY <1>7, OuterKeeps
  <2>2. \A e \in Added(events', events) : e.type \in {}
    BY <1>0, <2>1, AddsExtends DEF Adds
  <2>3. phase' = "setup" => phase = "setup"
    BY <1>7, OuterSteps DEF OuterStep, OuterKind
  <2> QED
    BY <2>1, <2>2, <2>3, DecisionsSame
<1> QED
  BY <1>1, <1>2, <1>3, <1>4, <1>5, <1>6, <1>7, StepKinds DEF OuterKind

LEMMA DecisionInit == Init => DecisionInv
BY EmptyIsSeq DEF Init, DecisionInv, DecisionsAgree


-----------------------------------------------------------------------------
(* The ledger                                                              *)

LedgerInv ==
  /\ WaveInv /\ RequestInv /\ ProviderInv /\ ResponseInv /\ TurnInv /\ SpentInv
  /\ ToolInv /\ DecisionInv

LEMMA LedgerStep ==
  ASSUME TypeInv, CountInv, LedgerInv, [Next]_vars
  PROVE  LedgerInv'
BY WaveStep, RequestStep, ProviderStep, ResponseStep, TurnsStep, SpentStep, ToolStep, DecisionStep
   DEF LedgerInv

LEMMA LedgerInit == Init => LedgerInv
BY WaveInit, RequestInit, ProviderInit, ResponseInit, TurnsInit, SpentInit, ToolsInit, DecisionInit
   DEF LedgerInv

\* Of a resolved run there is a turn for each call, and it tells of the request and of the
\* response.
LEMMA CallTold ==
  ASSUME TypeInv, CountInv, LedgerInv, settled = "resolved", NEW n \in 1..Len(transcript)
  PROVE  \E q, r, a, k : Told(q, r, n, a, k)
<1>1. PICK k \in Of("agent-turn") : Nth(k) = n
  BY NthFacts DEF TypeInv, CountInv
<1>2. \E q, r \in DOMAIN events : Told(q, r, Nth(k), events[k].agent, k)
  BY DEF LedgerInv, TurnInv, Healthy
<1> QED
  BY <1>1, <1>2

LEMMA CallsAnswered ==
  ASSUME TypeInv, CountInv, LedgerInv, settled = "resolved"
  PROVE  AnsweredOnce("model-request", "model-response")
<1>0. /\ LogOK /\ Healthy /\ ~InWave
      /\ Cardinality(Of("model-request")) = Len(transcript)
      /\ \A q \in Of("model-request") : events[q].call = Nth(q)
      /\ \A r \in Of("model-response") : events[r].call \in 1..Len(transcript)
      /\ \A r, s \in Of("model-response") : events[r].call = events[s].call => r = s
  BY DEF TypeInv, LedgerInv, WaveInv, RequestInv, ResponseInv, Healthy, InWave
<1>1. ASSUME NEW k \in Of("model-request")
      PROVE  \E r \in Of("model-response") : /\ r > k /\ events[r].call = events[k].call
                                             /\ events[r].agent = events[k].agent
  <2>1. PICK n \in 1..Len(transcript) : n = Nth(k)
    BY <1>0, NthFacts
  <2>2. PICK q, r, a, l : Told(q, r, n, a, l)
    BY CallTold
  <2>3. q \in Of("model-request") /\ r \in Of("model-response") /\ q < r
        /\ events[q].call = n /\ events[r].call = n /\ events[q].agent = events[r].agent
    BY <2>2 DEF Told
  <2>4. q = k
    BY <1>0, <2>1, <2>3, NthFacts
  <2>5. r > k
    <3>1. Of("model-request") \subseteq Int /\ Of("model-response") \subseteq Int
      BY <1>0, OfFinite
    <3> QED
      BY <2>3, <2>4, <3>1
  <2> QED
    BY <1>0, <2>1, <2>3, <2>4, <2>5
<1>2. ASSUME NEW r \in Of("model-response")
      PROVE  \E k \in Of("model-request") : events[k].call = events[r].call
  <2>1. PICK n \in 1..Len(transcript) : n = events[r].call
    BY <1>0
  <2>2. PICK q, s, a, l : Told(q, s, n, a, l)
    BY CallTold
  <2> QED
    BY <2>1, <2>2 DEF Told
<1> QED
  BY <1>0, <1>1, <1>2 DEF AnsweredOnce

LEMMA LedgerAgrees ==
  ASSUME TypeInv, CountInv, LedgerInv
  PROVE  TurnLedger
<1>0. DecisionsAgree
  BY DEF LedgerInv, DecisionInv
<1> SUFFICES ASSUME settled = "resolved"
             PROVE  TurnLedger
  BY <1>0 DEF TurnLedger
<1> DEFINE count == Len(transcript)
<1>1. Healthy /\ ~InWave
  BY DEF LedgerInv, WaveInv, Healthy, InWave
<1>2. providerCalls = [k \in 1..count |-> [call |-> k, agent |-> transcript[k].agent]]
  <2>1. /\ IsSeq(providerCalls) /\ Len(providerCalls) = count
        /\ \A k \in 1..count : providerCalls[k] = [call |-> k, agent |-> transcript[k].agent]
    BY <1>1 DEF LedgerInv, ProviderInv
  <2>2. PICK S : providerCalls \in Seq(S)
    BY <2>1 DEF IsSeq
  <2>3. providerCalls \in [1..count -> S]
    BY <2>1, <2>2, LenProperties
  <2>4. providerCalls = [k \in 1..count |-> providerCalls[k]]
    BY <2>3
  <2> QED
    BY <2>1, <2>4
<1>3. Cardinality(Of("model-request")) = count /\ Cardinality(Of("agent-turn")) = count
  BY <1>1 DEF LedgerInv, RequestInv, CountInv
<1>4. AnsweredOnce("model-request", "model-response")
  BY CallsAnswered
<1>5. ASSUME NEW k \in Of("agent-turn")
      PROVE  /\ events[k].agent = transcript[Nth(k)].agent
             /\ \E r \in Of("model-response") :
                  /\ r < k /\ events[r].call = Nth(k)
                  /\ events[r].agent = events[k].agent /\ events[r].text = events[k].text
                  /\ events[k].total = TotalBefore(k) + events[r].own
  <2>1. /\ events[k].agent = transcript[Nth(k)].agent
        /\ \E q, r \in DOMAIN events :
             /\ Told(q, r, Nth(k), events[k].agent, k)
             /\ events[r].text = events[k].text
             /\ events[k].total = TotalBefore(k) + events[r].own
    BY <1>1 DEF LedgerInv, TurnInv
  <2> QED
    BY <2>1 DEF Told
<1>6. totalCost = TotalBefore(Len(events) + 1)
  BY <1>1 DEF LedgerInv, SpentInv
<1>7. AnsweredOnce("tool-call", "tool-result")
  <2>1. /\ \A k \in Of("tool-call") : events[k].call = Nth(k) /\ ToolResult(k)
        /\ \A r \in Of("tool-result") : \E k \in Of("tool-call") : events[k].call = events[r].call
        /\ \A r, s \in Of("tool-result") : events[r].call = events[s].call => r = s
    BY <1>1 DEF LedgerInv, ToolInv
  <2> QED
    BY <2>1 DEF AnsweredOnce, ToolResult
<1> QED
  BY <1>0, <1>2, <1>3, <1>4, <1>5, <1>6, <1>7 DEF TurnLedger

\* The inductive invariant of the ledger.
THEOREM LedgerInvariant == Spec => [](TypeInv /\ CountInv /\ LedgerInv)
<1>1. Init => TypeInv /\ CountInv /\ LedgerInv
  BY TypeInit, CountInit, LedgerInit
<1>2. TypeInv /\ CountInv /\ LedgerInv /\ [Next]_vars => (TypeInv /\ CountInv /\ LedgerInv)'
  BY TypeStep, CountStep, LedgerStep
<1> QED
  BY <1>1, <1>2, PTL DEF Spec

\* The calls, the turns, the costs and the tools of a resolved run tell one story, however
\* its answers arrived, and the decisions of the trace tell at any time what its events
\* show: the slots of recordProviderCall, the loop that records the turns, the numbering of
\* tool calls and recordProtocolDecision.
THEOREM LedgerTrue == Spec => []TurnLedger
<1>1. TypeInv /\ CountInv /\ LedgerInv => TurnLedger
  BY LedgerAgrees
<1> QED
  BY LedgerInvariant, <1>1, PTL
=============================================================================
