--------------------------- MODULE TurnReports_proofs ---------------------------
(***************************************************************************)
(* What the observers of a run of TurnProtocols report, and what a replay  *)
(* makes of its trace.  The metrics, the spans and the replay are computed *)
(* along the log; an invariant says what the spans hold while a wave is in *)
(* progress, and how the cost that they count hangs together with that of  *)
(* the run.                                                                *)
(***************************************************************************)
EXTENDS TurnLedger_proofs

-----------------------------------------------------------------------------
(* Computations along a log: each exists, and goes on where a log that is  *)
(* extended goes on.                                                       *)

\* What the tracer holds.
LEMMA SpansExist ==
  ASSUME NEW N \in Nat, NEW log
  PROVE  \E f : f = [k \in 0..N |-> IF k = 0 THEN NoSpans ELSE SpansStep(f[k - 1], log[k])]
<1> DEFINE IsRun(f, M) ==
             f = [k \in 0..M |-> IF k = 0 THEN NoSpans ELSE SpansStep(f[k - 1], log[k])]
           Lengths == {M \in Nat : \E f : IsRun(f, M)}
<1>1. 0 \in Lengths
  <2>1. IsRun([k \in 0..0 |-> NoSpans], 0)
    OBVIOUS
  <2> QED
    BY <2>1
<1>2. ASSUME NEW M \in Lengths
      PROVE  M + 1 \in Lengths
  <2>1. PICK f : IsRun(f, M)
    OBVIOUS
  <2> DEFINE longer == [k \in 0..(M + 1) |-> IF k = M + 1 THEN SpansStep(f[M], log[k]) ELSE f[k]]
  <2>2. \A k \in 0..M : f[k] = IF k = 0 THEN NoSpans ELSE SpansStep(f[k - 1], log[k])
    BY <2>1
  <2>3. \A k \in 0..(M + 1) :
          longer[k] = IF k = 0 THEN NoSpans ELSE SpansStep(longer[k - 1], log[k])
    BY <2>2
  <2>4. IsRun(longer, M + 1)
    BY <2>3
  <2> HIDE DEF IsRun, longer
  <2>5. \E g : IsRun(g, M + 1)
    BY <2>4
  <2> QED
    BY <2>5
<1>3. Lengths = Nat
  <2> HIDE DEF Lengths
  <2>1. Lengths \in SUBSET Nat
    BY DEF Lengths
  <2> QED
    BY <1>1, <1>2, <2>1, NaturalInduction
<1> QED
  BY <1>3

LEMMA SpansSteps ==
  ASSUME NEW log, IsSeq(log)
  PROVE  /\ SpansUpTo(log)[0] = NoSpans
         /\ \A k \in 1..Len(log) :
              SpansUpTo(log)[k] = SpansStep(SpansUpTo(log)[k - 1], log[k])
<1>1. Len(log) \in Nat
  BY SeqFacts
<1>2. \E f : f = [k \in 0..Len(log) |-> IF k = 0 THEN NoSpans ELSE SpansStep(f[k - 1], log[k])]
  BY <1>1, SpansExist
<1>3. SpansUpTo(log) =
        [k \in 0..Len(log) |-> IF k = 0 THEN NoSpans ELSE SpansStep(SpansUpTo(log)[k - 1], log[k])]
  BY <1>2 DEF SpansUpTo
<1>4. \A k \in 0..Len(log) :
        SpansUpTo(log)[k] = IF k = 0 THEN NoSpans ELSE SpansStep(SpansUpTo(log)[k - 1], log[k])
  BY <1>3
<1> QED
  BY <1>1, <1>4

LEMMA SpansKept ==
  ASSUME NEW old, NEW new, IsSeq(old), Extends(new, old)
  PROVE  \A k \in 0..Len(old) : SpansUpTo(new)[k] = SpansUpTo(old)[k]
<1> DEFINE Same == {k \in Nat : k <= Len(old) => SpansUpTo(new)[k] = SpansUpTo(old)[k]}
<1>1. /\ Len(old) \in Nat /\ Len(new) \in Nat /\ Len(old) <= Len(new) /\ IsSeq(new)
      /\ \A k \in 1..Len(old) : new[k] = old[k]
  BY SeqFacts DEF Extends
<1>2. /\ SpansUpTo(new)[0] = NoSpans /\ SpansUpTo(old)[0] = NoSpans
      /\ \A k \in 1..Len(new) : SpansUpTo(new)[k] = SpansStep(SpansUpTo(new)[k - 1], new[k])
      /\ \A k \in 1..Len(old) : SpansUpTo(old)[k] = SpansStep(SpansUpTo(old)[k - 1], old[k])
  BY <1>1, SpansSteps
<1>3. 0 \in Same
  BY <1>2
<1>4. ASSUME NEW k \in Same
      PROVE  k + 1 \in Same
  BY <1>1, <1>2
<1>5. Same = Nat
  <2> HIDE DEF Same
  <2>1. Same \in SUBSET Nat
    BY DEF Same
  <2> QED
    BY <1>3, <1>4, <2>1, NaturalInduction
<1> QED
  BY <1>1, <1>5

\* What the metrics hook has counted.
LEMMA MetricsExist ==
  ASSUME NEW N \in Nat, NEW log
  PROVE  \E f : f = [k \in 0..N |-> IF k = 0 THEN NoMetrics ELSE MetricsStep(f[k - 1], log[k])]
<1> DEFINE IsRun(f, M) ==
             f = [k \in 0..M |-> IF k = 0 THEN NoMetrics ELSE MetricsStep(f[k - 1], log[k])]
           Lengths == {M \in Nat : \E f : IsRun(f, M)}
<1>1. 0 \in Lengths
  <2>1. IsRun([k \in 0..0 |-> NoMetrics], 0)
    OBVIOUS
  <2> QED
    BY <2>1
<1>2. ASSUME NEW M \in Lengths
      PROVE  M + 1 \in Lengths
  <2>1. PICK f : IsRun(f, M)
    OBVIOUS
  <2> DEFINE longer == [k \in 0..(M + 1) |-> IF k = M + 1 THEN MetricsStep(f[M], log[k]) ELSE f[k]]
  <2>2. \A k \in 0..M : f[k] = IF k = 0 THEN NoMetrics ELSE MetricsStep(f[k - 1], log[k])
    BY <2>1
  <2>3. \A k \in 0..(M + 1) :
          longer[k] = IF k = 0 THEN NoMetrics ELSE MetricsStep(longer[k - 1], log[k])
    BY <2>2
  <2>4. IsRun(longer, M + 1)
    BY <2>3
  <2> HIDE DEF IsRun, longer
  <2>5. \E g : IsRun(g, M + 1)
    BY <2>4
  <2> QED
    BY <2>5
<1>3. Lengths = Nat
  <2> HIDE DEF Lengths
  <2>1. Lengths \in SUBSET Nat
    BY DEF Lengths
  <2> QED
    BY <1>1, <1>2, <2>1, NaturalInduction
<1> QED
  BY <1>3

LEMMA MetricsSteps ==
  ASSUME NEW log, IsSeq(log)
  PROVE  /\ MetricsUpTo(log)[0] = NoMetrics
         /\ \A k \in 1..Len(log) :
              MetricsUpTo(log)[k] = MetricsStep(MetricsUpTo(log)[k - 1], log[k])
<1>1. Len(log) \in Nat
  BY SeqFacts
<1>2. \E f : f = [k \in 0..Len(log) |-> IF k = 0 THEN NoMetrics ELSE MetricsStep(f[k - 1], log[k])]
  BY <1>1, MetricsExist
<1>3. MetricsUpTo(log) =
        [k \in 0..Len(log) |-> IF k = 0 THEN NoMetrics ELSE MetricsStep(MetricsUpTo(log)[k - 1], log[k])]
  BY <1>2 DEF MetricsUpTo
<1>4. \A k \in 0..Len(log) :
        MetricsUpTo(log)[k] = IF k = 0 THEN NoMetrics ELSE MetricsStep(MetricsUpTo(log)[k - 1], log[k])
  BY <1>3
<1> QED
  BY <1>1, <1>4

-----------------------------------------------------------------------------
(* Sums                                                                    *)

\* The sums of the first summands, whatever they are.
LEMMA RunningSumExists ==
  ASSUME NEW N \in Nat, NEW summand
  PROVE  \E f : f = [n \in 0..N |-> IF n = 0 THEN 0 ELSE f[n - 1] + summand[n]]
<1> DEFINE costs == [n \in 1..N |-> [cost |-> summand[n]]]
<1>1. PICK f : f = [n \in 0..N |-> IF n = 0 THEN 0 ELSE f[n - 1] + costs[n].cost]
  BY SumsExist
<1>2. [n \in 0..N |-> IF n = 0 THEN 0 ELSE f[n - 1] + costs[n].cost]
        = [n \in 0..N |-> IF n = 0 THEN 0 ELSE f[n - 1] + summand[n]]
  OBVIOUS
<1> QED
  BY <1>1, <1>2

\* What an event adds to the cost of the answers.
OwnCost(e) == IF e.type = "model-response" THEN e.own ELSE 0

LEMMA SpentSteps ==
  ASSUME NEW log, IsSeq(log)
  PROVE  /\ SpentUpTo(log)[0] = 0
         /\ \A k \in 1..Len(log) : SpentUpTo(log)[k] = SpentUpTo(log)[k - 1] + OwnCost(log[k])
<1> DEFINE summand == [k \in 1..Len(log) |-> OwnCost(log[k])]
           Sum(f, k) == f[k - 1] + (IF log[k].type = "model-response" THEN log[k].own ELSE 0)
<1>1. Len(log) \in Nat
  BY SeqFacts
<1>2. PICK f : f = [k \in 0..Len(log) |-> IF k = 0 THEN 0 ELSE f[k - 1] + summand[k]]
  BY <1>1, RunningSumExists
<1>3. [k \in 0..Len(log) |-> IF k = 0 THEN 0 ELSE f[k - 1] + summand[k]]
        = [k \in 0..Len(log) |-> IF k = 0 THEN 0 ELSE Sum(f, k)]
  BY <1>1 DEF OwnCost
<1>4. \E g : g = [k \in 0..Len(log) |-> IF k = 0 THEN 0 ELSE Sum(g, k)]
  BY <1>2, <1>3
<1>5. SpentUpTo(log) = [k \in 0..Len(log) |-> IF k = 0 THEN 0 ELSE Sum(SpentUpTo(log), k)]
  BY <1>4 DEF SpentUpTo
<1>6. \A k \in 0..Len(log) : SpentUpTo(log)[k] = IF k = 0 THEN 0 ELSE Sum(SpentUpTo(log), k)
  BY <1>5
<1> QED
  BY <1>1, <1>6 DEF OwnCost

LEMMA SpentKept ==
  ASSUME NEW old, NEW new, IsSeq(old), Extends(new, old)
  PROVE  \A k \in 0..Len(old) : SpentUpTo(new)[k] = SpentUpTo(old)[k]
<1> DEFINE Same == {k \in Nat : k <= Len(old) => SpentUpTo(new)[k] = SpentUpTo(old)[k]}
<1>1. /\ Len(old) \in Nat /\ Len(new) \in Nat /\ Len(old) <= Len(new) /\ IsSeq(new)
      /\ \A k \in 1..Len(old) : new[k] = old[k]
  BY SeqFacts DEF Extends
<1>2. /\ SpentUpTo(new)[0] = 0 /\ SpentUpTo(old)[0] = 0
      /\ \A k \in 1..Len(new) : SpentUpTo(new)[k] = SpentUpTo(new)[k - 1] + OwnCost(new[k])
      /\ \A k \in 1..Len(old) : SpentUpTo(old)[k] = SpentUpTo(old)[k - 1] + OwnCost(old[k])
  BY <1>1, SpentSteps
<1>3. 0 \in Same
  BY <1>2
<1>4. ASSUME NEW k \in Same
      PROVE  k + 1 \in Same
  BY <1>1, <1>2
<1>5. Same = Nat
  <2> HIDE DEF Same
  <2>1. Same \in SUBSET Nat
    BY DEF Same
  <2> QED
    BY <1>3, <1>4, <2>1, NaturalInduction
<1> QED
  BY <1>1, <1>5

\* Events that are no answers cost nothing.
LEMMA SpentSame ==
  ASSUME NEW log, IsSeq(log), NEW n \in 0..Len(log),
         \A k \in (n + 1)..Len(log) : log[k].type # "model-response", SpentUpTo(log)[n] \in Nat
  PROVE  \A k \in n..Len(log) : SpentUpTo(log)[k] = SpentUpTo(log)[n]
<1> DEFINE Same == {j \in Nat : n + j <= Len(log) => SpentUpTo(log)[n + j] = SpentUpTo(log)[n]}
<1>1. Len(log) \in Nat
  BY SeqFacts
<1>2. 0 \in Same
  OBVIOUS
<1>3. ASSUME NEW j \in Same
      PROVE  j + 1 \in Same
  <2> SUFFICES ASSUME n + j + 1 <= Len(log)
               PROVE  SpentUpTo(log)[n + j + 1] = SpentUpTo(log)[n]
    OBVIOUS
  <2>1. n + j + 1 \in 1..Len(log) /\ (n + j + 1) - 1 = n + j /\ n + j + 1 \in (n + 1)..Len(log)
    BY <1>1
  <2>2. SpentUpTo(log)[n + j + 1] = SpentUpTo(log)[n + j] + 0
    BY <2>1, SpentSteps DEF OwnCost
  <2> QED
    BY <1>1, <2>2
<1>4. Same = Nat
  <2> HIDE DEF Same
  <2>1. Same \in SUBSET Nat
    BY DEF Same
  <2> QED
    BY <1>2, <1>3, <2>1, NaturalInduction
<1>5. \A j \in Nat : n + j <= Len(log) => SpentUpTo(log)[n + j] = SpentUpTo(log)[n]
  BY <1>4
<1>6. \A k \in n..Len(log) : \E j \in Nat : k = n + j
  BY <1>1
<1> HIDE DEF Same
<1> QED
  BY <1>1, <1>5, <1>6
\* The sums of the first N summands.
RunningSum(summand, N) ==
  LET sum[n \in 0..N] == IF n = 0 THEN 0 ELSE sum[n - 1] + summand[n] IN sum

LEMMA RunningSumSteps ==
  ASSUME NEW N \in Nat, NEW summand
  PROVE  /\ RunningSum(summand, N)[0] = 0
         /\ \A n \in 1..N : RunningSum(summand, N)[n] = RunningSum(summand, N)[n - 1] + summand[n]
<1>1. RunningSum(summand, N) =
        [n \in 0..N |-> IF n = 0 THEN 0 ELSE RunningSum(summand, N)[n - 1] + summand[n]]
  BY RunningSumExists DEF RunningSum
<1>2. \A n \in 0..N :
        RunningSum(summand, N)[n] = IF n = 0 THEN 0 ELSE RunningSum(summand, N)[n - 1] + summand[n]
  BY <1>1
<1> QED
  BY <1>2

\* Sums of summands of which one is greater than before.
Raises(less, more, N, a, c) ==
  \A n \in 1..N : less[n] \in Nat /\ more[n] = less[n] + IF n = a THEN c ELSE 0

LEMMA SumRaised ==
  ASSUME NEW N \in Nat, NEW less, NEW more, NEW a, NEW c \in Nat, Raises(less, more, N, a, c)
  PROVE  \A n \in 0..N : /\ RunningSum(less, N)[n] \in Nat
                         /\ RunningSum(more, N)[n] =
                              RunningSum(less, N)[n] + IF a \in 1..n THEN c ELSE 0
<1> DEFINE Raised == {n \in Nat : n <= N =>
                        /\ RunningSum(less, N)[n] \in Nat
                        /\ RunningSum(more, N)[n] =
                             RunningSum(less, N)[n] + IF a \in 1..n THEN c ELSE 0}
<1>1. 0 \in Raised
  BY RunningSumSteps
<1>2. ASSUME NEW n \in Raised
      PROVE  n + 1 \in Raised
  <2> SUFFICES ASSUME n + 1 <= N
               PROVE  /\ RunningSum(less, N)[n + 1] \in Nat
                      /\ RunningSum(more, N)[n + 1] =
                           RunningSum(less, N)[n + 1] + IF a \in 1..(n + 1) THEN c ELSE 0
    OBVIOUS
  <2>1. n \in Nat /\ n + 1 \in 1..N /\ (n + 1) - 1 = n
    OBVIOUS
  <2>2. /\ RunningSum(less, N)[n + 1] = RunningSum(less, N)[n] + less[n + 1]
        /\ RunningSum(more, N)[n + 1] = RunningSum(more, N)[n] + more[n + 1]
    BY <2>1, RunningSumSteps
  <2>3. /\ less[n + 1] \in Nat /\ more[n + 1] = less[n + 1] + IF n + 1 = a THEN c ELSE 0
        /\ RunningSum(less, N)[n] \in Nat
        /\ RunningSum(more, N)[n] = RunningSum(less, N)[n] + IF a \in 1..n THEN c ELSE 0
    BY <2>1 DEF Raises
  <2>4. CASE a = n + 1
    BY <2>1, <2>2, <2>3, <2>4
  <2>5. CASE a # n + 1
    <3>1. a \in 1..n <=> a \in 1..(n + 1)
      BY <2>1, <2>5
    <3> QED
      BY <2>1, <2>2, <2>3, <2>5, <3>1
  <2> QED
    BY <2>4, <2>5
<1>3. Raised = Nat
  <2> HIDE DEF Raised
  <2>1. Raised \in SUBSET Nat
    BY DEF Raised
  <2> QED
    BY <1>1, <1>2, <2>1, NaturalInduction
<1> QED
  BY <1>3

\* Nothing adds up to nothing.
LEMMA SumOfNothing ==
  ASSUME NEW N \in Nat, NEW summand, \A n \in 1..N : summand[n] = 0
  PROVE  \A n \in 0..N : RunningSum(summand, N)[n] = 0
<1> DEFINE Zero == {n \in Nat : n <= N => RunningSum(summand, N)[n] = 0}
<1>1. 0 \in Zero
  BY RunningSumSteps
<1>2. ASSUME NEW n \in Zero
      PROVE  n + 1 \in Zero
  BY RunningSumSteps
<1>3. Zero = Nat
  <2> HIDE DEF Zero
  <2>1. Zero \in SUBSET Nat
    BY DEF Zero
  <2> QED
    BY <1>1, <1>2, <2>1, NaturalInduction
<1> QED
  BY <1>3

-----------------------------------------------------------------------------
(* One event                                                               *)

IsSpans(s) == s = [turns |-> s.turns, calls |-> s.calls, gathered |-> s.gathered,
                   ended |-> s.ended, last |-> s.last]

\* What an event changes of what the tracer holds.
SpansMove(s, e, t) ==
  /\ e.type = "model-request" =>
       /\ t.turns = s.turns \cup {e.agent} /\ t.calls = s.calls \cup {e.call}
       /\ t.gathered = s.gathered /\ t.ended = s.ended /\ t.last = s.last
  /\ e.type = "model-response" /\ e.call \in s.calls =>
       /\ t.turns = s.turns /\ t.calls = s.calls \ {e.call}
       /\ t.gathered = With(s.gathered, e.agent, GatheredBy(s, e.agent) + e.own)
       /\ t.ended = s.ended /\ t.last = s.last + e.own
  /\ e.type = "model-response" /\ e.call \notin s.calls => t = s
  /\ e.type = "agent-turn" =>
       /\ t.turns = s.turns \ {e.agent} /\ t.calls = s.calls
       /\ t.gathered = Without(s.gathered, e.agent)
       /\ t.ended = IF e.agent \in s.turns THEN Append(s.ended, GatheredBy(s, e.agent)) ELSE s.ended
       /\ t.last = e.total
  /\ e.type \in {"broadcast", "budget-stop", "final"} =>
       /\ t.turns = s.turns /\ t.calls = s.calls /\ t.gathered = s.gathered
       /\ t.ended = s.ended /\ t.last = e.total
  /\ e.type \notin CostBearing \cup Provenance => t = s

LEMMA SpansFields ==
  ASSUME NEW s, IsSpans(s), NEW e
  PROVE  IsSpans(SpansStep(s, e)) /\ SpansMove(s, e, SpansStep(s, e))
<1> DEFINE t == SpansStep(s, e)
<1> SUFFICES IsSpans(t) /\ SpansMove(s, e, t)
  OBVIOUS
<1> USE DEF SpansMove
<1>1. CASE e.type = "model-request"
  <2>1. t = SpansRequest(s, e)
    BY <1>1 DEF SpansStep
  <2>2. /\ IsSpans(t) /\ t.turns = s.turns \cup {e.agent} /\ t.calls = s.calls \cup {e.call}
        /\ t.gathered = s.gathered /\ t.ended = s.ended /\ t.last = s.last
    BY <2>1 DEF SpansRequest, IsSpans
  <2> QED
    BY <1>1, <2>2 DEF CostBearing, Provenance
<1>2. CASE e.type = "model-response"
  <2>1. t = SpansResponse(s, e)
    BY <1>2 DEF SpansStep
  <2>2. CASE e.call \in s.calls
    <3>1. t = [s EXCEPT !.calls = @ \ {e.call},
                        !.gathered = With(@, e.agent, GatheredBy(s, e.agent) + e.own),
                        !.last = @ + e.own]
      BY <2>1, <2>2 DEF SpansResponse
    <3> DEFINE gathered == With(s.gathered, e.agent, GatheredBy(s, e.agent) + e.own)
    <3>2. t = [s EXCEPT !.calls = @ \ {e.call}, !.gathered = gathered, !.last = @ + e.own]
      BY <3>1
    <3> HIDE DEF gathered
    <3>3. /\ IsSpans(t) /\ t.turns = s.turns /\ t.calls = s.calls \ {e.call}
          /\ t.gathered = gathered /\ t.ended = s.ended /\ t.last = s.last + e.own
      BY <3>2 DEF IsSpans
    <3> QED
      BY <1>2, <2>2, <3>3 DEF gathered, CostBearing, Provenance
  <2>3. CASE e.call \notin s.calls
    BY <1>2, <2>1, <2>3 DEF SpansResponse, CostBearing, Provenance
  <2> QED
    BY <2>2, <2>3
<1>3. CASE e.type = "agent-turn"
  <2> DEFINE ended == IF e.agent \in s.turns THEN Append(s.ended, GatheredBy(s, e.agent)) ELSE s.ended
             gathered == Without(s.gathered, e.agent)
  <2>1. t = SpansTurn(s, e)
    BY <1>3 DEF SpansStep
  <2>2. t = [s EXCEPT !.turns = @ \ {e.agent}, !.ended = ended, !.gathered = gathered,
                      !.last = e.total]
    BY <2>1 DEF SpansTurn
  <2> HIDE DEF ended, gathered
  <2>3. /\ IsSpans(t) /\ t.turns = s.turns \ {e.agent} /\ t.calls = s.calls
        /\ t.gathered = gathered /\ t.ended = ended /\ t.last = e.total
    BY <2>2 DEF IsSpans
  <2> QED
    BY <1>3, <2>3 DEF ended, gathered, CostBearing, Provenance
<1>4. CASE e.type \in {"broadcast", "budget-stop", "final"}
  <2>1. t = [s EXCEPT !.last = e.total]
    BY <1>4 DEF SpansStep
  <2>2. /\ IsSpans(t) /\ t.turns = s.turns /\ t.calls = s.calls /\ t.gathered = s.gathered
        /\ t.ended = s.ended /\ t.last = e.total
    BY <2>1 DEF IsSpans
  <2> QED
    BY <1>4, <2>2 DEF CostBearing, Provenance
<1>5. CASE e.type \notin CostBearing \cup Provenance
  <2>1. /\ e.type # "model-request" /\ e.type # "model-response" /\ e.type # "agent-turn"
        /\ e.type \notin {"broadcast", "budget-stop", "final"}
    BY <1>5 DEF CostBearing, Provenance
  <2>2. t = s
    BY <2>1 DEF SpansStep
  <2> QED
    BY <2>1, <2>2
<1> QED
  BY <1>1, <1>2, <1>3, <1>4, <1>5 DEF CostBearing, Provenance

LEMMA SpansShape ==
  ASSUME NEW log, IsSeq(log)
  PROVE  \A k \in 0..Len(log) : IsSpans(SpansUpTo(log)[k])
<1> DEFINE Shaped == {k \in Nat : k <= Len(log) => IsSpans(SpansUpTo(log)[k])}
<1>1. Len(log) \in Nat
  BY SeqFacts
<1>2. 0 \in Shaped
  <2>1. IsSpans(NoSpans)
    BY DEF IsSpans, NoSpans
  <2> QED
    BY <2>1, SpansSteps
<1>3. ASSUME NEW k \in Shaped
      PROVE  k + 1 \in Shaped
  <2> SUFFICES ASSUME k + 1 <= Len(log)
               PROVE  IsSpans(SpansUpTo(log)[k + 1])
    OBVIOUS
  <2>1. SpansUpTo(log)[k + 1] = SpansStep(SpansUpTo(log)[k], log[k + 1])
    BY <1>1, SpansSteps
  <2>2. IsSpans(SpansUpTo(log)[k])
    BY <1>1
  <2> QED
    BY <2>1, <2>2, SpansFields
<1>4. Shaped = Nat
  <2> HIDE DEF Shaped
  <2>1. Shaped \in SUBSET Nat
    BY DEF Shaped
  <2> QED
    BY <1>2, <1>3, <2>1, NaturalInduction
<1> QED
  BY <1>1, <1>4

\* Events that the tracer does not follow.
LEMMA SpansSame ==
  ASSUME NEW log, IsSeq(log), NEW n \in 0..Len(log),
         \A k \in (n + 1)..Len(log) : log[k].type \notin CostBearing \cup Provenance
  PROVE  SpansAfter(log) = SpansUpTo(log)[n]
<1> DEFINE Same == {j \in Nat : n + j <= Len(log) => SpansUpTo(log)[n + j] = SpansUpTo(log)[n]}
<1>1. Len(log) \in Nat
  BY SeqFacts
<1>2. 0 \in Same
  OBVIOUS
<1>3. ASSUME NEW j \in Same
      PROVE  j + 1 \in Same
  <2> SUFFICES ASSUME n + j + 1 <= Len(log)
               PROVE  SpansUpTo(log)[n + j + 1] = SpansUpTo(log)[n]
    OBVIOUS
  <2>1. /\ n + j + 1 \in 1..Len(log) /\ (n + j + 1) - 1 = n + j /\ n + j + 1 \in (n + 1)..Len(log)
        /\ n + j \in 0..Len(log)
    BY <1>1
  <2>2. SpansUpTo(log)[n + j + 1] = SpansStep(SpansUpTo(log)[n + j], log[n + j + 1])
    BY <2>1, SpansSteps
  <2>3. IsSpans(SpansUpTo(log)[n + j])
    BY <2>1, SpansShape
  <2>4. SpansUpTo(log)[n + j + 1] = SpansUpTo(log)[n + j]
    <3>1. PICK k \in (n + 1)..Len(log) : k = n + j + 1
      BY <2>1
    <3>2. log[k].type \notin CostBearing \cup Provenance
      OBVIOUS
    <3> QED
      BY <2>2, <2>3, <3>1, <3>2, SpansFields DEF SpansMove
  <2> QED
    BY <1>1, <2>4
<1>4. Same = Nat
  <2> HIDE DEF Same
  <2>1. Same \in SUBSET Nat
    BY DEF Same
  <2> QED
    BY <1>2, <1>3, <2>1, NaturalInduction
<1>5. \A j \in Nat : n + j <= Len(log) => SpansUpTo(log)[n + j] = SpansUpTo(log)[n]
  BY <1>4
<1>6. \E j \in Nat : Len(log) = n + j
  BY <1>1
<1> HIDE DEF Same
<1> QED
  BY <1>1, <1>5, <1>6 DEF SpansAfter

\* The log with one more event.
LEMMA SpansAppended ==
  ASSUME NEW log, IsSeq(log), NEW e
  PROVE  /\ SpansAfter(Append(log, e)) = SpansStep(SpansAfter(log), e)
         /\ IsSpans(SpansAfter(log))
         /\ SpentUpTo(Append(log, e))[Len(Append(log, e))] = SpentUpTo(log)[Len(log)] + OwnCost(e)
<1>1. /\ Len(log) \in Nat /\ Len(Append(log, e)) = Len(log) + 1 /\ IsSeq(Append(log, e))
      /\ Append(log, e)[Len(log) + 1] = e /\ Extends(Append(log, e), log)
  BY SeqFacts, AppendFacts, AppendExtends
<1>2. SpansUpTo(Append(log, e))[Len(log) + 1] = SpansStep(SpansUpTo(Append(log, e))[Len(log)], e)
  <2>1. Len(log) + 1 \in 1..Len(Append(log, e)) /\ (Len(log) + 1) - 1 = Len(log)
    BY <1>1
  <2> QED
    BY <1>1, <2>1, SpansSteps
<1>3. SpansUpTo(Append(log, e))[Len(log)] = SpansUpTo(log)[Len(log)]
  <2>1. Len(log) \in 0..Len(log)
    BY <1>1
  <2> QED
    BY <1>1, <2>1, SpansKept
<1>4. SpentUpTo(Append(log, e))[Len(log) + 1] = SpentUpTo(Append(log, e))[Len(log)] + OwnCost(e)
  <2>1. Len(log) + 1 \in 1..Len(Append(log, e)) /\ (Len(log) + 1) - 1 = Len(log)
    BY <1>1
  <2> QED
    BY <1>1, <2>1, SpentSteps
<1>5. SpentUpTo(Append(log, e))[Len(log)] = SpentUpTo(log)[Len(log)]
  <2>1. Len(log) \in 0..Len(log)
    BY <1>1
  <2> QED
    BY <1>1, <2>1, SpentKept
<1>6. IsSpans(SpansUpTo(log)[Len(log)])
  BY <1>1, SpansShape
<1> QED
  BY <1>1, <1>2, <1>3, <1>4, <1>5, <1>6 DEF SpansAfter

-----------------------------------------------------------------------------
(* What the events bear                                                    *)

Bearing == BudgetStateChanges(events)

\* No event tells of a child; an answer costs something or nothing; the events that bear
\* the total of the run never bear less than the one before, nor more than the total is.
BearInv ==
  /\ \A k \in DOMAIN events : events[k].type \notin ChildEnds
  /\ \A k \in Of("model-response") : events[k].own \in Nat
  /\ \A k \in Bearing : events[k].total \in 0..totalCost
  /\ \A j, k \in Bearing : j <= k => events[j].total <= events[k].total

\* What a step adds to the log.
Grown(e) == events' = Append(events, e)

Announced(e) == Grown(e) /\ e.type \in {"budget-stop", "final"} /\ e.total = totalCost

Requested(a, e) ==
  /\ Ask(a) /\ ~aborted /\ Grown(e)
  /\ e.type = "model-request" /\ e.agent = a /\ e.call = CallId(a)

Responded(a, e) ==
  /\ Answer(a) /\ ~aborted /\ Grown(e)
  /\ e.type = "model-response" /\ e.agent = a /\ e.call = AskedAs(a) /\ e.own \in Nat
  /\ e.own = reply'[a].cost

LEMMA CheckAnnounces ==
  ASSUME Check
  PROVE  UNCHANGED events \/ \E e : Announced(e)
<1>1. UNCHANGED events \/ events' = Append(events, Plain("budget-stop", 0))
  BY DEF Check, StopIfNeeded, EmitAndRecord, Log
<1>2. Plain("budget-stop", 0).type = "budget-stop" /\ Plain("budget-stop", 0).total = totalCost
  BY DEF Plain, Event
<1> QED
  BY <1>1, <1>2 DEF Announced, Grown

LEMMA FinalAnnounces ==
  ASSUME Final
  PROVE  \E e : Announced(e) /\ e.type = "final"
<1> DEFINE e == [Plain("final", 0) EXCEPT !.text = Output]
<1>1. events' = Append(events, e)
  BY DEF Final, EmitAndRecord
<1>2. e.type = "final" /\ e.total = totalCost
  BY DEF Plain, Event
<1> QED
  BY <1>1, <1>2 DEF Announced, Grown

LEMMA AnswerResponds ==
  ASSUME TypeInv, NEW a \in Agents, Answer(a), ~aborted
  PROVE  \E e : Responded(a, e)
<1>1. PICK response \in conf.answers :
        /\ reply'[a] = response
        /\ \E e : /\ events' = Append(events, e) /\ e.type = "model-response"
                  /\ e.agent = a /\ e.call = AskedAs(a)
                  /\ e.own = response.cost /\ e.text = response.text
        /\ Parallel => UNCHANGED <<providerCalls, totalCost>>
        /\ ~Parallel => /\ providerCalls' = Append(providerCalls, [call |-> AskedAs(a), agent |-> a])
                        /\ totalCost' = totalCost + response.cost
  BY AnswerFacts
<1>2. response.cost \in Nat
  BY RunFacts DEF TypeInv
<1> QED
  BY <1>1, <1>2 DEF Responded, Grown

\* Of every step.
LEMMA Growth ==
  ASSUME TypeInv, [Next]_vars
  PROVE  \/ Record
         \/ Start
         \/ UNCHANGED events
         \/ (Check \/ Final) /\ \E e : Announced(e)
         \/ \E a \in Agents : \E e : Requested(a, e)
         \/ \E a \in Agents : \E e : Responded(a, e)
         \/ \E e : Grown(e) /\ e.type \in {"model-output-chunk", "tool-call", "tool-result"}
<1>1. ASSUME NEW a \in Agents, Ask(a)
      PROVE  UNCHANGED events \/ \E e : Requested(a, e)
  BY <1>1, AskEvent DEF Requested, Grown
<1>2. ASSUME NEW a \in Agents, Turn(a), Answer(a)
      PROVE  UNCHANGED events \/ \E e : Responded(a, e)
  BY <1>2, AnswerFacts, AnswerResponds
<1>3. ASSUME NEW a \in Agents, Turn(a), ~Answer(a)
      PROVE  \/ UNCHANGED events
             \/ \E e : Grown(e) /\ e.type \in {"model-output-chunk", "tool-call", "tool-result"}
  BY <1>3, PlainTurn DEF Adds, Grown
<1>4. OuterKind => UNCHANGED events
  BY OuterKeeps
<1> QED
  BY <1>1, <1>2, <1>3, <1>4, CheckAnnounces, FinalAnnounces, StepKinds DEF OuterKind

\* The total of a run never falls.
LEMMA TotalGrows ==
  ASSUME TypeInv, [Next]_vars
  PROVE  totalCost \in Nat /\ totalCost' \in Nat /\ totalCost <= totalCost'
<1>0. /\ RunOK /\ LogOK /\ CallOK /\ FlagsOK /\ totalCost \in Nat
  BY DEF TypeInv, FlagsOK
<1>1. totalCost' \in Nat
  BY TypeStep DEF TypeInv, FlagsOK
<1>2. CASE Record
  <2>1. PICK n \in Nat : RecordStep(n)
    BY <1>0, <1>2, RecordSteps
  <2>2. CostUpTo \in [0..conf.agents -> Nat]
    BY <1>0, RepliesTyped, RunFacts, CostUpToType
  <2>3. n \in 0..conf.agents
    BY <1>0, <2>1, WaveSize, RunFacts DEF RecordStep
  <2>4. CostUpTo[n] \in Nat
    BY <2>2, <2>3
  <2>5. totalCost' = IF Parallel THEN totalCost + CostUpTo[n] ELSE totalCost
    BY <2>1 DEF RecordStep
  <2>6. totalCost' = totalCost + CostUpTo[n] \/ totalCost' = totalCost
    BY <2>5
  <2>7. PICK more, old, new : more \in Nat /\ more = CostUpTo[n] /\ old = totalCost /\ new = totalCost'
    BY <2>4
  <2>8. old \in Nat /\ (new = old + more \/ new = old)
    BY <1>0, <2>6, <2>7
  <2>9. old <= new
    BY <2>7, <2>8
  <2> QED
    BY <1>0, <1>1, <2>7, <2>9
<1>3. ASSUME NEW a \in Agents, Turn(a)
      PROVE  totalCost <= totalCost'
  <2>1. CASE Answer(a)
    <3>1. PICK response \in conf.answers :
            totalCost' = totalCost + response.cost \/ UNCHANGED totalCost
      BY <2>1 DEF Answer
    <3>2. response.cost \in Nat
      BY <1>0, RunFacts
    <3> QED
      BY <1>0, <3>1, <3>2
  <2>2. CASE ~Answer(a)
    BY <1>0, <1>3, <2>2, TurnMoves
  <2> QED
    BY <2>1, <2>2
<1>4. Start \/ Final \/ Check \/ (\E a \in Agents : Ask(a)) \/ OuterKind => totalCost' = totalCost
  BY EndFacts, CheckFacts, AskEvent, OuterKeeps
<1> QED
  BY <1>0, <1>1, <1>2, <1>3, <1>4, StepKinds DEF OuterKind

\* What a wave spends: never less with each turn.
LEMMA SpendingGrows ==
  ASSUME TypeInv, NEW n \in Nat, RecordStep(n)
  PROVE  /\ \A k \in 0..n : Spending(k) \in Nat
         /\ \A k \in 1..n : Spending(k - 1) <= Spending(k)
         /\ Spending(n) = totalCost' /\ totalCost <= Spending(0)
<1>0. RunOK /\ CallOK /\ totalCost \in Nat
  BY DEF TypeInv, FlagsOK
<1>1. conf.agents \in Nat /\ n <= conf.agents
  BY <1>0, WaveSize, RunFacts DEF RecordStep
<1>2. CostUpTo \in [0..conf.agents -> Nat]
  BY <1>0, RepliesTyped, RunFacts, CostUpToType
<1>3. /\ CostUpTo[0] = 0
      /\ \A k \in 1..n : CostUpTo[k] = CostUpTo[k - 1] + reply[k].cost /\ reply[k].cost \in Nat
  <2>1. \A k \in 0..conf.agents :
          CostUpTo[k] = IF k = 0 THEN 0 ELSE CostUpTo[k - 1] + reply[k].cost
    BY <1>1, CostUpToSums
  <2>2. \A k \in 1..n : k \in Agents
    BY <1>1 DEF Agents
  <2> QED
    BY <1>0, <1>1, <2>1, <2>2, RepliesTyped
<1>4. \A k \in 0..n : CostUpTo[k] \in Nat
  BY <1>1, <1>2
<1>5. totalCost' = IF Parallel THEN totalCost + CostUpTo[n] ELSE totalCost
  BY DEF RecordStep
<1> QED
  BY <1>0, <1>1, <1>3, <1>4, <1>5 DEF Spending

\* Of two turns of a wave, the later one bears no less.
LEMMA SpendingOrdered ==
  ASSUME TypeInv, NEW n \in Nat, RecordStep(n)
  PROVE  \A j, k \in 0..n : j <= k => Spending(j) <= Spending(k)
<1> DEFINE Ordered == {k \in Nat : k <= n => \A j \in 0..k : Spending(j) <= Spending(k)}
<1>1. 0 \in Ordered
  BY SpendingGrows
<1>2. ASSUME NEW k \in Ordered
      PROVE  k + 1 \in Ordered
  <2> SUFFICES ASSUME k + 1 <= n, NEW j \in 0..(k + 1)
               PROVE  Spending(j) <= Spending(k + 1)
    OBVIOUS
  <2>1. /\ k + 1 \in 1..n /\ (k + 1) - 1 = k /\ k \in 0..n /\ j \in 0..n
        /\ j = k + 1 \/ j \in 0..k
    OBVIOUS
  <2>2. /\ Spending(k) <= Spending(k + 1)
        /\ j \in 0..k => Spending(j) <= Spending(k)
        /\ Spending(j) \in Nat /\ Spending(k) \in Nat /\ Spending(k + 1) \in Nat
    BY <2>1, SpendingGrows
  <2> HIDE DEF Ordered
  <2> QED
    BY <2>1, <2>2
<1>3. Ordered = Nat
  <2> HIDE DEF Ordered
  <2>1. Ordered \in SUBSET Nat
    BY DEF Ordered
  <2> QED
    BY <1>1, <1>2, <2>1, NaturalInduction
<1> QED
  BY <1>3

LEMMA GrownPlaces ==
  ASSUME TypeInv, NEW e, Grown(e)
  PROVE  /\ Len(events) \in Nat /\ Len(events') = Len(events) + 1 /\ IsSeq(events) /\ IsSeq(events')
         /\ DOMAIN events = 1..Len(events) /\ DOMAIN events' = 1..(Len(events) + 1)
         /\ events'[Len(events) + 1] = e
         /\ \A k \in 1..Len(events) : events'[k] = events[k]
BY SeqFacts, AppendFacts DEF TypeInv, LogOK, Grown

LEMMA BearStep ==
  ASSUME TypeInv, BearInv, [Next]_vars
  PROVE  BearInv'
<1>0. /\ RunOK /\ LogOK /\ totalCost \in Nat /\ totalCost' \in Nat /\ totalCost <= totalCost'
      /\ Len(events) \in Nat /\ DOMAIN events = 1..Len(events)
      /\ DOMAIN events' = 1..Len(events') /\ Len(events') \in Nat
      /\ \A k \in 1..Len(events) : events'[k] = events[k]
  BY TotalGrows, PlacesKept DEF TypeInv
<1>1. CASE Record
  <2>1. PICK n \in Nat : RecordStep(n)
    BY <1>0, <1>1, RecordSteps
  <2>2. /\ Len(events') = Len(events) + n + (IF conf.protocol = "broadcast" THEN 1 ELSE 0)
        /\ \A k \in 1..n : /\ events'[Len(events) + k].type = "agent-turn"
                           /\ events'[Len(events) + k].total = Spending(k)
        /\ conf.protocol = "broadcast" =>
             /\ events'[Len(events) + n + 1].type = "broadcast"
             /\ events'[Len(events) + n + 1].total = totalCost'
        /\ n \in Nat \ {0}
    BY <2>1 DEF RecordStep
  <2>3. /\ \A k \in 0..n : Spending(k) \in Nat
        /\ Spending(n) = totalCost' /\ totalCost <= Spending(0)
        /\ \A j, k \in 0..n : j <= k => Spending(j) <= Spending(k)
    BY <2>1, SpendingGrows, SpendingOrdered
  <2> DEFINE End(k) == IF k <= Len(events) THEN 0 ELSE IF k - Len(events) <= n THEN k - Len(events) ELSE n
  <2>4. \A k \in DOMAIN events' :
          \/ k \in 1..Len(events) /\ events'[k] = events[k]
          \/ /\ k \in Nat /\ k > Len(events) /\ End(k) \in 1..n
             /\ events'[k].type \in {"agent-turn", "broadcast"}
             /\ events'[k].total = Spending(End(k))
    <3> SUFFICES ASSUME NEW k \in DOMAIN events', k > Len(events)
                 PROVE  /\ k \in Nat /\ End(k) \in 1..n
                        /\ events'[k].type \in {"agent-turn", "broadcast"}
                        /\ events'[k].total = Spending(End(k))
      BY <1>0
    <3>1. CASE k - Len(events) <= n
      <4>0. k \in Int /\ k - Len(events) \in 1..n
        BY <1>0, <3>1
      <4>1. PICK j \in 1..n : k = Len(events) + j
        BY <1>0, <4>0
      <4>2. End(k) = j /\ k \in Nat
        BY <1>0, <4>1
      <4> QED
        BY <2>2, <4>1, <4>2
    <3>2. CASE k - Len(events) > n
      <4>1. conf.protocol = "broadcast" /\ k = Len(events) + n + 1
        BY <1>0, <2>2, <3>2
      <4>2. End(k) = n /\ k \in Nat /\ n \in 1..n
        BY <1>0, <2>2, <4>1
      <4> QED
        BY <2>2, <2>3, <4>1, <4>2
    <3> QED
      BY <1>0, <2>2, <3>1, <3>2
  <2>5. \A j, k \in DOMAIN events' : j <= k /\ j > Len(events) /\ k > Len(events) => End(j) <= End(k)
    BY <1>0, <2>2
  <2> HIDE DEF End
  <2>6. \A k \in DOMAIN events' : events'[k].type \notin ChildEnds
    BY <1>0, <2>4 DEF BearInv, ChildEnds
  <2>7. \A k \in Of("model-response")' : events'[k].own \in Nat
    BY <1>0, <2>4 DEF BearInv, Of
  <2>8. \A k \in Bearing' : k \in Bearing \/ (k \in DOMAIN events' /\ k > Len(events))
    BY <1>0 DEF Bearing, BudgetStateChanges
  <2>9. ASSUME NEW k \in Bearing'
        PROVE  events'[k].total \in 0..totalCost'
    <3>1. CASE k \in Bearing
      <4>1. events'[k] = events[k] /\ events[k].total \in 0..totalCost
        BY <1>0, <3>1 DEF BearInv, Bearing, BudgetStateChanges
      <4> QED
        BY <1>0, <4>1
    <3>2. CASE k \in DOMAIN events' /\ k > Len(events)
      <4>1. End(k) \in 0..n /\ events'[k].total = Spending(End(k)) /\ n \in 0..n /\ End(k) <= n
        BY <1>0, <2>2, <2>4, <3>2
      <4> QED
        BY <1>0, <2>3, <4>1
    <3> QED
      BY <2>8, <3>1, <3>2
  <2>10. ASSUME NEW j \in Bearing', NEW k \in Bearing', j <= k
         PROVE  events'[j].total <= events'[k].total
    <3>0. j \in Int /\ k \in Int
      BY <1>0 DEF Bearing, BudgetStateChanges
    <3>1. CASE k \in Bearing
      <4>1. j \in Bearing
        BY <1>0, <2>8, <2>10, <3>0, <3>1 DEF Bearing, BudgetStateChanges
      <4>2. events'[k] = events[k] /\ events'[j] = events[j]
        BY <1>0, <3>1, <4>1 DEF Bearing, BudgetStateChanges
      <4> QED
        BY <2>10, <3>1, <4>1, <4>2 DEF BearInv
    <3>2. CASE k \in DOMAIN events' /\ k > Len(events) /\ j \in Bearing
      <4>1. End(k) \in 0..n /\ events'[k].total = Spending(End(k)) /\ 0 \in 0..n /\ 0 <= End(k)
        BY <1>0, <2>2, <2>4, <3>2
      <4>2. Spending(0) <= Spending(End(k)) /\ Spending(0) \in Nat /\ Spending(End(k)) \in Nat
        BY <2>3, <4>1
      <4>3. events'[j] = events[j] /\ events[j].total \in 0..totalCost
        BY <1>0, <3>2 DEF BearInv, Bearing, BudgetStateChanges
      <4> QED
        BY <1>0, <2>3, <4>1, <4>2, <4>3
    <3>3. CASE /\ k \in DOMAIN events' /\ k > Len(events)
               /\ j \in DOMAIN events' /\ j > Len(events)
      <4>1. /\ End(k) \in 0..n /\ events'[k].total = Spending(End(k))
            /\ End(j) \in 0..n /\ events'[j].total = Spending(End(j)) /\ End(j) <= End(k)
        BY <1>0, <2>4, <2>5, <2>10, <3>3
      <4> QED
        BY <2>3, <4>1
    <3> QED
      BY <2>8, <3>1, <3>2, <3>3
  <2> QED
    BY <2>6, <2>7, <2>9, <2>10 DEF BearInv
<1>2. CASE Start
  <2>1. \A k \in DOMAIN events' : events'[k].type = "role-assignment"
    BY <1>0, <1>2, StartSteps
  <2> QED
    BY <2>1 DEF BearInv, Bearing, BudgetStateChanges, CostBearing, ChildEnds, Of
<1>3. CASE UNCHANGED events
  <2>1. Bearing' = Bearing /\ Of("model-response")' = Of("model-response")
    BY <1>3 DEF Bearing, BudgetStateChanges, Of
  <2> QED
    BY <1>0, <1>3, <2>1 DEF BearInv
<1>4. ASSUME NEW e, Grown(e), e.type \notin CostBearing \cup ChildEnds,
             e.type = "model-response" => e.own \in Nat
      PROVE  BearInv'
  <2>1. DOMAIN events' = 1..(Len(events) + 1) /\ events'[Len(events) + 1] = e
    BY <1>4, GrownPlaces
  <2>2. Bearing' = Bearing
    BY <1>0, <1>4, <2>1 DEF Bearing, BudgetStateChanges
  <2>3. \A k \in Bearing : events'[k] = events[k]
    BY <1>0 DEF Bearing, BudgetStateChanges
  <2>4. \A k \in DOMAIN events' : events'[k].type \notin ChildEnds
    BY <1>0, <1>4, <2>1 DEF BearInv
  <2>5. \A k \in Of("model-response")' : events'[k].own \in Nat
    BY <1>0, <1>4, <2>1 DEF BearInv, Of
  <2>6. \A k \in Bearing : events[k].total \in 0..totalCost'
    BY <1>0 DEF BearInv
  <2> QED
    BY <2>2, <2>3, <2>4, <2>5, <2>6 DEF BearInv
<1>5. ASSUME NEW e, Announced(e)
      PROVE  BearInv'
  <2>1. DOMAIN events' = 1..(Len(events) + 1) /\ events'[Len(events) + 1] = e
    BY <1>5, GrownPlaces DEF Announced
  <2>2. /\ e.type \in {"budget-stop", "final"} /\ e.total = totalCost
    BY <1>5 DEF Announced
  <2>3. Bearing' = Bearing \cup {Len(events) + 1} /\ Bearing \subseteq 1..Len(events)
    BY <1>0, <2>1, <2>2 DEF Bearing, BudgetStateChanges, CostBearing
  <2>4. \A k \in Bearing : events'[k] = events[k]
    BY <1>0, <2>3
  <2>5. \A k \in DOMAIN events' : events'[k].type \notin ChildEnds
    BY <1>0, <2>1, <2>2 DEF BearInv, ChildEnds
  <2>6. \A k \in Of("model-response")' : events'[k].own \in Nat
    BY <1>0, <2>1, <2>2 DEF BearInv, Of
  <2>7. \A k \in Bearing' : events'[k].total \in 0..totalCost /\ events'[k].total \in 0..totalCost'
    BY <1>0, <2>1, <2>2, <2>3, <2>4 DEF BearInv
  <2>8. \A j, k \in Bearing' : j <= k => events'[j].total <= events'[k].total
    <3> SUFFICES ASSUME NEW j \in Bearing', NEW k \in Bearing', j <= k
                 PROVE  events'[j].total <= events'[k].total
      OBVIOUS
    <3>1. CASE k = Len(events) + 1
      BY <1>0, <2>1, <2>2, <2>7, <3>1
    <3>2. CASE k \in Bearing
      <4>1. j \in Bearing
        BY <1>0, <2>3, <3>2
      <4> QED
        BY <2>4, <3>2, <4>1 DEF BearInv
    <3> QED
      BY <2>3, <3>1, <3>2
  <2> QED
    BY <2>5, <2>6, <2>7, <2>8 DEF BearInv
<1>6. ASSUME NEW a \in Agents, NEW e, Requested(a, e) \/ Responded(a, e)
      PROVE  BearInv'
  <2>1. /\ Grown(e) /\ e.type \in {"model-request", "model-response"}
        /\ e.type = "model-response" => e.own \in Nat
    BY <1>6 DEF Requested, Responded
  <2> QED
    BY <1>4, <2>1 DEF CostBearing, ChildEnds
<1>7. ASSUME NEW e, Grown(e), e.type \in {"model-output-chunk", "tool-call", "tool-result"}
      PROVE  BearInv'
  BY <1>4, <1>7 DEF CostBearing, ChildEnds
<1> QED
  BY <1>1, <1>2, <1>3, <1>5, <1>6, <1>7, Growth

LEMMA BearInit == Init => BearInv
BY DEF Init, BearInv, Bearing, BudgetStateChanges, Of

-----------------------------------------------------------------------------
(* What has been spent, and what of it the run has counted                 *)

\* A run that has not failed, and is not about to.
Sound == Healthy /\ (InWave => \A a \in Wave : call[a] # "failed")

\* What the answers of a parallel wave cost is counted when the wave is recorded.
Shares == [a \in Agents |-> IF call[a] \in Answered THEN reply[a].cost ELSE 0]

Due == IF Parallel /\ InWave THEN RunningSum(Shares, conf.agents)[Cardinality(Wave)] ELSE 0

CostInv == Sound => Spent = totalCost + Due

LEMMA SoundStays ==
  ASSUME TypeInv, WaveInv, [Next]_vars, Sound'
  PROVE  Sound
<1>0. /\ conf' = conf /\ RunOK /\ LogOK /\ CallOK /\ FlagsOK
      /\ phase \in {"ask", "turns"} => Wave \subseteq Agents
  BY ConfKept, WaveInAgents DEF TypeInv
<1>1. Healthy /\ Healthy'
  BY UnhealthyStays DEF Sound
<1>2. CASE Start \/ Final \/ Check
  BY <1>1, <1>2, EndFacts, CheckFacts DEF Sound, InWave
<1>3. ASSUME NEW a \in Agents, Ask(a)
      PROVE  Sound
  <2>1. /\ phase = "ask" /\ Wave' = Wave /\ call[a] = "idle" /\ phase' \in {"ask", "turns"}
        /\ \A b \in Agents : b # a => call'[b] = call[b]
    BY <1>3, AskEvent
  <2> QED
    BY <1>0, <1>1, <2>1 DEF Sound, InWave
<1>4. ASSUME NEW a \in Agents, Turn(a)
      PROVE  Sound
  <2>1. phase = "turns" /\ phase' = "turns" /\ Wave' = Wave
    BY <1>0, <1>1, <1>4, TurnInWave
  <2>2. call[a] \in Active /\ \A b \in Agents : b # a => call'[b] = call[b]
    BY <1>0, <1>4, TurnMoves
  <2> QED
    BY <1>0, <1>1, <2>1, <2>2 DEF Sound, InWave, Active
<1>5. CASE Record
  <2>1. PICK n \in Nat : RecordStep(n)
    BY <1>0, <1>5, RecordSteps
  <2> QED
    BY <1>1, <2>1 DEF RecordStep, WaveDone, Sound
<1>6. CASE OuterKind
  <2>1. Wave' = Wave /\ call' = call
    BY <1>6, OuterKeeps
  <2>2. InWave' = InWave
    BY <1>1, <1>6, OuterPhase DEF InWave
  <2> QED
    BY <1>1, <2>1, <2>2 DEF Sound
<1> QED
  BY <1>2, <1>3, <1>4, <1>5, <1>6, StepKinds DEF OuterKind

LEMMA SpentTyped ==
  ASSUME NEW log, IsSeq(log), \A k \in 1..Len(log) : OwnCost(log[k]) \in Nat
  PROVE  \A k \in 0..Len(log) : SpentUpTo(log)[k] \in Nat
<1> DEFINE Typed == {k \in Nat : k <= Len(log) => SpentUpTo(log)[k] \in Nat}
<1>1. Len(log) \in Nat
  BY SeqFacts
<1>2. 0 \in Typed
  BY SpentSteps
<1>3. ASSUME NEW k \in Typed
      PROVE  k + 1 \in Typed
  <2> SUFFICES ASSUME k + 1 <= Len(log)
               PROVE  SpentUpTo(log)[k + 1] \in Nat
    OBVIOUS
  <2>1. k + 1 \in 1..Len(log) /\ (k + 1) - 1 = k /\ SpentUpTo(log)[k] \in Nat
    BY <1>1
  <2>2. SpentUpTo(log)[k + 1] = SpentUpTo(log)[k] + OwnCost(log[k + 1])
    BY <2>1, SpentSteps
  <2>3. OwnCost(log[k + 1]) \in Nat
    BY <2>1
  <2> QED
    BY <2>1, <2>2, <2>3
<1>4. Typed = Nat
  <2> HIDE DEF Typed
  <2>1. Typed \in SUBSET Nat
    BY DEF Typed
  <2> QED
    BY <1>2, <1>3, <2>1, NaturalInduction
<1> QED
  BY <1>4

LEMMA SpentIsNat ==
  ASSUME TypeInv, BearInv
  PROVE  Spent \in Nat
<1>1. IsSeq(events) /\ Len(events) \in Nat /\ DOMAIN events = 1..Len(events)
  BY SeqFacts DEF TypeInv, LogOK
<1>2. \A k \in 1..Len(events) : OwnCost(events[k]) \in Nat
  BY <1>1 DEF OwnCost, BearInv, Of
<1>3. Len(events) \in 0..Len(events)
  BY <1>1
<1> QED
  BY <1>1, <1>2, <1>3, SpentTyped DEF Spent

\* Without an answer nothing is spent.
LEMMA SpentStays ==
  ASSUME TypeInv, BearInv, [Next]_vars, Of("model-response")' = Of("model-response")
  PROVE  Spent' = Spent
<1>1. /\ Len(events) \in Nat /\ Len(events') \in Nat /\ Len(events) <= Len(events')
      /\ Extends(events', events) /\ IsSeq(events) /\ IsSeq(events')
      /\ DOMAIN events' = 1..Len(events') /\ Of("model-response") \subseteq 1..Len(events)
  BY PlacesKept DEF TypeInv, LogOK, Extends
<1>2. \A k \in (Len(events) + 1)..Len(events') : events'[k].type # "model-response"
  BY <1>1 DEF Of
<1>3. /\ SpentUpTo(events')[Len(events)] = SpentUpTo(events)[Len(events)]
      /\ Len(events) \in 0..Len(events') /\ Len(events') \in Len(events)..Len(events')
  <2>1. Len(events) \in 0..Len(events)
    BY <1>1
  <2> QED
    BY <1>1, <2>1, SpentKept
<1>4. SpentUpTo(events')[Len(events)] \in Nat
  BY <1>3, SpentIsNat DEF Spent
<1>5. SpentUpTo(events')[Len(events')] = SpentUpTo(events')[Len(events)]
  BY <1>1, <1>2, <1>3, <1>4, SpentSame
<1> QED
  BY <1>3, <1>5 DEF Spent

LEMMA SpentAdded ==
  ASSUME TypeInv, NEW e, Grown(e), e.type = "model-response"
  PROVE  Spent' = Spent + e.own
<1>1. IsSeq(events) /\ events' = Append(events, e)
  BY DEF TypeInv, LogOK, Grown
<1> QED
  BY <1>1, SpansAppended DEF Spent, OwnCost

\* As long as the shares are the same, as much is due.
LEMMA DueStays ==
  ASSUME TypeInv, conf' = conf, InWave, InWave', Wave' = Wave,
         \A b \in Agents : /\ call'[b] \in Answered <=> call[b] \in Answered
                           /\ reply'[b] = reply[b]
  PROVE  Due' = Due
<1>1. Agents' = Agents /\ Parallel' = Parallel
  BY OptionsKept
<1>2. Shares' = Shares
  BY <1>1 DEF Shares
<1> QED
  BY <1>1, <1>2 DEF Due

\* An answer is due with its cost.
LEMMA DueRaised ==
  ASSUME TypeInv, conf' = conf, Parallel, InWave, InWave', Wave' = Wave, NEW a \in Wave,
         call[a] = "called", call'[a] = "answered", reply'[a].cost \in Nat,
         \A b \in Agents : b # a => call'[b] = call[b] /\ reply'[b] = reply[b]
  PROVE  Due \in Nat /\ Due' = Due + reply'[a].cost
<1>1. Agents' = Agents /\ Parallel' = Parallel /\ RunOK /\ CallOK
  BY OptionsKept DEF TypeInv
<1>2. /\ conf.agents \in Nat /\ Agents = 1..conf.agents
      /\ Cardinality(Wave) \in 0..conf.agents /\ a \in 1..Cardinality(Wave)
  BY <1>1, RunFacts, WaveSize DEF Agents
<1>3. \A n \in 1..conf.agents :
        Shares[n] \in Nat /\ Shares'[n] = Shares[n] + IF n = a THEN reply'[a].cost ELSE 0
  <2>1. ASSUME NEW n \in Agents
        PROVE  /\ Shares[n] = IF call[n] \in Answered THEN reply[n].cost ELSE 0
               /\ Shares'[n] = IF call'[n] \in Answered THEN reply'[n].cost ELSE 0
               /\ reply[n].cost \in Nat
    BY <1>1, RepliesTyped DEF Shares
  <2>2. ASSUME NEW n \in Agents
        PROVE  Shares[n] \in Nat /\ Shares'[n] = Shares[n] + IF n = a THEN reply'[a].cost ELSE 0
    BY <2>1 DEF Answered
  <2> QED
    BY <1>2, <2>2
<1>4. PICK N, less, more, cost : N = conf.agents /\ less = Shares /\ more = Shares' /\ cost = reply'[a].cost
  OBVIOUS
<1>5. \A n \in 0..N : /\ RunningSum(less, N)[n] \in Nat
                      /\ RunningSum(more, N)[n] =
                           RunningSum(less, N)[n] + IF a \in 1..n THEN cost ELSE 0
  <2>1. Raises(less, more, N, a, cost)
    BY <1>3, <1>4 DEF Raises
  <2>2. N \in Nat /\ cost \in Nat
    BY <1>2, <1>4
  <2> QED
    BY <2>1, <2>2, SumRaised
<1>6. /\ RunningSum(Shares, conf.agents)[Cardinality(Wave)] \in Nat
      /\ RunningSum(Shares', conf.agents)[Cardinality(Wave)] =
           RunningSum(Shares, conf.agents)[Cardinality(Wave)] + reply'[a].cost
  BY <1>2, <1>4, <1>5
<1> QED
  BY <1>1, <1>6 DEF Due

LEMMA NothingDue ==
  ASSUME TypeInv, conf' = conf, Wave' = Wave, \A b \in Agents : call'[b] = "idle"
  PROVE  Due' = 0
<1>1. /\ conf.agents \in Nat /\ Agents = 1..conf.agents /\ Cardinality(Wave) \in 0..conf.agents
      /\ Agents' = Agents /\ Parallel' = Parallel
  BY RunFacts, WaveSize, OptionsKept DEF TypeInv, Agents
<1>2. \A n \in 1..conf.agents : Shares'[n] = 0
  BY <1>1 DEF Shares, Answered
<1>3. RunningSum(Shares', conf.agents)[Cardinality(Wave)] = 0
  BY <1>1, <1>2, SumOfNothing
<1> QED
  BY <1>1, <1>3 DEF Due

\* Once all agents of a parallel wave have done their turns, what is due is their cost.
LEMMA AllDue ==
  ASSUME TypeInv, Parallel, WaveDone
  PROVE  Due = CostUpTo[Cardinality(Wave)]
<1> DEFINE N == Cardinality(Wave)
           Same == {n \in Nat : n <= N => RunningSum(Shares, conf.agents)[n] = CostUpTo[n]}
<1>1. /\ conf.agents \in Nat /\ Agents = 1..conf.agents /\ N \in Nat /\ N <= conf.agents
      /\ Wave = 1..N
  BY RunFacts, WaveSize DEF TypeInv, Agents
<1>2. \A n \in 0..conf.agents :
        CostUpTo[n] = IF n = 0 THEN 0 ELSE CostUpTo[n - 1] + reply[n].cost
  BY <1>1, CostUpToSums
<1>3. 0 \in Same
  BY <1>1, <1>2, RunningSumSteps
<1>4. ASSUME NEW n \in Same
      PROVE  n + 1 \in Same
  <2> SUFFICES ASSUME n + 1 <= N
               PROVE  RunningSum(Shares, conf.agents)[n + 1] = CostUpTo[n + 1]
    OBVIOUS
  <2>1. /\ n + 1 \in 1..conf.agents /\ (n + 1) - 1 = n /\ n + 1 \in 0..conf.agents /\ n + 1 \in Wave
        /\ RunningSum(Shares, conf.agents)[n] = CostUpTo[n]
    BY <1>1
  <2>2. RunningSum(Shares, conf.agents)[n + 1] = RunningSum(Shares, conf.agents)[n] + Shares[n + 1]
    BY <1>1, <2>1, RunningSumSteps
  <2>3. Shares[n + 1] = reply[n + 1].cost
    BY <1>1, <2>1 DEF Shares, WaveDone, Answered
  <2>4. CostUpTo[n + 1] = CostUpTo[n] + reply[n + 1].cost
    BY <1>2, <2>1
  <2> QED
    BY <2>1, <2>2, <2>3, <2>4
<1>5. Same = Nat
  <2> HIDE DEF Same
  <2>1. Same \in SUBSET Nat
    BY DEF Same
  <2> QED
    BY <1>3, <1>4, <2>1, NaturalInduction
<1>6. RunningSum(Shares, conf.agents)[N] = CostUpTo[N]
  BY <1>1, <1>5
<1> QED
  BY <1>6 DEF Due, WaveDone, InWave

LEMMA CostStep ==
  ASSUME TypeInv, CountInv, WaveInv, BearInv, CostInv, [Next]_vars
  PROVE  CostInv'
<1> SUFFICES ASSUME Sound'
             PROVE  Spent' = totalCost' + Due'
  BY DEF CostInv
<1>0. /\ conf' = conf /\ RunOK /\ LogOK /\ CallOK /\ FlagsOK /\ TypeInv'
      /\ Agents' = Agents /\ Parallel' = Parallel
      /\ phase \in {"ask", "turns"} => Wave \subseteq Agents
      /\ Sound /\ Healthy /\ Healthy' /\ totalCost \in Nat
  BY ConfKept, OptionsKept, WaveInAgents, SoundStays, TypeStep DEF TypeInv, Sound, FlagsOK
<1>s. Spent = totalCost + Due
  BY <1>0 DEF CostInv
<1>1. CASE Start \/ Final
  <2>1. totalCost' = totalCost /\ ~InWave /\ ~InWave' /\ Of("model-response")' = Of("model-response")
    BY <1>1, EndFacts DEF InWave
  <2> QED
    BY <1>s, <2>1, SpentStays DEF Due
<1>2. CASE Check
  <2>1. /\ ~InWave /\ totalCost' = totalCost /\ Of("model-response")' = Of("model-response")
        /\ Wave' = Wave /\ \A b \in Agents : call'[b] = "idle"
    BY <1>0, <1>2, CheckFacts DEF InWave
  <2>2. Due' = 0
    BY <1>0, <2>1, NothingDue
  <2> QED
    BY <1>s, <2>1, <2>2, SpentStays DEF Due
<1>3. ASSUME NEW a \in Agents, Ask(a)
      PROVE  Spent' = totalCost' + Due'
  <2>1. Of("model-response")' = Of("model-response")
    <3>1. Adds({"model-request"}, {a})
      BY <1>3, SmallSteps
    <3> QED
      BY <1>0, <3>1, OfKept
  <2>2. /\ UNCHANGED <<reply, totalCost>> /\ Wave' = Wave /\ InWave /\ InWave'
        /\ call[a] = "idle" /\ call'[a] \in {"called", "failed"}
        /\ \A b \in Agents : b # a => call'[b] = call[b]
    BY <1>0, <1>3, AskEvent DEF InWave
  <2>3. Due' = Due
    BY <1>0, <2>2, DueStays DEF Answered
  <2> QED
    BY <1>s, <2>1, <2>2, <2>3, SpentStays
<1>4. ASSUME NEW a \in Agents, Turn(a)
      PROVE  Spent' = totalCost' + Due'
  <2>1. /\ phase = "turns" /\ a \in Wave /\ InWave /\ InWave' /\ Wave' = Wave
    BY <1>0, <1>4, TurnInWave DEF InWave
  <2>2. /\ call[a] \in Active /\ call'[a] \in Active \cup {"done"}
        /\ \A b \in Agents : b # a => call'[b] = call[b]
        /\ call'[a] = "called" => call[a] = "called"
    BY <1>0, <1>4, <2>1, TurnMoves DEF Sound
  <2>3. CASE Answer(a) /\ ~aborted
    <3>1. PICK e : Responded(a, e)
      BY <2>3, AnswerResponds
    <3>2. PICK response \in conf.answers :
            /\ call'[a] \in {"failed", "answered"}
            /\ reply'[a] = response /\ \A b \in Agents : b # a => reply'[b] = reply[b]
            /\ \E e_1 : /\ events' = Append(events, e_1) /\ e_1.type = "model-response"
                        /\ e_1.agent = a /\ e_1.call = AskedAs(a)
                        /\ e_1.own = response.cost /\ e_1.text = response.text
            /\ Parallel => UNCHANGED <<providerCalls, totalCost>>
            /\ ~Parallel => /\ providerCalls' = Append(providerCalls, [call |-> AskedAs(a), agent |-> a])
                            /\ totalCost' = totalCost + response.cost
      BY <2>3, AnswerFacts
    <3>3. Spent' = Spent + reply'[a].cost /\ reply'[a].cost \in Nat
      BY <3>1, SpentAdded DEF Responded
    <3>4. call[a] = "called" /\ call'[a] = "answered"
      BY <2>2, <2>3, <3>2, AnswerFacts DEF Active
    <3>5. CASE Parallel
      <4>1. Due \in Nat /\ Due' = Due + reply'[a].cost
        BY <1>0, <2>1, <2>2, <3>2, <3>3, <3>4, <3>5, DueRaised
      <4> QED
        BY <1>0, <1>s, <3>2, <3>3, <3>5, <4>1
    <3>6. CASE ~Parallel
      BY <1>0, <1>s, <3>2, <3>3, <3>6 DEF Due
    <3> QED
      BY <3>5, <3>6
  <2>4. CASE ~(Answer(a) /\ ~aborted)
    <3>1. /\ ~Answer(a) /\ UNCHANGED <<reply, totalCost>>
          /\ call[a] = "called" => call'[a] = "called"
      BY <1>0, <1>4, <2>2, <2>4, AnswerFacts, TurnMoves DEF Active
    <3>2. Of("model-response")' = Of("model-response")
      BY <1>4, <3>1, TurnOf
    <3>3. Due' = Due
      BY <1>0, <2>1, <2>2, <3>1, DueStays DEF Answered, Active
    <3> QED
      BY <1>s, <3>1, <3>2, <3>3, SpentStays
  <2> QED
    BY <2>3, <2>4
<1>5. CASE Record
  <2>1. PICK n \in Nat : RecordStep(n)
    BY <1>0, <1>5, RecordSteps
  <2>2. /\ WaveDone /\ n = Cardinality(Wave) /\ phase' = "check"
        /\ totalCost' = IF Parallel THEN totalCost + CostUpTo[n] ELSE totalCost
    BY <2>1 DEF RecordStep
  <2>3. Of("model-response")' = Of("model-response")
    BY <1>0, <2>1, RecordOf
  <2>4. Spent' = Spent /\ Due' = 0
    BY <2>2, <2>3, SpentStays DEF Due, InWave
  <2>5. Spent' \in Nat
    BY <2>4, SpentIsNat
  <2>6. CASE Parallel
    BY <1>0, <1>s, <2>2, <2>4, <2>5, <2>6, AllDue
  <2>7. CASE ~Parallel
    BY <1>0, <1>s, <2>2, <2>4, <2>7 DEF Due
  <2> QED
    BY <2>6, <2>7
<1>6. CASE OuterKind
  <2>1. /\ UNCHANGED <<call, reply, totalCost>> /\ Wave' = Wave
        /\ Of("model-response")' = Of("model-response")
    BY <1>6, OuterKeeps
  <2>2. InWave' = InWave
    BY <1>0, <1>6, OuterPhase DEF InWave
  <2>3. Due' = Due
    <3>1. CASE InWave
      BY <1>0, <2>1, <2>2, <3>1, DueStays
    <3>2. CASE ~InWave
      BY <2>2, <3>2 DEF Due
    <3> QED
      BY <3>1, <3>2
  <2> QED
    BY <1>s, <2>1, <2>3, SpentStays
<1> QED
  BY <1>1, <1>2, <1>3, <1>4, <1>5, <1>6, StepKinds DEF OuterKind

LEMMA EmptySpent ==
  ASSUME events = <<>>
  PROVE  Spent = 0 /\ SpansAfter(events) = NoSpans
<1>1. IsSeq(<<>>) /\ Len(<<>>) = 0
  BY EmptyIsSeq
<1> QED
  BY <1>1, SpentSteps, SpansSteps DEF Spent, SpansAfter

LEMMA CostInit == Init => CostInv
<1> SUFFICES ASSUME Init
             PROVE  Spent = totalCost + Due
  BY DEF CostInv
<1>1. events = <<>> /\ totalCost = 0 /\ ~InWave
  BY DEF Init, InWave
<1> QED
  BY <1>1, EmptySpent DEF Due

-----------------------------------------------------------------------------
(* What the tracer counts                                                  *)

Spans == SpansAfter(events)

\* Whoever is called has a span open under the number of its latest request, also in a
\* run that has failed.
OpenCallInv ==
  \A a \in Agents : call[a] = "called" =>
    \E q \in DOMAIN events : LastBy("model-request", a, q) /\ events[q].call \in Spans.calls

\* The tracer counts what has been spent.
LastInv == Spans.last = Spent

LEMMA SpansGrow ==
  ASSUME TypeInv, NEW e, Grown(e)
  PROVE  SpansMove(Spans, e, Spans')
<1>1. IsSeq(events) /\ events' = Append(events, e)
  BY DEF TypeInv, LogOK, Grown
<1> QED
  BY <1>1, SpansAppended, SpansFields DEF Spans

LEMMA OpenCallsKept ==
  ASSUME TypeInv, OpenCallInv, [Next]_vars, Of("model-request")' = Of("model-request"),
         Spans.calls \subseteq Spans'.calls,
         \A b \in Agents : call'[b] = "called" => call[b] = "called"
  PROVE  OpenCallInv'
<1>1. Agents' = Agents
  BY ConfKept, OptionsKept
<1>2. ASSUME NEW a \in Agents, call'[a] = "called"
      PROVE  \E q \in DOMAIN events' : LastBy("model-request", a, q)' /\ events'[q].call \in Spans'.calls
  <2>1. PICK q \in DOMAIN events : LastBy("model-request", a, q) /\ events[q].call \in Spans.calls
    BY <1>2 DEF OpenCallInv
  <2>2. LastBy("model-request", a, q)' /\ q \in DOMAIN events' /\ events'[q] = events[q]
    BY <2>1, LastByKept
  <2> QED
    BY <2>1, <2>2
<1> QED
  BY <1>1, <1>2 DEF OpenCallInv

LEMMA OpenCallStep ==
  ASSUME TypeInv, WaveInv, RequestInv, OpenCallInv, [Next]_vars
  PROVE  OpenCallInv'
<1>0. /\ conf' = conf /\ RunOK /\ LogOK /\ CallOK /\ FlagsOK /\ Agents' = Agents
  BY ConfKept, OptionsKept DEF TypeInv
<1>n. ASSUME \A b \in Agents : call'[b] # "called"
      PROVE  OpenCallInv'
  BY <1>0, <1>n DEF OpenCallInv
<1>u. ASSUME UNCHANGED events, \A b \in Agents : call'[b] = "called" => call[b] = "called"
      PROVE  OpenCallInv'
  BY <1>u, OfUnchanged, OpenCallsKept DEF Spans
<1>1. CASE Start \/ Final
  <2>1. call' = call /\ phase \in {"setup", "output"}
    BY <1>1, EndFacts
  <2>2. \A b \in Agents : call[b] \notin Active
    BY <2>1 DEF WaveInv, Healthy, InWave
  <2> QED
    BY <1>n, <2>1, <2>2 DEF Active
<1>2. CASE Check
  BY <1>n, <1>2, CheckFacts
<1>3. ASSUME NEW a \in Agents, Ask(a)
      PROVE  OpenCallInv'
  <2>1. \A b \in Agents : b # a => call'[b] = call[b]
    BY <1>3, AskEvent
  <2>2. CASE aborted
    BY <1>u, <1>3, <2>1, <2>2, AskEvent
  <2>3. CASE ~aborted
    <3>1. PICK e : events' = Append(events, e) /\ e.type = "model-request" /\ e.agent = a
      BY <1>3, <2>3, AskEvent
    <3>2. Spans'.calls = Spans.calls \cup {e.call}
      BY <3>1, SpansGrow DEF Grown, SpansMove
    <3>3. PICK new \in Nat :
            /\ events'[new] = e /\ Of("model-request")' = Of("model-request") \cup {new}
            /\ new \in DOMAIN events' /\ \A k \in Of("model-request") : k < new
      BY <1>0, <3>1, AppendedPlace
    <3>4. /\ LastBy("model-request", a, new)'
          /\ \A b, k : b # a /\ LastBy("model-request", b, k) =>
               /\ LastBy("model-request", b, k)' /\ k \in DOMAIN events' /\ events'[k] = events[k]
      <4>1. /\ LastBy("model-request", e.agent, new)'
            /\ \A b, k : b # e.agent /\ LastBy("model-request", b, k) =>
                 /\ LastBy("model-request", b, k)' /\ k \in DOMAIN events' /\ events'[k] = events[k]
        BY <3>3, LastByAppended
      <4>2. e.agent = a
        BY <3>1
      <4> QED
        BY <4>1, <4>2
    <3>5. ASSUME NEW b \in Agents, call'[b] = "called"
          PROVE  \E q \in DOMAIN events' :
                   LastBy("model-request", b, q)' /\ events'[q].call \in Spans'.calls
      <4>1. CASE b = a
        BY <3>2, <3>3, <3>4, <4>1
      <4>2. CASE b # a
        <5>1. PICK q \in DOMAIN events : LastBy("model-request", b, q) /\ events[q].call \in Spans.calls
          BY <2>1, <3>5, <4>2 DEF OpenCallInv
        <5> QED
          BY <3>2, <3>4, <4>2, <5>1
      <4> QED
        BY <4>1, <4>2
    <3> QED
      BY <1>0, <3>5 DEF OpenCallInv
  <2> QED
    BY <2>2, <2>3
<1>4. ASSUME NEW a \in Agents, Turn(a)
      PROVE  OpenCallInv'
  <2>1. /\ \A b \in Agents : b # a => call'[b] = call[b]
        /\ call'[a] = "called" => call[a] = "called"
    BY <1>0, <1>4, TurnMoves
  <2>2. Of("model-request")' = Of("model-request")
    BY <1>4, TurnOf DEF TurnTypes
  <2>3. CASE UNCHANGED events
    BY <1>u, <2>1, <2>3
  <2>4. CASE Answer(a) /\ ~aborted
    <3>1. PICK e : Responded(a, e)
      BY <2>4, AnswerResponds
    <3>2. Grown(e) /\ e.type = "model-response" /\ e.agent = a /\ e.call = AskedAs(a)
      BY <3>1 DEF Responded
    <3>3. Spans.calls \ {e.call} \subseteq Spans'.calls
      BY <3>2, SpansGrow DEF SpansMove
    <3>4. call[a] = "called" /\ call'[a] # "called"
      BY <2>4, AnswerFacts
    <3>5. PICK q0 \in DOMAIN events : LastBy("model-request", a, q0)
      BY <3>4 DEF OpenCallInv
    <3>6. e.call = events[q0].call
      BY <3>2, <3>5, LatestIsLast DEF AskedAs
    <3>7. ASSUME NEW b \in Agents, call'[b] = "called"
          PROVE  \E q \in DOMAIN events' :
                   LastBy("model-request", b, q)' /\ events'[q].call \in Spans'.calls
      <4>1. b # a /\ call[b] = "called"
        BY <2>1, <3>4, <3>7
      <4>2. PICK q \in DOMAIN events : LastBy("model-request", b, q) /\ events[q].call \in Spans.calls
        BY <4>1 DEF OpenCallInv
      <4>3. /\ q \in Of("model-request") /\ events[q].agent = b
            /\ q0 \in Of("model-request") /\ events[q0].agent = a
        BY <3>5, <4>2 DEF LastBy
      <4>4. events[q].call # events[q0].call
        <5>1. q # q0 /\ events[q].call = Nth(q) /\ events[q0].call = Nth(q0)
          BY <4>1, <4>3 DEF RequestInv
        <5>2. Nth(q) # Nth(q0)
          BY <1>0, <4>3, <5>1, NthFacts
        <5> QED
          BY <5>1, <5>2
      <4>5. LastBy("model-request", b, q)' /\ q \in DOMAIN events' /\ events'[q] = events[q]
        BY <2>2, <4>2, LastByKept
      <4> QED
        BY <3>3, <3>6, <4>2, <4>4, <4>5
    <3> QED
      BY <1>0, <3>7 DEF OpenCallInv
  <2>5. CASE ~Answer(a)
    <3>1. Adds({"model-output-chunk", "tool-call", "tool-result"}, Agents)
      BY <1>4, <2>5, PlainTurn
    <3>2. CASE UNCHANGED events
      BY <2>3, <3>2
    <3>3. CASE \E e : Grown(e) /\ e.type \in {"model-output-chunk", "tool-call", "tool-result"}
      <4>1. PICK e : Grown(e) /\ e.type \in {"model-output-chunk", "tool-call", "tool-result"}
        BY <3>3
      <4>2. e.type \notin CostBearing \cup Provenance
        BY <4>1 DEF CostBearing, Provenance
      <4>3. Spans' = Spans
        BY <4>1, <4>2, SpansGrow DEF SpansMove
      <4> QED
        BY <2>1, <2>2, <4>3, OpenCallsKept
    <3> QED
      BY <3>1, <3>2, <3>3 DEF Adds, Grown
  <2>6. CASE Answer(a) /\ aborted
    BY <2>3, <2>6, AnswerFacts
  <2> QED
    BY <2>4, <2>5, <2>6
<1>5. CASE Record
  <2>1. PICK n \in Nat : RecordStep(n)
    BY <1>0, <1>5, RecordSteps
  <2>2. call' = call /\ phase = "turns" /\ \A a \in Wave : call[a] = "done"
    BY <2>1 DEF RecordStep, WaveDone, WaveVars
  <2>3. \A b \in Agents : call[b] # "called"
    BY <2>2 DEF WaveInv, Healthy, InWave, Active
  <2> QED
    BY <1>n, <2>2, <2>3
<1>6. CASE OuterKind
  BY <1>u, <1>6, OuterKeeps
<1> QED
  BY <1>1, <1>2, <1>3, <1>4, <1>5, <1>6, StepKinds DEF OuterKind

LEMMA OpenCallInit == Init => OpenCallInv
BY DEF Init, OpenCallInv, Agents

LEMMA SpentGrow ==
  ASSUME TypeInv, BearInv, NEW e, Grown(e)
  PROVE  Spent \in Nat /\ Spent' = Spent + OwnCost(e)
<1>1. IsSeq(events) /\ events' = Append(events, e)
  BY DEF TypeInv, LogOK, Grown
<1> QED
  BY <1>1, SpansAppended, SpentIsNat DEF Spent

\* A log that ends with an event that bears a cost.
LEMMA LastBears ==
  ASSUME NEW log, IsSeq(log), Len(log) > 0, log[Len(log)].type \in CostBearing
  PROVE  SpansAfter(log).last = log[Len(log)].total
<1>1. Len(log) \in Nat /\ Len(log) \in 1..Len(log) /\ Len(log) - 1 \in 0..Len(log)
  BY SeqFacts
<1>2. PICK s, e : s = SpansUpTo(log)[Len(log) - 1] /\ e = log[Len(log)]
  OBVIOUS
<1>3. SpansAfter(log) = SpansStep(s, e) /\ IsSpans(s)
  BY <1>1, <1>2, SpansSteps, SpansShape DEF SpansAfter
<1>4. SpansMove(s, e, SpansStep(s, e))
  BY <1>3, SpansFields
<1>5. SpansStep(s, e).last = e.total
  BY <1>2, <1>4 DEF SpansMove, CostBearing
<1> QED
  BY <1>2, <1>3, <1>5

LEMMA LastStep ==
  ASSUME TypeInv, CountInv, WaveInv, BearInv, CostInv, OpenCallInv, LastInv, CostInv', [Next]_vars
  PROVE  LastInv'
<1>0. RunOK /\ LogOK
  BY DEF TypeInv
<1>1. CASE Record
  <2>1. PICK n \in Nat : RecordStep(n)
    BY <1>0, <1>1, RecordSteps
  <2>2. /\ phase' = "check" /\ n \in Nat \ {0} /\ IsSeq(events') /\ Len(events) \in Nat
        /\ Len(events') = Len(events) + n + (IF conf.protocol = "broadcast" THEN 1 ELSE 0)
        /\ \A k \in 1..n : /\ events'[Len(events) + k].type = "agent-turn"
                           /\ events'[Len(events) + k].total = Spending(k)
        /\ conf.protocol = "broadcast" =>
             /\ events'[Len(events) + n + 1].type = "broadcast"
             /\ events'[Len(events) + n + 1].total = totalCost'
    BY <1>0, <2>1, SeqFacts DEF RecordStep, Extends, LogOK
  <2>3. Spending(n) = totalCost' /\ n \in 1..n
    BY <2>1, <2>2, SpendingGrows
  <2>4. Len(events') > 0 /\ events'[Len(events')].type \in CostBearing
        /\ events'[Len(events')].total = totalCost'
    <3>1. CASE conf.protocol = "broadcast"
      BY <2>2, <3>1 DEF CostBearing
    <3>2. CASE conf.protocol # "broadcast"
      <4>1. Len(events') = Len(events) + n
        BY <2>2, <3>2
      <4> QED
        BY <2>2, <2>3, <4>1 DEF CostBearing
    <3> QED
      BY <3>1, <3>2
  <2>5. Spans'.last = totalCost'
    BY <2>2, <2>4, LastBears DEF Spans
  <2>6. Spent' = totalCost'
    <3>1. Sound' /\ Due' = 0
      BY <2>2 DEF Sound, Healthy, InWave, Due
    <3>2. totalCost' \in Nat
      BY TotalGrows
    <3>3. PICK due, total : due = Due' /\ total = totalCost' /\ Spent' = total + due
      BY <3>1 DEF CostInv
    <3>4. due = 0
      BY <3>1, <3>3
    <3>5. total \in Nat
      BY <3>2, <3>3
    <3>6. total + due = total
      BY <3>4, <3>5
    <3> QED
      BY <3>3, <3>6
  <2> QED
    BY <2>5, <2>6 DEF LastInv
<1>2. CASE Start
  <2>1. /\ events = <<>> /\ Of("model-response")' = Of("model-response")
        /\ IsSeq(events') /\ \A k \in DOMAIN events' : events'[k].type = "role-assignment"
    BY <1>0, <1>2, EndFacts, StartSteps
  <2>2. Spent' = 0
    BY <2>1, EmptySpent, SpentStays
  <2>3. Spans' = NoSpans
    <3>1. Len(events') \in Nat /\ DOMAIN events' = 1..Len(events')
      BY <2>1, SeqFacts
    <3>2. \A k \in (0 + 1)..Len(events') : events'[k].type \notin CostBearing \cup Provenance
      BY <2>1, <3>1 DEF CostBearing, Provenance
    <3>3. SpansAfter(events') = SpansUpTo(events')[0]
      BY <2>1, <3>1, <3>2, SpansSame
    <3> QED
      BY <2>1, <3>3, SpansSteps DEF Spans
  <2> QED
    BY <2>2, <2>3 DEF LastInv, NoSpans
<1>3. CASE UNCHANGED events
  BY <1>3 DEF LastInv, Spans, Spent
<1>4. ASSUME Check \/ Final, NEW e, Announced(e)
      PROVE  LastInv'
  <2>1. Grown(e) /\ e.type \in {"budget-stop", "final"} /\ e.total = totalCost
    BY <1>4 DEF Announced
  <2>2. Spans'.last = totalCost
    BY <2>1, SpansGrow DEF SpansMove
  <2>3. Spent \in Nat /\ Spent' = Spent
    BY <2>1, SpentGrow DEF OwnCost
  <2>4. phase \in {"check", "output"} /\ totalCost \in Nat
    BY <1>4, TotalGrows DEF Check, Final
  <2>5. Spent = totalCost
    BY <2>4 DEF CostInv, Sound, Healthy, InWave, Due
  <2> QED
    BY <2>2, <2>3, <2>5 DEF LastInv
<1>5. ASSUME NEW a \in Agents, NEW e, Requested(a, e)
      PROVE  LastInv'
  <2>1. Grown(e) /\ e.type = "model-request"
    BY <1>5 DEF Requested
  <2> QED
    BY <2>1, SpansGrow, SpentGrow DEF SpansMove, OwnCost, LastInv
<1>6. ASSUME NEW a \in Agents, NEW e, Responded(a, e)
      PROVE  LastInv'
  <2>1. Grown(e) /\ e.type = "model-response" /\ e.call = AskedAs(a) /\ Answer(a)
    BY <1>6 DEF Responded
  <2>2. PICK q \in DOMAIN events : LastBy("model-request", a, q) /\ events[q].call \in Spans.calls
    BY <2>1, AnswerFacts DEF OpenCallInv
  <2>3. e.call \in Spans.calls
    BY <2>1, <2>2, LatestIsLast DEF AskedAs
  <2>4. Spans'.last = Spans.last + e.own
    BY <2>1, <2>3, SpansGrow DEF SpansMove
  <2> QED
    BY <2>1, <2>4, SpentGrow DEF OwnCost, LastInv
<1>7. ASSUME NEW e, Grown(e), e.type \in {"model-output-chunk", "tool-call", "tool-result"}
      PROVE  LastInv'
  <2>1. Spans' = Spans
    BY <1>7, SpansGrow DEF SpansMove, CostBearing, Provenance
  <2> QED
    BY <1>7, <2>1, SpentGrow DEF OwnCost, LastInv
<1> QED
  BY <1>1, <1>2, <1>3, <1>4, <1>5, <1>6, <1>7, Growth

LEMMA LastInit == Init => LastInv
BY EmptySpent DEF Init, LastInv, Spans, NoSpans

\* The final event is the last one, and bears the total.
EndInv ==
  Healthy /\ phase \in {"evaluate", "over"} =>
    Of("final") = {Len(events)} /\ events[Len(events)].total = totalCost

LEMMA EndStep ==
  ASSUME TypeInv, WaveInv, FinalInv, EndInv, [Next]_vars
  PROVE  EndInv'
<1> SUFFICES ASSUME Healthy', phase' \in {"evaluate", "over"}
             PROVE  Of("final")' = {Len(events')} /\ events'[Len(events')].total = totalCost'
  BY DEF EndInv
<1>0. RunOK /\ LogOK /\ CallOK /\ Healthy
  BY UnhealthyStays DEF TypeInv
<1>1. CASE Final
  <2>1. PICK e : Announced(e) /\ e.type = "final"
    BY <1>1, FinalAnnounces
  <2>2. Of("final") = {}
    BY <1>1 DEF FinalInv, Final
  <2>3. Of("final")' = {Len(events) + 1} /\ events'[Len(events) + 1] = e
    BY <1>0, <2>1, <2>2, OfAppended DEF Announced, Grown
  <2>4. Len(events') = Len(events) + 1
    BY <2>1, GrownPlaces DEF Announced
  <2> QED
    BY <1>1, <2>1, <2>3, <2>4, EndFacts DEF Announced
<1>2. CASE Start \/ Check \/ Record \/ \E a \in Agents : Ask(a)
  <2>1. CASE Start
    BY <2>1 DEF Start
  <2>2. CASE Check
    BY <2>2, CheckFacts
  <2>3. CASE Record
    <3>1. PICK n \in Nat : RecordStep(n)
      BY <1>0, <2>3, RecordSteps
    <3> QED
      BY <3>1 DEF RecordStep
  <2>4. ASSUME NEW a \in Agents, Ask(a)
        PROVE  FALSE
    BY <2>4, AskEvent
  <2> QED
    BY <1>2, <2>1, <2>2, <2>3, <2>4
<1>3. ASSUME NEW a \in Agents, Turn(a)
      PROVE  FALSE
  BY <1>0, <1>3, TurnInWave
<1>4. CASE OuterKind
  <2>1. UNCHANGED <<events, totalCost>> /\ Of("final")' = Of("final")
    BY <1>4, OuterKeeps
  <2>2. phase \in {"evaluate", "over"}
    BY <1>4, OuterPhase
  <2> QED
    BY <1>0, <2>1, <2>2 DEF EndInv
<1> QED
  BY <1>1, <1>2, <1>3, <1>4, StepKinds DEF OuterKind

LEMMA EndInit == Init => EndInv
BY DEF Init, EndInv


-----------------------------------------------------------------------------
(* The spans that are open                                                 *)

\* The agents of the wave that have asked.
Asked  == IF InWave THEN {a \in Wave : call[a] # "idle"} ELSE {}
Called == {a \in Asked : call[a] = "called"}
Replied == {a \in Asked : call[a] \in Answered}

\* In a run that is sound, the spans of the turns that have been begun are open, and those
\* of the calls without an answer; what has been gathered is what the answers cost.
OpenInv ==
  Sound => /\ Spans.turns = Asked
           /\ Spans.calls = {Number(a) : a \in Called}
           /\ Spans.gathered = [a \in Replied |-> reply[a].cost]

\* The spans that are closed are those of the turns of the log, each with what the turn
\* added to the total.
EndedInv ==
  Sound => /\ IsSeq(Spans.ended) /\ Len(Spans.ended) = Len(transcript)
           /\ \A k \in Of("agent-turn") :
                /\ Spans.ended[Nth(k)] \in Nat
                /\ events[k].total = TotalBefore(k) + Spans.ended[Nth(k)]

\* No agent speaks twice in a wave.
LEMMA SpeakersDiffer ==
  ASSUME TypeInv, NEW n \in Nat, RecordStep(n), NEW i \in 1..n, NEW j \in 1..n,
         Speaker(i) = Speaker(j)
  PROVE  i = j
<1>1. ~Parallel => n = 1
  BY WaveNumbers DEF RecordStep
<1> QED
  BY <1>1 DEF Speaker

\* What the tracer holds after j of the n turns of a wave.
Left(j, n) == {Speaker(i) : i \in (j + 1)..n}

Midway(s, j, n) ==
  /\ s.turns = Left(j, n) /\ s.calls = {}
  /\ s.gathered = [a \in Left(j, n) |-> reply[a].cost]
  /\ IsSeq(s.ended) /\ Len(s.ended) = Len(transcript) + j
  /\ \A i \in 1..Len(transcript) : s.ended[i] = Spans.ended[i]
  /\ \A i \in 1..j : s.ended[Len(transcript) + i] = reply[Speaker(i)].cost

LEMMA MidwayBegins ==
  ASSUME TypeInv, Sound, OpenInv, EndedInv, NEW n \in Nat, RecordStep(n)
  PROVE  Midway(Spans, 0, n)
<1>1. /\ InWave /\ Sound /\ \A a \in Wave : call[a] = "done"
      /\ n = Cardinality(Wave) /\ Len(transcript) \in Nat
  BY WaveNumbers DEF RecordStep, WaveDone, InWave
<1>2. Wave = Left(0, n)
  <2>1. /\ \A k \in 1..n : Speaker(k) \in Wave
        /\ \A a \in Wave : \E k \in 1..n : a = Speaker(k)
    BY <1>1, WaveNumbers
  <2> QED
    BY <2>1 DEF Left
<1>3. Asked = Left(0, n) /\ Called = {} /\ Replied = Left(0, n)
  BY <1>1, <1>2 DEF Asked, Called, Replied, Answered
<1>4. /\ Spans.turns = Left(0, n) /\ Spans.calls = {}
      /\ Spans.gathered = [a \in Left(0, n) |-> reply[a].cost]
  BY <1>1, <1>3 DEF OpenInv
<1> QED
  BY <1>1, <1>4 DEF EndedInv, Midway

LEMMA MidwayMoves ==
  ASSUME TypeInv, NEW n \in Nat, RecordStep(n), NEW j \in Nat, j + 1 <= n, NEW s, Midway(s, j, n),
         NEW e, e.type = "agent-turn", e.agent = Speaker(j + 1), NEW t, SpansMove(s, e, t)
  PROVE  Midway(t, j + 1, n)
<1>1. Len(transcript) \in Nat /\ j + 1 \in 1..n
  BY WaveNumbers
<1>2. /\ Speaker(j + 1) \in Left(j, n) /\ Left(j + 1, n) = Left(j, n) \ {Speaker(j + 1)}
  <2>1. \A i \in (j + 2)..n : i \in 1..n /\ i # j + 1
    OBVIOUS
  <2>2. \A i \in (j + 2)..n : Speaker(i) # Speaker(j + 1)
    BY <1>1, <2>1, SpeakersDiffer
  <2>3. (j + 1)..n = {j + 1} \cup ((j + 2)..n) /\ (j + 1) + 1 = j + 2
    OBVIOUS
  <2> QED
    BY <2>2, <2>3 DEF Left
<1>3. /\ t.turns = s.turns \ {e.agent} /\ t.calls = s.calls
      /\ t.gathered = Without(s.gathered, e.agent)
      /\ t.ended = IF e.agent \in s.turns THEN Append(s.ended, GatheredBy(s, e.agent)) ELSE s.ended
  BY DEF SpansMove
<1>4. t.turns = Left(j + 1, n) /\ t.calls = {}
  BY <1>2, <1>3 DEF Midway
<1>5. t.gathered = [a \in Left(j + 1, n) |-> reply[a].cost]
  <2>1. s.gathered = [a \in Left(j, n) |-> reply[a].cost]
    BY DEF Midway
  <2>2. t.gathered = [a \in Left(j + 1, n) |-> s.gathered[a]]
    BY <1>2, <1>3, <2>1 DEF Without
  <2> QED
    BY <1>2, <2>1, <2>2
<1>6. t.ended = Append(s.ended, reply[Speaker(j + 1)].cost)
  <2>1. s.gathered = [a \in Left(j, n) |-> reply[a].cost] /\ s.turns = Left(j, n)
    BY DEF Midway
  <2>2. GatheredBy(s, Speaker(j + 1)) = reply[Speaker(j + 1)].cost
    BY <1>2, <2>1 DEF GatheredBy
  <2> QED
    BY <1>2, <1>3, <2>1, <2>2
<1>7. IsSeq(s.ended) /\ Len(s.ended) = Len(transcript) + j
  BY DEF Midway
<1>8. /\ IsSeq(t.ended) /\ Len(t.ended) = Len(transcript) + (j + 1)
      /\ t.ended[Len(transcript) + (j + 1)] = reply[Speaker(j + 1)].cost
      /\ \A i \in 1..(Len(transcript) + j) : t.ended[i] = s.ended[i]
  <2>1. /\ IsSeq(t.ended) /\ Len(t.ended) = Len(s.ended) + 1
        /\ t.ended[Len(s.ended) + 1] = reply[Speaker(j + 1)].cost
        /\ \A i \in 1..Len(s.ended) : t.ended[i] = s.ended[i]
    BY <1>6, <1>7, AppendFacts
  <2>2. Len(s.ended) + 1 = Len(transcript) + (j + 1)
    BY <1>1, <1>7
  <2> QED
    BY <1>7, <2>1, <2>2
<1>9. \A i \in 1..Len(transcript) : t.ended[i] = Spans.ended[i]
  BY <1>1, <1>8 DEF Midway
<1>10. \A i \in 1..(j + 1) : t.ended[Len(transcript) + i] = reply[Speaker(i)].cost
  <2> SUFFICES ASSUME NEW i \in 1..(j + 1)
               PROVE  t.ended[Len(transcript) + i] = reply[Speaker(i)].cost
    OBVIOUS
  <2>1. CASE i = j + 1
    BY <1>8, <2>1
  <2>2. CASE i \in 1..j
    <3>1. Len(transcript) + i \in 1..(Len(transcript) + j)
      BY <1>1, <2>2
    <3> QED
      BY <1>8, <2>2, <3>1 DEF Midway
  <2> QED
    BY <2>1, <2>2
<1> QED
  BY <1>4, <1>5, <1>8, <1>9, <1>10 DEF Midway

\* What the tracer holds once a wave is recorded.
LEMMA RecordSpans ==
  ASSUME TypeInv, [Next]_vars, Sound, OpenInv, EndedInv, NEW n \in Nat, RecordStep(n)
  PROVE  Midway(Spans', n, n)
<1> DEFINE Past == {j \in Nat : j <= n => Midway(SpansUpTo(events')[Len(events) + j], j, n)}
<1>0. /\ Len(events) \in Nat /\ Len(events') \in Nat /\ IsSeq(events) /\ IsSeq(events')
      /\ Extends(events', events)
      /\ Len(events') = Len(events) + n + (IF conf.protocol = "broadcast" THEN 1 ELSE 0)
      /\ \A k \in 1..n : /\ events'[Len(events) + k].type = "agent-turn"
                         /\ events'[Len(events) + k].agent = Speaker(k)
      /\ conf.protocol = "broadcast" => events'[Len(events) + n + 1].type = "broadcast"
  BY PlacesKept DEF RecordStep, TypeInv, LogOK, Extends
<1>1. 0 \in Past
  <2>1. Len(events) + 0 = Len(events) /\ Len(events) \in 0..Len(events)
    BY <1>0
  <2>2. SpansUpTo(events')[Len(events) + 0] = Spans
    BY <1>0, <2>1, SpansKept DEF Spans, SpansAfter
  <2> QED
    BY <2>2, MidwayBegins
<1>2. ASSUME NEW j \in Past
      PROVE  j + 1 \in Past
  <2> SUFFICES ASSUME j + 1 <= n
               PROVE  Midway(SpansUpTo(events')[Len(events) + (j + 1)], j + 1, n)
    OBVIOUS
  <2>1. /\ j \in Nat /\ j + 1 \in 1..n /\ Len(events) + (j + 1) \in 1..Len(events')
        /\ (Len(events) + (j + 1)) - 1 = Len(events) + j /\ Len(events) + j \in 0..Len(events')
    BY <1>0
  <2>2. PICK s, e, t : /\ s = SpansUpTo(events')[Len(events) + j]
                       /\ e = events'[Len(events) + (j + 1)]
                       /\ t = SpansUpTo(events')[Len(events) + (j + 1)]
    OBVIOUS
  <2>3. t = SpansStep(s, e) /\ IsSpans(s)
    BY <1>0, <2>1, <2>2, SpansSteps, SpansShape
  <2>4. SpansMove(s, e, t)
    BY <2>3, SpansFields
  <2>5. Midway(s, j, n)
    BY <2>2
  <2>6. e.type = "agent-turn" /\ e.agent = Speaker(j + 1)
    BY <1>0, <2>1, <2>2
  <2> HIDE DEF Past
  <2> QED
    BY <2>1, <2>2, <2>4, <2>5, <2>6, MidwayMoves
<1>3. Past = Nat
  <2> HIDE DEF Past
  <2>1. Past \in SUBSET Nat
    BY DEF Past
  <2> QED
    BY <1>1, <1>2, <2>1, NaturalInduction
<1>4. Midway(SpansUpTo(events')[Len(events) + n], n, n)
  BY <1>3
<1>5. CASE conf.protocol # "broadcast"
  <2>1. Len(events') = Len(events) + n
    BY <1>0, <1>5
  <2> QED
    BY <1>4, <2>1 DEF Spans, SpansAfter
<1>6. CASE conf.protocol = "broadcast"
  <2>1. /\ Len(events') \in 1..Len(events') /\ Len(events') - 1 = Len(events) + n
        /\ Len(events) + n \in 0..Len(events') /\ Len(events') = Len(events) + n + 1
    BY <1>0, <1>6
  <2>2. PICK s, e, t : /\ s = SpansUpTo(events')[Len(events) + n] /\ e = events'[Len(events')]
                       /\ t = SpansUpTo(events')[Len(events')]
    OBVIOUS
  <2>3. t = SpansStep(s, e) /\ IsSpans(s) /\ e.type = "broadcast"
    BY <1>0, <1>6, <2>1, <2>2, SpansSteps, SpansShape
  <2>4. /\ t.turns = s.turns /\ t.calls = s.calls /\ t.gathered = s.gathered /\ t.ended = s.ended
    <3>1. SpansMove(s, e, t)
      BY <2>3, SpansFields
    <3> QED
      BY <2>3, <3>1 DEF SpansMove
  <2>5. Midway(s, n, n)
    BY <1>4, <2>2
  <2>6. Midway(t, n, n)
    BY <2>4, <2>5 DEF Midway
  <2> QED
    BY <2>2, <2>6 DEF Spans, SpansAfter
<1> QED
  BY <1>5, <1>6

\* Steps that leave the spans of the wave as they are.
LEMMA OpenCarried ==
  ASSUME OpenInv, Sound, Sound', Spans'.turns = Spans.turns, Spans'.calls = Spans.calls,
         Spans'.gathered = Spans.gathered,
         \/ Asked = {} /\ Asked' = {}
         \/ /\ Asked' = Asked
            /\ \A b \in Asked : /\ call'[b] = "called" <=> call[b] = "called"
                                /\ call'[b] \in Answered <=> call[b] \in Answered
                                /\ Number(b)' = Number(b) /\ reply'[b] = reply[b]
  PROVE  OpenInv'
<1>1. Asked' = Asked /\ Called' = Called /\ Replied' = Replied
  BY DEF Called, Replied
<1>2. \A b \in Asked : Number(b)' = Number(b) /\ reply'[b] = reply[b]
  OBVIOUS
<1>3. {Number(a) : a \in Called}' = {Number(a) : a \in Called}
  <2>1. {Number(a) : a \in Called}' = {Number(a)' : a \in Called'}
    OBVIOUS
  <2>2. \A a \in Called : Number(a)' = Number(a)
    BY <1>2 DEF Called
  <2> HIDE DEF Number, Called
  <2> QED
    BY <1>1, <2>1, <2>2
<1>4. [a \in Replied |-> reply[a].cost]' = [a \in Replied |-> reply[a].cost]
  BY <1>1, <1>2 DEF Replied
<1> QED
  BY <1>1, <1>3, <1>4 DEF OpenInv

\* The spans of turns and calls are the same.
SpansStay ==
  /\ Spans'.turns = Spans.turns /\ Spans'.calls = Spans.calls
  /\ Spans'.gathered = Spans.gathered /\ Spans'.ended = Spans.ended

LEMMA AnnouncedSpans ==
  ASSUME TypeInv, UNCHANGED events \/ \E e : Announced(e)
  PROVE  SpansStay
<1>1. CASE UNCHANGED events
  BY <1>1 DEF Spans, SpansStay
<1>2. ASSUME NEW e, Announced(e)
      PROVE  SpansStay
  <2>1. Grown(e) /\ e.type \in {"budget-stop", "final"}
    BY <1>2 DEF Announced
  <2> QED
    BY <2>1, SpansGrow DEF SpansMove, SpansStay
<1> QED
  BY <1>1, <1>2

\* The roles leave nothing open.
LEMMA StartSpans ==
  ASSUME TypeInv, Start
  PROVE  Spans' = NoSpans
<1>1. IsSeq(events') /\ \A k \in DOMAIN events' : events'[k].type = "role-assignment"
  BY StartSteps DEF TypeInv
<1>2. Len(events') \in Nat /\ DOMAIN events' = 1..Len(events')
  BY <1>1, SeqFacts
<1>3. \A k \in (0 + 1)..Len(events') : events'[k].type \notin CostBearing \cup Provenance
  BY <1>1, <1>2 DEF CostBearing, Provenance
<1>4. SpansAfter(events') = SpansUpTo(events')[0]
  BY <1>1, <1>2, <1>3, SpansSame
<1> QED
  BY <1>1, <1>4, SpansSteps DEF Spans

\* What the spans that are not in a wave are.
LEMMA NothingOpen ==
  ASSUME Asked = {}
  PROVE  /\ Called = {} /\ Replied = {} /\ {Number(a) : a \in Called} = {}
         /\ [a \in Replied |-> reply[a].cost] = <<>>
BY DEF Called, Replied

LEMMA NothingOpenNext ==
  ASSUME Asked' = {}, Spans'.turns = {}, Spans'.calls = {}, Spans'.gathered = <<>>
  PROVE  OpenInv'
<1>1. Called' = {} /\ Replied' = {}
  BY DEF Called, Replied
<1>2. {Number(a) : a \in Called}' = {}
  BY <1>1
<1>3. [a \in Replied |-> reply[a].cost]' = <<>>
  BY <1>1
<1> QED
  BY <1>2, <1>3 DEF OpenInv

\* A request, and an answer.
LEMMA OpenAsked ==
  ASSUME TypeInv, ProviderInv, OpenInv, Sound, Sound', NEW a \in Agents, NEW e, Requested(a, e)
  PROVE  OpenInv'
<1>1. /\ Ask(a) /\ Grown(e) /\ e.type = "model-request" /\ e.agent = a /\ e.call = Number(a)
  BY AskNumber DEF Requested
<1>2. /\ a \in Wave /\ InWave /\ InWave' /\ Wave' = Wave /\ call[a] = "idle" /\ call'[a] = "called"
      /\ \A b \in Wave : b # a => call'[b] = call[b]
      /\ reply' = reply /\ \A b : Number(b)' = Number(b)
  BY WaveInAgents, AskEvent DEF Requested, InWave, TypeInv
<1>3. /\ Asked' = Asked \cup {a} /\ Called' = Called \cup {a} /\ Replied' = Replied
  BY <1>2 DEF Asked, Called, Replied, Answered
<1>4. /\ Spans'.turns = Spans.turns \cup {a} /\ Spans'.calls = Spans.calls \cup {Number(a)}
      /\ Spans'.gathered = Spans.gathered
  BY <1>1, SpansGrow DEF SpansMove
<1>5. {Number(b) : b \in Called}' = {Number(b) : b \in Called} \cup {Number(a)}
  <2>1. {Number(b) : b \in Called}' = {Number(b)' : b \in Called'}
    OBVIOUS
  <2>2. \A b \in Called \cup {a} : Number(b)' = Number(b)
    BY <1>2
  <2> HIDE DEF Number, Called
  <2> QED
    BY <1>3, <2>1, <2>2
<1>6. [b \in Replied |-> reply[b].cost]' = [b \in Replied |-> reply[b].cost]
  BY <1>2, <1>3
<1> QED
  BY <1>3, <1>4, <1>5, <1>6 DEF OpenInv

LEMMA OpenAnswered ==
  ASSUME TypeInv, WaveInv, RequestInv, OpenInv, Sound, Sound', NEW a \in Agents, Turn(a),
         NEW e, Responded(a, e)
  PROVE  OpenInv'
<1>1. /\ Answer(a) /\ ~aborted /\ Grown(e) /\ e.type = "model-response" /\ e.agent = a
      /\ e.call = AskedAs(a) /\ e.own = reply'[a].cost /\ e.own \in Nat
  BY DEF Responded
<1>2. /\ a \in Wave /\ InWave /\ InWave' /\ Wave' = Wave /\ call[a] = "called"
      /\ call'[a] = "answered"
      /\ \A b \in Wave : b # a => call'[b] = call[b] /\ reply'[b] = reply[b]
      /\ \A b \in Agents : Number(b)' = Number(b)
      /\ Wave \subseteq Agents
  <2>1. /\ phase = "turns" /\ a \in Wave /\ phase' = phase /\ Wave' = Wave
        /\ \A b \in Agents : Number(b)' = Number(b)
    BY TurnInWave DEF TypeInv, Sound
  <2>2. Wave \subseteq Agents
    BY <2>1, WaveInAgents DEF TypeInv
  <2>3. /\ \A b \in Agents : b # a => call'[b] = call[b]
        /\ call[a] = "called" /\ call'[a] \in {"failed", "answered"}
        /\ \A b \in Agents : b # a => reply'[b] = reply[b]
    <3>1. \A b \in Agents : b # a => call'[b] = call[b]
      BY TurnMoves DEF TypeInv
    <3>2. /\ call[a] = "called" /\ call'[a] \in {"failed", "answered"}
          /\ \A b \in Agents : b # a => reply'[b] = reply[b]
      BY <1>1, AnswerFacts
    <3> QED
      BY <3>1, <3>2
  <2>4. call'[a] # "failed"
    BY <2>1 DEF Sound, InWave
  <2> QED
    BY <2>1, <2>2, <2>3, <2>4 DEF InWave
<1>3. e.call = Number(a)
  BY <1>1, <1>2, AskedNumber DEF Sound, Active
<1>4. /\ Asked' = Asked /\ a \in Called /\ a \notin Replied
      /\ Called' = Called \ {a} /\ Replied' = Replied \cup {a} /\ Called \subseteq Wave
      /\ Replied \subseteq Wave
  BY <1>2 DEF Asked, Called, Replied, Answered
<1>5. /\ Spans.turns = Asked /\ Spans.calls = {Number(b) : b \in Called}
      /\ Spans.gathered = [b \in Replied |-> reply[b].cost]
  BY DEF OpenInv
<1>6. e.call \in Spans.calls
  BY <1>3, <1>4, <1>5
<1>7. /\ Spans'.turns = Spans.turns /\ Spans'.calls = Spans.calls \ {Number(a)}
      /\ Spans'.gathered = With(Spans.gathered, a, GatheredBy(Spans, a) + e.own)
  BY <1>1, <1>3, <1>6, SpansGrow DEF SpansMove
<1>8. Spans'.calls = {Number(b) : b \in Called}'
  <2>1. {Number(b) : b \in Called}' = {Number(b)' : b \in Called'}
    OBVIOUS
  <2>2. \A b \in Called : Number(b)' = Number(b)
    BY <1>2, <1>4
  <2>3. \A b \in Called : Number(b) = Number(a) => b = a
    BY <1>2, <1>4, WaveNumbers
  <2> HIDE DEF Number, Called
  <2> QED
    BY <1>4, <1>5, <1>7, <2>1, <2>2, <2>3
<1>9. Spans'.gathered = [b \in Replied |-> reply[b].cost]'
  <2>1. GatheredBy(Spans, a) + e.own = e.own
    BY <1>1, <1>4, <1>5 DEF GatheredBy
  <2>2. Spans'.gathered = [b \in Replied \cup {a} |-> IF b = a THEN e.own ELSE Spans.gathered[b]]
    BY <1>5, <1>7, <2>1 DEF With
  <2>3. \A b \in Replied : b # a => Spans.gathered[b] = reply'[b].cost
    BY <1>2, <1>4, <1>5
  <2> QED
    BY <1>1, <1>4, <2>2, <2>3
<1> QED
  BY <1>4, <1>5, <1>7, <1>8, <1>9 DEF OpenInv

LEMMA OpenStep ==
  ASSUME TypeInv, WaveInv, RequestInv, ProviderInv, OpenInv, EndedInv, [Next]_vars
  PROVE  OpenInv'
<1> SUFFICES ASSUME Sound'
             PROVE  OpenInv'
  BY DEF OpenInv
<1>0. /\ RunOK /\ LogOK /\ CallOK /\ FlagsOK /\ TypeInv' /\ Sound /\ Healthy /\ Healthy'
      /\ phase \in {"ask", "turns"} => Wave \subseteq Agents
  BY WaveInAgents, SoundStays, TypeStep DEF TypeInv, Sound
<1>1. CASE Start
  <2>1. Spans' = NoSpans /\ Asked' = {}
    BY <1>1, StartSpans, EndFacts DEF Asked, InWave
  <2> QED
    BY <2>1, NothingOpenNext DEF NoSpans
<1>2. CASE Check \/ Final
  <2>1. UNCHANGED events \/ \E e : Announced(e)
    BY <1>2, CheckAnnounces, FinalAnnounces
  <2>2. SpansStay
    BY <1>0, <2>1, AnnouncedSpans
  <2>3. Asked = {} /\ Asked' = {}
    <3>1. CASE Check
      <4>1. ~InWave /\ Wave' = Wave /\ \A b \in Agents : call'[b] = "idle"
        BY <3>1, CheckFacts DEF InWave
      <4>2. phase' = "ask" => Wave \subseteq Agents
        BY <3>1, CheckFacts
      <4>3. phase' \in {"output", "ask"}
        BY <3>1, CheckFacts
      <4> QED
        BY <4>1, <4>2, <4>3 DEF Asked, InWave
    <3>2. CASE Final
      BY <3>2, EndFacts DEF Asked, InWave
    <3> QED
      BY <1>2, <3>1, <3>2
  <2> QED
    BY <1>0, <2>2, <2>3, OpenCarried DEF SpansStay
<1>3. ASSUME NEW a \in Agents, Ask(a)
      PROVE  OpenInv'
  <2>1. ~aborted
    <3>1. a \in Wave' /\ InWave' /\ (aborted => call'[a] = "failed")
      BY <1>3, AskEvent DEF InWave
    <3> QED
      BY <3>1 DEF Sound
  <2>2. PICK e : Requested(a, e)
    BY <1>3, <2>1, AskEvent DEF Requested, Grown
  <2> QED
    BY <1>0, <2>2, OpenAsked
<1>4. ASSUME NEW a \in Agents, Turn(a)
      PROVE  OpenInv'
  <2>1. /\ phase = "turns" /\ a \in Wave /\ InWave /\ InWave' /\ Wave' = Wave
        /\ \A b \in Agents : Number(b)' = Number(b)
    BY <1>0, <1>4, TurnInWave DEF InWave
  <2>2. CASE Answer(a) /\ ~aborted
    <3>1. PICK e : Responded(a, e)
      BY <2>2, AnswerResponds
    <3> QED
      BY <1>0, <1>4, <3>1, OpenAnswered
  <2>3. CASE ~(Answer(a) /\ ~aborted)
    <3>1. /\ call[a] \in Active /\ call'[a] \in Active \cup {"done"}
          /\ \A b \in Agents : b # a => call'[b] = call[b]
          /\ call'[a] = "called" => call[a] = "called"
      BY <1>0, <1>4, <2>1, TurnMoves DEF Sound
    <3>2. /\ ~Answer(a) /\ UNCHANGED reply
          /\ call[a] = "called" => call'[a] = "called"
      BY <1>0, <1>4, <2>3, <3>1, AnswerFacts, TurnMoves DEF Active
    <3>3. Spans' = Spans
      <4>1. Adds({"model-output-chunk", "tool-call", "tool-result"}, Agents)
        BY <1>4, <3>2, PlainTurn
      <4>2. CASE UNCHANGED events
        BY <4>2 DEF Spans
      <4>3. ASSUME NEW e, Grown(e), e.type \in {"model-output-chunk", "tool-call", "tool-result"}
            PROVE  Spans' = Spans
        BY <4>3, SpansGrow DEF SpansMove, CostBearing, Provenance
      <4> QED
        BY <4>1, <4>2, <4>3 DEF Adds, Grown
    <3>4. Asked' = Asked /\ Asked \subseteq Agents
      BY <1>0, <2>1, <3>1 DEF Asked, Active
    <3>5. \A b \in Asked : /\ call'[b] = "called" <=> call[b] = "called"
                           /\ call'[b] \in Answered <=> call[b] \in Answered
      BY <3>1, <3>2, <3>4 DEF Active, Answered
    <3> QED
      BY <1>0, <2>1, <3>2, <3>3, <3>4, <3>5, OpenCarried
  <2> QED
    BY <2>2, <2>3
<1>5. CASE Record
  <2>1. PICK n \in Nat : RecordStep(n)
    BY <1>0, <1>5, RecordSteps
  <2>2. Midway(Spans', n, n)
    BY <1>0, <2>1, RecordSpans
  <2>3. Left(n, n) = {}
    <3>1. (n + 1)..n = {}
      OBVIOUS
    <3> QED
      BY <3>1 DEF Left
  <2>4. Asked' = {}
    BY <2>1 DEF RecordStep, Asked, InWave
  <2>5. Spans'.gathered = <<>>
    BY <2>2, <2>3 DEF Midway
  <2> QED
    BY <2>2, <2>3, <2>4, <2>5, NothingOpenNext DEF Midway
<1>6. CASE OuterKind
  <2>1. /\ UNCHANGED <<call, reply, events>> /\ Wave' = Wave
        /\ \A b : Number(b)' = Number(b)
    BY <1>6, OuterKeeps
  <2>2. InWave' = InWave
    BY <1>0, <1>6, OuterPhase DEF InWave
  <2>3. Asked' = Asked /\ Spans' = Spans
    BY <2>1, <2>2 DEF Asked, Spans
  <2> QED
    BY <1>0, <2>1, <2>3, OpenCarried
<1> QED
  BY <1>1, <1>2, <1>3, <1>4, <1>5, <1>6, StepKinds DEF OuterKind

LEMMA OpenInit == Init => OpenInv
<1> SUFFICES ASSUME Init
             PROVE  OpenInv
  OBVIOUS
<1>1. Spans = NoSpans /\ Asked = {}
  BY EmptySpent DEF Init, Spans, Asked, InWave
<1> QED
  BY <1>1, NothingOpen DEF OpenInv, NoSpans

\* The total before a place is a number.
LEMMA TotalBeforeTyped ==
  ASSUME TypeInv, BearInv, NEW x \in Int
  PROVE  TotalBefore(x) \in Nat
<1> DEFINE turns == {j \in Of("agent-turn") : j < x}
<1>0. Len(events) \in Nat /\ Of("agent-turn") \subseteq 1..Len(events)
  BY OfFinite DEF TypeInv
<1>1. \A j \in Of("agent-turn") : events[j].total \in Nat
  <2>1. \A j \in Of("agent-turn") : j \in Bearing
    BY DEF Of, Bearing, BudgetStateChanges, CostBearing
  <2>2. totalCost \in Nat
    BY DEF TypeInv, FlagsOK
  <2> QED
    BY <2>1, <2>2 DEF BearInv
<1>2. CASE turns = {}
  BY <1>2 DEF TotalBefore
<1>3. CASE turns # {}
  <2>1. \E j \in turns : \A l \in turns : l <= j
    BY <1>0, <1>3, GreatestExists
  <2>2. (CHOOSE j \in turns : \A l \in turns : l <= j) \in turns
    BY <2>1
  <2>3. TotalBefore(x) = events[CHOOSE j \in turns : \A l \in turns : l <= j].total
    BY <1>3 DEF TotalBefore
  <2> QED
    BY <1>1, <2>2, <2>3
<1> QED
  BY <1>2, <1>3

\* Steps that end no turn.
LEMMA EndedCarried ==
  ASSUME TypeInv, EndedInv, Sound, [Next]_vars, Of("agent-turn")' = Of("agent-turn"),
         Spans'.ended = Spans.ended, transcript' = transcript
  PROVE  EndedInv'
<1>1. \A k \in Of("agent-turn") :
        events'[k] = events[k] /\ Nth(k)' = Nth(k) /\ TotalBefore(k)' = TotalBefore(k)
  BY PlacesKept, RanksKept, TotalsKept
<1> QED
  BY <1>1 DEF EndedInv

LEMMA EndedRecorded ==
  ASSUME TypeInv, CountInv, SpentInv, TurnInv, OpenInv, EndedInv, Sound, [Next]_vars,
         NEW n \in Nat, RecordStep(n)
  PROVE  EndedInv'
<1>0. /\ Len(events) \in Nat /\ Len(transcript) \in Nat /\ Len(transcript') = Len(transcript) + n
      /\ RunOK /\ LogOK
  BY PlacesKept, WaveNumbers DEF RecordStep, TypeInv
<1>1. PICK ended : ended = Spans'.ended
  OBVIOUS
<1>2. /\ IsSeq(ended) /\ Len(ended) = Len(transcript) + n
      /\ \A i \in 1..Len(transcript) : ended[i] = Spans.ended[i]
      /\ \A i \in 1..n : ended[Len(transcript) + i] = reply[Speaker(i)].cost
  BY <1>1, RecordSpans DEF Midway
<1>3. ASSUME NEW k \in Of("agent-turn")'
      PROVE  ended[Nth(k)'] \in Nat /\ events'[k].total = TotalBefore(k)' + ended[Nth(k)']
  <2>1. CASE k \in Of("agent-turn")
    <3>1. Nth(k) \in 1..Len(transcript) /\ k \in 1..Len(events)
      BY <2>1, PlacesKept DEF TurnInv
    <3>2. events'[k] = events[k] /\ Nth(k)' = Nth(k) /\ TotalBefore(k)' = TotalBefore(k)
      BY <1>0, <3>1, PlacesKept, RanksKept, TotalsKept
    <3>3. /\ Spans.ended[Nth(k)] \in Nat
          /\ events[k].total = TotalBefore(k) + Spans.ended[Nth(k)]
      BY <2>1 DEF EndedInv
    <3> QED
      BY <1>2, <3>1, <3>2, <3>3
  <2>2. CASE k \in (Len(events) + 1)..(Len(events) + n)
    <3>1. PICK i \in 1..n : k = Len(events) + i
      <4>1. k - Len(events) \in 1..n /\ k = Len(events) + (k - Len(events))
        BY <1>0, <2>2
      <4> QED
        BY <4>1
    <3>2. PICK p \in Nat : /\ p = Len(events) + i /\ Nth(p)' = Len(transcript) + i
                           /\ events'[p].total = Spending(i)
                           /\ Spending(i) = TotalBefore(p)' + reply[Speaker(i)].cost
      BY TurnRecorded
    <3>3. p = k
      BY <3>1, <3>2
    <3>4. ended[Len(transcript) + i] = reply[Speaker(i)].cost
      BY <1>2
    <3>5. reply[Speaker(i)].cost \in Nat
      <4>1. Speaker(i) \in Wave /\ phase = "turns"
        BY DEF RecordStep, WaveDone
      <4>2. Speaker(i) \in Agents
        BY <4>1, WaveInAgents DEF TypeInv
      <4> QED
        BY <4>2, RepliesTyped DEF TypeInv
    <3> QED
      BY <3>2, <3>3, <3>4, <3>5
  <2> QED
    BY <1>0, <2>1, <2>2, RecordOf
<1>4. \A k \in Of("agent-turn")' :
        /\ Spans'.ended[Nth(k)'] \in Nat
        /\ events'[k].total = TotalBefore(k)' + Spans'.ended[Nth(k)']
  BY <1>1, <1>3
<1> QED
  BY <1>0, <1>1, <1>2, <1>4 DEF EndedInv

LEMMA EndedStep ==
  ASSUME TypeInv, CountInv, WaveInv, SpentInv, TurnInv, OpenInv, EndedInv, [Next]_vars
  PROVE  EndedInv'
<1> SUFFICES ASSUME Sound'
             PROVE  EndedInv'
  BY DEF EndedInv
<1>0. RunOK /\ LogOK /\ CallOK /\ Sound
  BY SoundStays DEF TypeInv
<1>1. CASE Record
  <2>1. PICK n \in Nat : RecordStep(n)
    BY <1>0, <1>1, RecordSteps
  <2> QED
    BY <1>0, <2>1, EndedRecorded
<1>2. CASE Start
  <2>1. Spans' = NoSpans /\ transcript' = <<>> /\ Of("agent-turn")' = Of("agent-turn")
    BY <1>2, StartSpans, EndFacts
  <2>2. Of("agent-turn") = {}
    BY <1>2, EndFacts DEF Of
  <2> QED
    BY <2>1, <2>2, EmptyIsSeq DEF EndedInv, NoSpans
<1>3. CASE ~Record /\ ~Start
  <2>1. Of("agent-turn")' = Of("agent-turn")
    BY <1>3, TurnsAdded
  <2>2. transcript' = transcript
    BY <1>0, <1>3, PlainSteps
  <2>3. Spans'.ended = Spans.ended
    <3>1. CASE UNCHANGED events
      BY <3>1 DEF Spans
    <3>2. CASE Check \/ Final
      BY <3>2, AnnouncedSpans, CheckAnnounces, FinalAnnounces DEF SpansStay
    <3>3. ASSUME NEW a \in Agents, NEW e, Requested(a, e)
          PROVE  Spans'.ended = Spans.ended
      BY <3>3, SpansGrow DEF SpansMove, Requested
    <3>4. ASSUME NEW a \in Agents, NEW e, Responded(a, e)
          PROVE  Spans'.ended = Spans.ended
      BY <3>4, SpansGrow DEF SpansMove, Responded
    <3>5. ASSUME NEW e, Grown(e), e.type \in {"model-output-chunk", "tool-call", "tool-result"}
          PROVE  Spans'.ended = Spans.ended
      BY <3>5, SpansGrow DEF SpansMove, CostBearing, Provenance
    <3> QED
      BY <1>3, <3>1, <3>2, <3>3, <3>4, <3>5, Growth
  <2> QED
    BY <1>0, <2>1, <2>2, <2>3, EndedCarried
<1> QED
  BY <1>1, <1>2, <1>3

LEMMA EndedInit == Init => EndedInv
BY EmptySpent, EmptyIsSeq DEF Init, EndedInv, Spans, NoSpans, Of

-----------------------------------------------------------------------------
(* What the metrics hook counts                                            *)

IsMetrics(m) == m = [total |-> m.total, nested |-> m.nested, turns |-> m.turns]

\* What an event other than the end of a child changes of what the hook has counted.
MetricsMove(m, e, t) ==
  /\ t.total = IF e.type \in CostBearing THEN e.total ELSE m.total
  /\ t.turns = IF e.type = "agent-turn" THEN m.turns + 1 ELSE m.turns

LEMMA MetricsFields ==
  ASSUME NEW m, IsMetrics(m), NEW e, e.type \notin ChildEnds
  PROVE  IsMetrics(MetricsStep(m, e)) /\ MetricsMove(m, e, MetricsStep(m, e))
<1> DEFINE t == MetricsStep(m, e)
<1> SUFFICES IsMetrics(t) /\ MetricsMove(m, e, t)
  OBVIOUS
<1>1. CASE e.type = "agent-turn"
  <2>1. t = [m EXCEPT !.total = e.total, !.turns = @ + 1]
    BY <1>1 DEF MetricsStep
  <2>2. IsMetrics(t) /\ t.total = e.total /\ t.turns = m.turns + 1
    BY <2>1 DEF IsMetrics
  <2> QED
    BY <1>1, <2>2 DEF MetricsMove, CostBearing
<1>2. CASE e.type \in {"broadcast", "budget-stop", "final"}
  <2>1. t = [m EXCEPT !.total = e.total]
    BY <1>2 DEF MetricsStep
  <2>2. IsMetrics(t) /\ t.total = e.total /\ t.turns = m.turns
    BY <2>1 DEF IsMetrics
  <2> QED
    BY <1>2, <2>2 DEF MetricsMove, CostBearing
<1>3. CASE e.type \notin CostBearing
  <2>1. t = m
    BY <1>3 DEF MetricsStep, CostBearing
  <2> QED
    BY <1>3, <2>1 DEF MetricsMove, CostBearing
<1> QED
  BY <1>1, <1>2, <1>3 DEF CostBearing

\* Of a log without children, whose costs are numbers.
Priced(log) ==
  /\ IsSeq(log)
  /\ \A k \in 1..Len(log) : /\ log[k].type \notin ChildEnds
                            /\ log[k].type = "model-response" => log[k].own \in Nat
                            /\ log[k].type \in CostBearing => log[k].total \in Nat

LEMMA LogPriced ==
  ASSUME TypeInv, BearInv
  PROVE  Priced(events)
<1>1. IsSeq(events) /\ DOMAIN events = 1..Len(events) /\ totalCost \in Nat
  BY SeqFacts DEF TypeInv, LogOK, FlagsOK
<1> QED
  BY <1>1 DEF BearInv, Priced, Of, Bearing, BudgetStateChanges

\* The hook never counts more than the tracer.
Counted(m, s) ==
  IsMetrics(m) /\ IsSpans(s) /\ m.total \in Nat /\ s.last \in Nat /\ m.total <= s.last

LEMMA MetricsBelow ==
  ASSUME NEW log, Priced(log)
  PROVE  \A k \in 0..Len(log) : Counted(MetricsUpTo(log)[k], SpansUpTo(log)[k])
<1> DEFINE Low == {k \in Nat : k <= Len(log) => Counted(MetricsUpTo(log)[k], SpansUpTo(log)[k])}
<1>1. IsSeq(log) /\ Len(log) \in Nat
  BY SeqFacts DEF Priced
<1>2. 0 \in Low
  <2>1. Counted(NoMetrics, NoSpans)
    BY DEF Counted, NoMetrics, NoSpans, IsMetrics, IsSpans
  <2> QED
    BY <1>1, <2>1, MetricsSteps, SpansSteps
<1>3. ASSUME NEW k \in Low
      PROVE  k + 1 \in Low
  <2> SUFFICES ASSUME k + 1 <= Len(log)
               PROVE  Counted(MetricsUpTo(log)[k + 1], SpansUpTo(log)[k + 1])
    OBVIOUS
  <2>1. k + 1 \in 1..Len(log) /\ (k + 1) - 1 = k /\ k \in 0..Len(log)
    BY <1>1
  <2>2. PICK m, s, e, n, t : /\ m = MetricsUpTo(log)[k] /\ s = SpansUpTo(log)[k] /\ e = log[k + 1]
                             /\ n = MetricsUpTo(log)[k + 1] /\ t = SpansUpTo(log)[k + 1]
    OBVIOUS
  <2>3. n = MetricsStep(m, e) /\ t = SpansStep(s, e) /\ Counted(m, s)
    BY <1>1, <2>1, <2>2, MetricsSteps, SpansSteps
  <2>4. /\ e.type \notin ChildEnds
        /\ e.type = "model-response" => e.own \in Nat
        /\ e.type \in CostBearing => e.total \in Nat
    BY <2>1, <2>2 DEF Priced
  <2>5. /\ IsMetrics(n) /\ MetricsMove(m, e, n) /\ IsSpans(t) /\ SpansMove(s, e, t)
    BY <2>3, <2>4, MetricsFields, SpansFields DEF Counted
  <2>6. n.total \in Nat /\ t.last \in Nat /\ n.total <= t.last
    <3>1. CASE e.type \in CostBearing
      <4>1. n.total = e.total /\ t.last = e.total
        BY <2>5, <3>1 DEF MetricsMove, SpansMove, CostBearing
      <4> QED
        BY <2>4, <3>1, <4>1
    <3>2. CASE e.type \notin CostBearing
      <4>1. n.total = m.total
        BY <2>5, <3>2 DEF MetricsMove
      <4>2. t.last = s.last \/ (e.type = "model-response" /\ t.last = s.last + e.own)
        BY <2>5, <3>2 DEF SpansMove, Provenance
      <4> QED
        BY <2>3, <2>4, <4>1, <4>2 DEF Counted
    <3> QED
      BY <3>1, <3>2
  <2> QED
    BY <2>2, <2>5, <2>6 DEF Counted
<1>4. Low = Nat
  <2> HIDE DEF Low
  <2>1. Low \in SUBSET Nat
    BY DEF Low
  <2> QED
    BY <1>2, <1>3, <2>1, NaturalInduction
<1> QED
  BY <1>1, <1>4

\* The places of the turns among the first k events.
TurnsUpTo(log, k) == {j \in 1..k : log[j].type = "agent-turn"}

LEMMA MetricsTurns ==
  ASSUME NEW log, Priced(log)
  PROVE  \A k \in 0..Len(log) : MetricsUpTo(log)[k].turns = Cardinality(TurnsUpTo(log, k))
<1> DEFINE Right == {k \in Nat : k <= Len(log) =>
                       MetricsUpTo(log)[k].turns = Cardinality(TurnsUpTo(log, k))}
<1>1. IsSeq(log) /\ Len(log) \in Nat
  BY SeqFacts DEF Priced
<1>2. 0 \in Right
  <2>1. TurnsUpTo(log, 0) = {}
    BY DEF TurnsUpTo
  <2>2. Cardinality(TurnsUpTo(log, 0)) = 0
    BY <2>1, FS_EmptySet
  <2> QED
    BY <1>1, <2>2, MetricsSteps DEF NoMetrics
<1>3. ASSUME NEW k \in Right
      PROVE  k + 1 \in Right
  <2> SUFFICES ASSUME k + 1 <= Len(log)
               PROVE  MetricsUpTo(log)[k + 1].turns = Cardinality(TurnsUpTo(log, k + 1))
    OBVIOUS
  <2>1. k + 1 \in 1..Len(log) /\ (k + 1) - 1 = k /\ k \in 0..Len(log)
    BY <1>1
  <2>2. PICK m, e, n : /\ m = MetricsUpTo(log)[k] /\ e = log[k + 1]
                       /\ n = MetricsUpTo(log)[k + 1]
    OBVIOUS
  <2>3. n = MetricsStep(m, e) /\ m.turns = Cardinality(TurnsUpTo(log, k)) /\ IsMetrics(m)
    BY <1>1, <2>1, <2>2, MetricsSteps, MetricsBelow DEF Counted
  <2>4. MetricsMove(m, e, n)
    BY <2>1, <2>2, <2>3, MetricsFields DEF Priced
  <2>5. /\ IsFiniteSet(TurnsUpTo(log, k)) /\ k + 1 \notin TurnsUpTo(log, k)
        /\ TurnsUpTo(log, k + 1) =
             TurnsUpTo(log, k) \cup (IF e.type = "agent-turn" THEN {k + 1} ELSE {})
    <3>1. IsFiniteSet(1..k) /\ TurnsUpTo(log, k) \subseteq 1..k
      BY FS_Interval DEF TurnsUpTo
    <3>2. IsFiniteSet(TurnsUpTo(log, k))
      BY <3>1, FS_Subset
    <3> QED
      BY <2>2, <3>2 DEF TurnsUpTo
  <2>6. Cardinality(TurnsUpTo(log, k + 1)) = IF e.type = "agent-turn"
                                             THEN Cardinality(TurnsUpTo(log, k)) + 1
                                             ELSE Cardinality(TurnsUpTo(log, k))
    BY <2>5, FS_AddElement
  <2> QED
    BY <2>2, <2>3, <2>4, <2>6 DEF MetricsMove
<1>4. Right = Nat
  <2> HIDE DEF Right
  <2>1. Right \in SUBSET Nat
    BY DEF Right
  <2> QED
    BY <1>2, <1>3, <2>1, NaturalInduction
<1> QED
  BY <1>1, <1>4

LEMMA MetricsNow ==
  ASSUME TypeInv, BearInv
  PROVE  /\ MetricsAfter(events).total <= Spans.last
         /\ MetricsAfter(events).turns = Cardinality(Of("agent-turn"))
         /\ \A k \in DOMAIN events : k = Len(events) /\ events[k].type \in CostBearing
              => MetricsAfter(events).total = events[k].total
<1>1. IsSeq(events) /\ DOMAIN events = 1..Len(events) /\ Len(events) \in Nat /\ Priced(events)
  BY LogPriced, SeqFacts DEF TypeInv, LogOK
<1>2. Len(events) \in 0..Len(events)
  BY <1>1
<1>3. MetricsAfter(events).total <= Spans.last
  BY <1>1, <1>2, MetricsBelow DEF Counted, MetricsAfter, Spans, SpansAfter
<1>4. MetricsAfter(events).turns = Cardinality(Of("agent-turn"))
  BY <1>1, <1>2, MetricsTurns DEF MetricsAfter, TurnsUpTo, Of
<1>5. ASSUME NEW k \in DOMAIN events, k = Len(events), events[k].type \in CostBearing
      PROVE  MetricsAfter(events).total = events[k].total
  <2>1. Len(events) \in 1..Len(events) /\ Len(events) - 1 \in 0..Len(events)
    BY <1>1, <1>5
  <2>2. PICK m, e, n : /\ m = MetricsUpTo(events)[Len(events) - 1] /\ e = events[Len(events)]
                       /\ n = MetricsUpTo(events)[Len(events)]
    OBVIOUS
  <2>3. n = MetricsStep(m, e) /\ IsMetrics(m) /\ e.type \notin ChildEnds
    BY <1>1, <2>1, <2>2, MetricsSteps, MetricsBelow DEF Counted, Priced
  <2>4. n.total = e.total
    BY <1>5, <2>2, <2>3, MetricsFields DEF MetricsMove
  <2> QED
    BY <1>5, <2>2, <2>4 DEF MetricsAfter
<1> QED
  BY <1>3, <1>4, <1>5

\* A run of a protocol has no children, whose cost were nested in its own.
LEMMA NothingNested ==
  ASSUME TypeInv, BearInv
  PROVE  NestedUpTo(events)[Len(events)] = 0
<1> DEFINE summand == [k \in 1..Len(events) |-> 0]
           child(k) == IF events[k].type \in ChildEnds THEN events[k].own ELSE 0
<1>1. Len(events) \in Nat /\ \A k \in 1..Len(events) : child(k) = 0
  BY LogPriced, SeqFacts DEF TypeInv, LogOK, Priced
<1>2. PICK f : f = [k \in 0..Len(events) |-> IF k = 0 THEN 0 ELSE f[k - 1] + summand[k]]
  BY <1>1, RunningSumExists
<1>3. [k \in 0..Len(events) |-> IF k = 0 THEN 0 ELSE f[k - 1] + summand[k]]
        = [k \in 0..Len(events) |-> IF k = 0 THEN 0 ELSE f[k - 1] + child(k)]
  BY <1>1
<1>4. \E g : g = [k \in 0..Len(events) |-> IF k = 0 THEN 0 ELSE g[k - 1] + child(k)]
  BY <1>2, <1>3
<1>5. NestedUpTo(events) =
        [k \in 0..Len(events) |-> IF k = 0 THEN 0 ELSE NestedUpTo(events)[k - 1] + child(k)]
  BY <1>4 DEF NestedUpTo
<1>6. \A k \in 0..Len(events) :
        NestedUpTo(events)[k] = IF k = 0 THEN 0 ELSE NestedUpTo(events)[k - 1] + child(k)
  BY <1>5
<1> DEFINE Zero == {k \in Nat : k <= Len(events) => NestedUpTo(events)[k] = 0}
<1>7. 0 \in Zero
  BY <1>1, <1>6
<1>8. ASSUME NEW k \in Zero
      PROVE  k + 1 \in Zero
  BY <1>1, <1>6
<1>9. Zero = Nat
  <2> HIDE DEF Zero
  <2>1. Zero \in SUBSET Nat
    BY DEF Zero
  <2> QED
    BY <1>7, <1>8, <2>1, NaturalInduction
<1> QED
  BY <1>1, <1>9

-----------------------------------------------------------------------------
(* What the reports of a run say                                           *)

ReportInv ==
  /\ BearInv /\ CostInv /\ OpenCallInv /\ LastInv /\ EndInv /\ OpenInv /\ EndedInv

LEMMA ReportStep ==
  ASSUME TypeInv, CountInv, LedgerInv, FinalInv, ReportInv, [Next]_vars
  PROVE  ReportInv'
<1>1. BearInv' /\ CostInv'
  BY BearStep, CostStep DEF ReportInv, LedgerInv
<1>2. OpenCallInv' /\ LastInv'
  BY <1>1, OpenCallStep, LastStep DEF ReportInv, LedgerInv
<1>3. EndInv' /\ OpenInv' /\ EndedInv'
  BY EndStep, OpenStep, EndedStep DEF ReportInv, LedgerInv
<1> QED
  BY <1>1, <1>2, <1>3 DEF ReportInv

LEMMA ReportInit == Init => ReportInv
BY BearInit, CostInit, OpenCallInit, LastInit, EndInit, OpenInit, EndedInit DEF ReportInv

\* What the log of a resolved run ends with.
LEMMA ResolvedEnd ==
  ASSUME TypeInv, CountInv, LedgerInv, ReportInv, settled = "resolved"
  PROVE  /\ phase = "over" /\ Sound /\ ~InWave
         /\ Len(events) \in Nat \ {0} /\ DOMAIN events = 1..Len(events) /\ events # <<>>
         /\ Len(events) \in DOMAIN events /\ Of("final") = {Len(events)}
         /\ events[Len(events)].type = "final" /\ events[Len(events)].total = totalCost
         /\ Cardinality(Of("agent-turn")) = Len(transcript)
         /\ totalCost \in Nat
<1>1. phase = "over" /\ Healthy /\ ~InWave /\ Sound
  BY DEF LedgerInv, WaveInv, Healthy, InWave, Sound
<1>2. Of("final") = {Len(events)} /\ events[Len(events)].total = totalCost
  BY <1>1 DEF ReportInv, EndInv
<1>3. /\ Len(events) \in DOMAIN events /\ events[Len(events)].type = "final"
      /\ DOMAIN events = 1..Len(events) /\ Len(events) \in Nat
  BY <1>2, SeqFacts DEF Of, TypeInv, LogOK
<1>4. events # <<>>
  BY <1>3, EmptyIsSeq
<1> QED
  BY <1>1, <1>2, <1>3, <1>4 DEF CountInv, TypeInv, FlagsOK

\* The reports of the costs and of the turns.
LEMMA MetricsReport ==
  ASSUME TypeInv, CountInv, LedgerInv, ReportInv, settled = "resolved"
  PROVE  /\ MetricsAfter(events).total = totalCost /\ Spans.last = totalCost
         /\ MetricsAfter(events).turns = Len(transcript)
<1>1. MetricsAfter(events).total = totalCost
  BY ResolvedEnd, MetricsNow DEF ReportInv, CostBearing
<1>2. Spans.last = totalCost
  BY ResolvedEnd, LastBears DEF Spans, CostBearing, TypeInv, LogOK
<1> QED
  BY <1>1, <1>2, ResolvedEnd, MetricsNow DEF ReportInv

LEMMA RecordsReport ==
  ASSUME TypeInv, CountInv, LedgerInv, DecidedInv, ReportInv, settled = "resolved"
  PROVE  LET run   == RunSnapshot(events, totalCost)
             audit == Audit(events)
         IN  /\ run.own = totalCost /\ audit.cost = totalCost /\ audit.status = run.outcome
             /\ run.outcome = (IF termination.stop /\ termination.reason = "budget"
                               THEN "budget-stopped" ELSE "completed")
             /\ run.turns = Len(transcript) /\ audit.turnCount = Len(transcript)
             /\ Health(events, conf.budget, totalCost).totalTurns = Len(transcript)
<1> DEFINE run   == RunSnapshot(events, totalCost)
           audit == Audit(events)
<1>1. /\ At(events, "agent-turn") = Of("agent-turn") /\ At(events, "final") = Of("final")
      /\ At(events, "budget-stop") = Of("budget-stop")
  BY DEF At, Of
<1>2. Has(events, "final") /\ At(events, "final") = {Len(events)} /\ Len(events) \in Nat
  BY <1>1, ResolvedEnd DEF Has
<1>3. Has(events, "budget-stop") <=> termination.stop /\ termination.reason = "budget"
  BY <1>1 DEF Has, DecidedInv
<1>4. run.own = totalCost
  <2>1. run.own = totalCost - NestedUpTo(events)[Len(events)]
    BY DEF RunSnapshot
  <2> QED
    BY <2>1, NothingNested, ResolvedEnd DEF ReportInv
<1>5. FirstOf(events, "final") = totalCost
  <2>1. (CHOOSE k \in {Len(events)} : \A l \in {Len(events)} : k <= l) = Len(events)
    BY <1>2
  <2> QED
    BY <1>2, <2>1, ResolvedEnd DEF FirstOf
<1>6. audit.cost = totalCost
  BY <1>2, <1>5 DEF Audit
<1>7. run.outcome = IF Has(events, "budget-stop") THEN "budget-stopped" ELSE "completed"
  BY DEF RunSnapshot
<1>8. audit.status = run.outcome
  BY <1>2, <1>7 DEF Audit
<1>9. run.turns = Len(transcript) /\ audit.turnCount = Len(transcript)
  BY <1>1, ResolvedEnd DEF RunSnapshot, Audit
<1>10. Health(events, conf.budget, totalCost).totalTurns = Len(transcript)
  BY <1>1, ResolvedEnd DEF Health
<1> QED
  BY <1>3, <1>4, <1>6, <1>7, <1>8, <1>9, <1>10

LEMMA SpansReport ==
  ASSUME TypeInv, CountInv, LedgerInv, ReportInv, settled = "resolved"
  PROVE  /\ Spans.turns = {} /\ Spans.calls = {} /\ Len(Spans.ended) = Len(transcript)
         /\ \A k \in Of("agent-turn") : Spans.ended[Nth(k)] = events[k].total - TotalBefore(k)
<1>1. Sound /\ Asked = {} /\ Called = {}
  BY ResolvedEnd DEF Asked, Called
<1>2. Spans.turns = {} /\ Spans.calls = {}
  BY <1>1 DEF ReportInv, OpenInv
<1>3. ASSUME NEW k \in Of("agent-turn")
      PROVE  Spans.ended[Nth(k)] = events[k].total - TotalBefore(k)
  <2>1. k \in Int
    BY OfFinite DEF TypeInv
  <2>2. TotalBefore(k) \in Nat
    BY <2>1, TotalBeforeTyped DEF ReportInv
  <2>3. Spans.ended[Nth(k)] \in Nat /\ events[k].total = TotalBefore(k) + Spans.ended[Nth(k)]
    BY <1>1 DEF ReportInv, EndedInv
  <2> QED
    BY <2>2, <2>3
<1> QED
  BY <1>1, <1>2, <1>3 DEF ReportInv, EndedInv

\* A cap that is not reached is not used up.
LEMMA BelowCap ==
  ASSUME NEW total \in Nat, NEW cap \in Nat, total < cap
  PROVE  (100 * total) \div cap < 100
OBVIOUS

LEMMA HealthReport ==
  ASSUME TypeInv, CountInv, LedgerInv, ReportInv, JustifiedInv, settled = "resolved",
         conf.terminate = <<>>, ~termination.stop,
         NEW percent \in Health(events, conf.budget, totalCost).utilization
  PROVE  percent < 100
<1>1. "cost" \in DOMAIN conf.budget
  BY DEF Health
<1>2. Conditions = <<Budget(conf.budget)>>
  BY <1>1 DEF Conditions, EffectiveConditions
<1>3. conf.budget \in BudgetsOf
  <2>1. 1 \in DOMAIN Conditions /\ Conditions[1] = Budget(conf.budget)
    BY <1>2
  <2>2. Conditions[1].kind = "budget" /\ Conditions[1].caps = conf.budget
    BY <2>1 DEF Budget
  <2> QED
    BY <2>1, <2>2 DEF BudgetsOf
<1>4. Below(conf.budget)
  BY <1>3, ResolvedEnd DEF JustifiedInv, Justified, Unstopped
<1>5. totalCost < conf.budget["cost"] /\ totalCost \in Nat /\ conf.budget["cost"] \in Int
  <2>1. conf.budget["cost"] \in Int
    BY <1>1, ConfigsAssumption DEF TypeInv, RunOK, IsCaps
  <2> QED
    BY <1>1, <1>4, <2>1, ResolvedEnd DEF Below
<1>6. percent = (100 * totalCost) \div conf.budget["cost"]
  BY <1>1, <1>5 DEF Health
<1>7. conf.budget["cost"] \in Nat
  BY <1>5
<1> QED
  BY <1>5, <1>6, <1>7, BelowCap

LEMMA AccountingReport ==
  ASSUME NEW percent \in Health(events, conf.budget, totalCost).utilization,
         conf.budget["cost"] > 0
  PROVE  percent = RunAccounting(conf.budget, totalCost).utilization["cost"]
<1>1. "cost" \in DOMAIN conf.budget
  BY DEF Health
<1>2. conf.budget["cost"] # 0
  OBVIOUS
<1>3. percent = (100 * totalCost) \div conf.budget["cost"]
  BY <1>1, <1>2 DEF Health
<1> QED
  BY <1>1, <1>2, <1>3 DEF RunAccounting

\* What a query finds.
LEMMA PositionIsRank ==
  ASSUME TypeInv, NEW k \in Of("agent-turn")
  PROVE  TurnPosition(events, k) = Nth(k)
<1> DEFINE before == {j \in Of("agent-turn") : j < k}
<1>1. Of("agent-turn") \subseteq 1..Len(events) /\ Len(events) \in Nat /\ IsFiniteSet(Of("agent-turn"))
  BY OfFinite DEF TypeInv
<1>2. {j \in At(events, "agent-turn") : j <= k} = before \cup {k}
  BY <1>1 DEF At, Of
<1>3. IsFiniteSet(before) /\ k \notin before
  BY <1>1, FS_Subset
<1>4. Cardinality(before \cup {k}) = Cardinality(before) + 1
  BY <1>3, FS_AddElement
<1>5. events[k].type = "agent-turn"
  BY DEF Of
<1> QED
  BY <1>2, <1>4, <1>5 DEF TurnPosition, Nth

LEMMA TurnQuery ==
  ASSUME TypeInv, CountInv, LedgerInv, NEW n \in DOMAIN transcript, NEW a \in Agents
  PROVE  Queried([NoFilter EXCEPT !.agent = {a}, !.turns = {Exactly(n)}]) # {}
           <=> transcript[n].agent = a
<1> DEFINE filter == [NoFilter EXCEPT !.agent = {a}, !.turns = {Exactly(n)}]
<1>0. /\ RunOK /\ LogOK /\ n \in 1..Cardinality(Of("agent-turn")) /\ n \in Int
      /\ Of("agent-turn") \subseteq DOMAIN events
  BY SeqFacts DEF TypeInv, LogOK, CountInv, Of
<1>1. filter.type = {} /\ filter.agent = {a} /\ filter.turns = {Exactly(n)} /\ filter.cost = {}
  BY DEF NoFilter
<1>2. \A k : k \in Queried(filter) <=>
        /\ k \in Of("agent-turn") /\ events[k].agent = a
        /\ InRange(TurnPosition(events, k), Exactly(n))
  BY <1>1 DEF Queried, QueryEvents, Matches, Of
<1>3. \A k \in Of("agent-turn") : InRange(TurnPosition(events, k), Exactly(n)) <=> Nth(k) = n
  <2> SUFFICES ASSUME NEW k \in Of("agent-turn")
               PROVE  InRange(TurnPosition(events, k), Exactly(n)) <=> Nth(k) = n
    OBVIOUS
  <2>1. TurnPosition(events, k) = Nth(k) /\ Nth(k) \in Int
    BY <1>0, PositionIsRank, NthFacts
  <2>2. InRange(Nth(k), Exactly(n)) <=> Nth(k) >= n /\ Nth(k) <= n
    BY DEF InRange, Exactly
  <2> QED
    BY <1>0, <2>1, <2>2
<1>4. \A k \in Of("agent-turn") : events[k].agent = transcript[Nth(k)].agent
  BY DEF LedgerInv, TurnInv
<1>5. \E k \in Of("agent-turn") : Nth(k) = n
  BY <1>0, NthFacts
<1> HIDE DEF filter
<1>6. Queried(filter) # {} <=> \E k \in Of("agent-turn") : events[k].agent = a /\ Nth(k) = n
  BY <1>2, <1>3
<1>7. (\E k \in Of("agent-turn") : events[k].agent = a /\ Nth(k) = n) <=> transcript[n].agent = a
  BY <1>4, <1>5
<1> QED
  BY <1>6, <1>7 DEF filter

LEMMA CostQuery ==
  ASSUME TypeInv, BearInv, NEW k \in Of("agent-turn")
  PROVE  LET cheap == Queried([NoFilter EXCEPT !.type = {"agent-turn"},
                                               !.cost = {UpTo(events[k].total)}])
         IN  k \in cheap /\ \A i \in cheap, j \in Of("agent-turn") : j <= i => j \in cheap
<1> DEFINE filter == [NoFilter EXCEPT !.type = {"agent-turn"}, !.cost = {UpTo(events[k].total)}]
<1>1. /\ filter.type = {"agent-turn"} /\ filter.agent = {} /\ filter.turns = {}
      /\ filter.cost = {UpTo(events[k].total)}
  BY DEF NoFilter
<1>2. \A n : InRange(n, UpTo(events[k].total)) <=> n <= events[k].total
  BY DEF InRange, UpTo, NoRange
<1>3. \A i : i \in Queried(filter) <=> i \in Of("agent-turn") /\ events[i].total <= events[k].total
  BY <1>1, <1>2 DEF Queried, QueryEvents, Matches, Of
<1>4. \A i \in Of("agent-turn") : i \in Bearing
  BY DEF Of, Bearing, BudgetStateChanges, CostBearing
<1>5. \A i \in Of("agent-turn") : events[i].total \in Nat
  BY <1>4 DEF BearInv, TypeInv, FlagsOK
<1> HIDE DEF filter
<1>6. k \in Queried(filter)
  BY <1>3, <1>5
<1>7. ASSUME NEW i \in Queried(filter), NEW j \in Of("agent-turn"), j <= i
      PROVE  j \in Queried(filter)
  <2>1. i \in Of("agent-turn") /\ events[i].total <= events[k].total
    BY <1>3
  <2>2. events[j].total <= events[i].total
    BY <1>4, <1>7, <2>1 DEF BearInv
  <2> QED
    BY <1>3, <1>5, <2>1, <2>2
<1> QED
  BY <1>6, <1>7 DEF filter

LEMMA ReportsTell ==
  ASSUME TypeInv, CountInv, LedgerInv, DecidedInv, JustifiedInv, ReportInv
  PROVE  ReportsAgree
<1> DEFINE spans   == SpansAfter(events)
           metrics == MetricsAfter(events)
           run     == RunSnapshot(events, totalCost)
           audit   == Audit(events)
           health  == Health(events, conf.budget, totalCost)
           accounting == RunAccounting(conf.budget, totalCost)
           changes == BudgetStateChanges(events)
           turns   == Of("agent-turn")
<1>1. spans.last = Spent
  BY DEF ReportInv, LastInv, Spans
<1>2. metrics.total <= spans.last
  BY MetricsNow DEF ReportInv, Spans
<1> SUFFICES ASSUME settled = "resolved"
             PROVE  /\ metrics.total = totalCost /\ spans.last = totalCost
                    /\ run.own = totalCost /\ audit.cost = totalCost
                    /\ audit.status = run.outcome
                    /\ run.outcome = (IF termination.stop /\ termination.reason = "budget"
                                      THEN "budget-stopped" ELSE "completed")
                    /\ {metrics.turns, run.turns, audit.turnCount, health.totalTurns}
                         = {Len(transcript)}
                    /\ spans.turns = {} /\ spans.calls = {}
                    /\ Len(spans.ended) = Len(transcript)
                    /\ \A k \in turns : spans.ended[Nth(k)] = events[k].total - TotalBefore(k)
                    /\ conf.terminate = <<>> /\ ~termination.stop =>
                         \A percent \in health.utilization : percent < 100
                    /\ FinalOutput(events, Len(transcript))
                         = [cost |-> totalCost, entries |-> Len(transcript)]
                    /\ \E k \in changes :
                         events[k].total = totalCost /\ \A j \in changes : j <= k
                    /\ \A j, k \in changes : j <= k => events[j].total <= events[k].total
                    /\ \A percent \in health.utilization :
                         conf.budget["cost"] > 0 => percent = accounting.utilization["cost"]
                    /\ \A n \in DOMAIN transcript, a \in Agents :
                         Queried([NoFilter EXCEPT !.agent = {a}, !.turns = {Exactly(n)}]) # {}
                           <=> transcript[n].agent = a
                    /\ \A k \in turns :
                         LET cheap == Queried([NoFilter EXCEPT !.type = {"agent-turn"},
                                                               !.cost = {UpTo(events[k].total)}])
                         IN  k \in cheap /\ \A i \in cheap, j \in turns : j <= i => j \in cheap
  BY <1>1, <1>2 DEF ReportsAgree
<1>3. /\ metrics.total = totalCost /\ spans.last = totalCost /\ metrics.turns = Len(transcript)
  BY MetricsReport DEF Spans
<1>4. /\ run.own = totalCost /\ audit.cost = totalCost /\ audit.status = run.outcome
      /\ run.outcome = (IF termination.stop /\ termination.reason = "budget"
                        THEN "budget-stopped" ELSE "completed")
      /\ run.turns = Len(transcript) /\ audit.turnCount = Len(transcript)
      /\ health.totalTurns = Len(transcript)
  BY RecordsReport
<1>5. /\ spans.turns = {} /\ spans.calls = {} /\ Len(spans.ended) = Len(transcript)
      /\ \A k \in turns : spans.ended[Nth(k)] = events[k].total - TotalBefore(k)
  BY SpansReport DEF Spans
<1>6. conf.terminate = <<>> /\ ~termination.stop => \A percent \in health.utilization : percent < 100
  BY HealthReport
<1>7. FinalOutput(events, Len(transcript)) = [cost |-> totalCost, entries |-> Len(transcript)]
  BY ResolvedEnd DEF FinalOutput
<1>8. \E k \in changes : events[k].total = totalCost /\ \A j \in changes : j <= k
  <2>1. Len(events) \in changes /\ \A j \in changes : j <= Len(events)
    BY ResolvedEnd DEF BudgetStateChanges, CostBearing
  <2> QED
    BY <2>1, ResolvedEnd
<1>9. \A j, k \in changes : j <= k => events[j].total <= events[k].total
  BY DEF ReportInv, BearInv, Bearing
<1>10. \A percent \in health.utilization :
         conf.budget["cost"] > 0 => percent = accounting.utilization["cost"]
  BY AccountingReport
<1>11. \A n \in DOMAIN transcript, a \in Agents :
         Queried([NoFilter EXCEPT !.agent = {a}, !.turns = {Exactly(n)}]) # {}
           <=> transcript[n].agent = a
  BY TurnQuery
<1>12. \A k \in turns :
         LET cheap == Queried([NoFilter EXCEPT !.type = {"agent-turn"},
                                               !.cost = {UpTo(events[k].total)}])
         IN  k \in cheap /\ \A i \in cheap, j \in turns : j <= i => j \in cheap
  BY CostQuery DEF ReportInv
<1> HIDE DEF spans, metrics, run, audit, health, accounting, changes, turns
<1> QED
  BY <1>3, <1>4, <1>5, <1>6, <1>7, <1>8, <1>9, <1>10, <1>11, <1>12

\* The inductive invariant of the reports: what the spans hold in a wave, how what has been
\* spent hangs together with what the run has counted, and what the log bears.
THEOREM ReportInvariant == Spec => []ReportInv
<1>1. Init => ReportInv
  BY ReportInit
<1>2. TypeInv /\ CountInv /\ LedgerInv /\ FinalInv /\ ReportInv /\ [Next]_vars => ReportInv'
  BY ReportStep
<1> QED
  BY <1>1, <1>2, LedgerInvariant, OutputInvariant, PTL DEF Spec

\* The tracer counts what has been spent and the metrics no more; of a resolved run the
\* metrics, the audit record, the health summary, the spans, the accounting and the queries
\* tell the same turns, costs and outcome (handleMetricsEvent, handleTracingEvent,
\* buildRunSnapshot, createAuditRecord, computeHealth, queryEvents).
THEOREM ReportsTrue == Spec => []ReportsAgree
<1>1. TypeInv /\ CountInv /\ LedgerInv /\ DecidedInv /\ BelowInv /\ JustifiedInv /\ ReportInv
        => ReportsAgree
  BY ReportsTell
<1> QED
  BY <1>1, LedgerInvariant, StopInvariant, ReportInvariant, PTL

-----------------------------------------------------------------------------
(* The log without the events of provider calls, and with them again       *)

\* What one more event adds to what is left.
Keep(kept, e) == IF e.type \in Provenance THEN kept ELSE Append(kept, e)

\* What is left of a log when these events are taken away.
LEMMA StrippedExist ==
  ASSUME NEW N \in Nat, NEW log
  PROVE  \E f : f = [k \in 0..N |-> IF k = 0 THEN <<>> ELSE Keep(f[k - 1], log[k])]
<1> DEFINE IsRun(f, M) ==
             f = [k \in 0..M |-> IF k = 0 THEN <<>> ELSE Keep(f[k - 1], log[k])]
           Lengths == {M \in Nat : \E f : IsRun(f, M)}
<1>1. 0 \in Lengths
  <2>1. IsRun([k \in 0..0 |-> <<>>], 0)
    OBVIOUS
  <2> QED
    BY <2>1
<1>2. ASSUME NEW M \in Lengths
      PROVE  M + 1 \in Lengths
  <2>1. PICK f : IsRun(f, M)
    OBVIOUS
  <2> DEFINE longer == [k \in 0..(M + 1) |-> IF k = M + 1 THEN Keep(f[M], log[k]) ELSE f[k]]
  <2>2. \A k \in 0..M : f[k] = IF k = 0 THEN <<>> ELSE Keep(f[k - 1], log[k])
    BY <2>1
  <2>3. \A k \in 0..(M + 1) :
          longer[k] = IF k = 0 THEN <<>> ELSE Keep(longer[k - 1], log[k])
    BY <2>2
  <2>4. IsRun(longer, M + 1)
    BY <2>3
  <2> HIDE DEF IsRun, longer
  <2>5. \E g : IsRun(g, M + 1)
    BY <2>4
  <2> QED
    BY <2>5
<1>3. Lengths = Nat
  <2> HIDE DEF Lengths
  <2>1. Lengths \in SUBSET Nat
    BY DEF Lengths
  <2> QED
    BY <1>1, <1>2, <2>1, NaturalInduction
<1> QED
  BY <1>3

LEMMA StrippedSteps ==
  ASSUME NEW log, IsSeq(log)
  PROVE  /\ StrippedUpTo(log)[0] = <<>>
         /\ \A k \in 1..Len(log) :
              StrippedUpTo(log)[k] = Keep(StrippedUpTo(log)[k - 1], log[k])
<1>1. Len(log) \in Nat
  BY SeqFacts
<1>2. \E f : f = [k \in 0..Len(log) |-> IF k = 0 THEN <<>> ELSE Keep(f[k - 1], log[k])]
  BY <1>1, StrippedExist
<1>3. StrippedUpTo(log) =
        [k \in 0..Len(log) |-> IF k = 0 THEN <<>> ELSE Keep(StrippedUpTo(log)[k - 1], log[k])]
  BY <1>2 DEF StrippedUpTo, Keep
<1>4. \A k \in 0..Len(log) :
        StrippedUpTo(log)[k] = IF k = 0 THEN <<>> ELSE Keep(StrippedUpTo(log)[k - 1], log[k])
  BY <1>3
<1> QED
  BY <1>1, <1>4

LEMMA StrippedKept ==
  ASSUME NEW old, NEW new, IsSeq(old), Extends(new, old)
  PROVE  \A k \in 0..Len(old) : StrippedUpTo(new)[k] = StrippedUpTo(old)[k]
<1> DEFINE Same == {k \in Nat : k <= Len(old) => StrippedUpTo(new)[k] = StrippedUpTo(old)[k]}
<1>1. /\ Len(old) \in Nat /\ Len(new) \in Nat /\ Len(old) <= Len(new) /\ IsSeq(new)
      /\ \A k \in 1..Len(old) : new[k] = old[k]
  BY SeqFacts DEF Extends
<1>2. /\ StrippedUpTo(new)[0] = <<>> /\ StrippedUpTo(old)[0] = <<>>
      /\ \A k \in 1..Len(new) : StrippedUpTo(new)[k] = Keep(StrippedUpTo(new)[k - 1], new[k])
      /\ \A k \in 1..Len(old) : StrippedUpTo(old)[k] = Keep(StrippedUpTo(old)[k - 1], old[k])
  BY <1>1, StrippedSteps
<1>3. 0 \in Same
  BY <1>2
<1>4. ASSUME NEW k \in Same
      PROVE  k + 1 \in Same
  BY <1>1, <1>2
<1>5. Same = Nat
  <2> HIDE DEF Same
  <2>1. Same \in SUBSET Nat
    BY DEF Same
  <2> QED
    BY <1>3, <1>4, <2>1, NaturalInduction
<1> QED
  BY <1>1, <1>5

\* What has been put together.
NoSynthesis == [turns |-> 0, out |-> <<>>]

IsSynthesis(f, N, log, calls) ==
  f = [k \in 0..N |-> IF k = 0 THEN NoSynthesis ELSE SynthesisStep(f[k - 1], log[k], calls)]

LEMMA SynthesisExist ==
  ASSUME NEW N \in Nat, NEW log, NEW calls
  PROVE  \E f : IsSynthesis(f, N, log, calls)
<1> DEFINE IsRun(f, M) ==
             f = [k \in 0..M |-> IF k = 0 THEN NoSynthesis ELSE SynthesisStep(f[k - 1], log[k], calls)]
           Lengths == {M \in Nat : \E f : IsRun(f, M)}
<1>1. 0 \in Lengths
  <2>1. IsRun([k \in 0..0 |-> NoSynthesis], 0)
    OBVIOUS
  <2> QED
    BY <2>1
<1>2. ASSUME NEW M \in Lengths
      PROVE  M + 1 \in Lengths
  <2>1. PICK f : IsRun(f, M)
    OBVIOUS
  <2> DEFINE longer == [k \in 0..(M + 1) |-> IF k = M + 1 THEN SynthesisStep(f[M], log[k], calls) ELSE f[k]]
  <2>2. \A k \in 0..M : f[k] = IF k = 0 THEN NoSynthesis ELSE SynthesisStep(f[k - 1], log[k], calls)
    BY <2>1
  <2>3. \A k \in 0..(M + 1) :
          longer[k] = IF k = 0 THEN NoSynthesis ELSE SynthesisStep(longer[k - 1], log[k], calls)
    BY <2>2
  <2>4. IsRun(longer, M + 1)
    BY <2>3
  <2> HIDE DEF IsRun, longer
  <2>5. \E g : IsRun(g, M + 1)
    BY <2>4
  <2> QED
    BY <2>5
<1>3. Lengths = Nat
  <2> HIDE DEF Lengths
  <2>1. Lengths \in SUBSET Nat
    BY DEF Lengths
  <2> QED
    BY <1>1, <1>2, <2>1, NaturalInduction
<1> QED
  BY <1>3 DEF IsSynthesis

LEMMA SynthesisSteps ==
  ASSUME NEW log, IsSeq(log), NEW calls
  PROVE  /\ SynthesisUpTo(log, calls)[0] = NoSynthesis
         /\ \A k \in 1..Len(log) :
              SynthesisUpTo(log, calls)[k] = SynthesisStep(SynthesisUpTo(log, calls)[k - 1], log[k], calls)
<1>1. Len(log) \in Nat
  BY SeqFacts
<1>2. \E f : IsSynthesis(f, Len(log), log, calls)
  BY <1>1, SynthesisExist
<1>3. SynthesisUpTo(log, calls) =
        [k \in 0..Len(log) |-> IF k = 0 THEN NoSynthesis
                               ELSE SynthesisStep(SynthesisUpTo(log, calls)[k - 1], log[k], calls)]
  BY <1>2 DEF SynthesisUpTo, NoSynthesis, IsSynthesis
<1>4. \A k \in 0..Len(log) :
        SynthesisUpTo(log, calls)[k] =
          IF k = 0 THEN NoSynthesis ELSE SynthesisStep(SynthesisUpTo(log, calls)[k - 1], log[k], calls)
  BY <1>3
<1> QED
  BY <1>1, <1>4

\* Two sequences with the same elements.
LEMMA SameSeq ==
  ASSUME NEW s, IsSeq(s), NEW t, IsSeq(t), Len(s) = Len(t), \A k \in 1..Len(s) : s[k] = t[k]
  PROVE  s = t
BY DEF IsSeq

LEMMA ConcatOne ==
  ASSUME NEW s, IsSeq(s), NEW e
  PROVE  s \o <<e>> = Append(s, e)
BY DEF IsSeq

\* What is left of a log is a sequence without events of provider calls.
LEMMA StrippedShape ==
  ASSUME NEW log, IsSeq(log)
  PROVE  \A k \in 0..Len(log) : IsSeq(StrippedUpTo(log)[k])
<1> DEFINE Shaped == {k \in Nat : k <= Len(log) => IsSeq(StrippedUpTo(log)[k])}
<1>1. Len(log) \in Nat
  BY SeqFacts
<1>2. 0 \in Shaped
  BY StrippedSteps, EmptyIsSeq
<1>3. ASSUME NEW k \in Shaped
      PROVE  k + 1 \in Shaped
  <2> SUFFICES ASSUME k + 1 <= Len(log)
               PROVE  IsSeq(StrippedUpTo(log)[k + 1])
    OBVIOUS
  <2>1. PICK kept, e : kept = StrippedUpTo(log)[k] /\ e = log[k + 1]
    OBVIOUS
  <2>2. StrippedUpTo(log)[k + 1] = Keep(kept, e)
    BY <1>1, <2>1, StrippedSteps
  <2>3. IsSeq(kept)
    BY <1>1, <2>1
  <2> QED
    BY <2>2, <2>3, AppendFacts DEF Keep
<1>4. Shaped = Nat
  <2> HIDE DEF Shaped
  <2>1. Shaped \in SUBSET Nat
    BY DEF Shaped
  <2> QED
    BY <1>2, <1>3, <2>1, NaturalInduction
<1> QED
  BY <1>1, <1>4

LEMMA StrippedAppend ==
  ASSUME NEW log, IsSeq(log), NEW e
  PROVE  Stripped(Append(log, e)) = Keep(Stripped(log), e) /\ IsSeq(Stripped(log))
<1>1. /\ Len(log) \in Nat /\ Len(Append(log, e)) = Len(log) + 1 /\ IsSeq(Append(log, e))
      /\ Append(log, e)[Len(log) + 1] = e /\ Extends(Append(log, e), log)
  BY SeqFacts, AppendFacts, AppendExtends
<1>2. Len(log) + 1 \in 1..Len(Append(log, e)) /\ (Len(log) + 1) - 1 = Len(log) /\ Len(log) \in 0..Len(log)
  BY <1>1
<1>3. StrippedUpTo(Append(log, e))[Len(log) + 1] = Keep(StrippedUpTo(Append(log, e))[Len(log)], e)
  BY <1>1, <1>2, StrippedSteps
<1>4. StrippedUpTo(Append(log, e))[Len(log)] = StrippedUpTo(log)[Len(log)]
  BY <1>1, <1>2, StrippedKept
<1> QED
  BY <1>1, <1>2, <1>3, <1>4, StrippedShape DEF Stripped

LEMMA CallsAppend ==
  ASSUME NEW log, IsSeq(log), NEW e
  PROVE  CallsIn(Append(log, e)) =
           CallsIn(log) \cup (IF e.type \in Provenance THEN {<<e.type, e.agent, e.call>>} ELSE {})
<1>1. /\ DOMAIN log = 1..Len(log) /\ Len(log) \in Nat /\ DOMAIN Append(log, e) = 1..(Len(log) + 1)
      /\ Append(log, e)[Len(log) + 1] = e /\ \A k \in 1..Len(log) : Append(log, e)[k] = log[k]
  BY SeqFacts, AppendFacts
<1>2. PICK longer : longer = Append(log, e)
  OBVIOUS
<1>3. {k \in DOMAIN longer : longer[k].type \in Provenance} =
        {k \in DOMAIN log : log[k].type \in Provenance}
          \cup (IF e.type \in Provenance THEN {Len(log) + 1} ELSE {})
  BY <1>1, <1>2
<1>4. CallsIn(longer) =
        CallsIn(log) \cup (IF e.type \in Provenance THEN {<<e.type, e.agent, e.call>>} ELSE {})
  BY <1>1, <1>2, <1>3 DEF CallsIn
<1> QED
  BY <1>2, <1>4

\* The number of turns among the first events.
LEMMA TurnsGrow ==
  ASSUME NEW log, NEW k \in Nat
  PROVE  /\ Cardinality(TurnsUpTo(log, 0)) = 0
         /\ Cardinality(TurnsUpTo(log, k)) \in Nat
         /\ Cardinality(TurnsUpTo(log, k + 1)) =
              Cardinality(TurnsUpTo(log, k)) + (IF log[k + 1].type = "agent-turn" THEN 1 ELSE 0)
         /\ \A m \in 0..k : Cardinality(TurnsUpTo(log, m)) <= Cardinality(TurnsUpTo(log, k))
         /\ \A m \in 0..k : Cardinality(TurnsUpTo(log, m)) \in Nat
<1>1. Cardinality(TurnsUpTo(log, 0)) = 0
  <2>1. TurnsUpTo(log, 0) = {}
    BY DEF TurnsUpTo
  <2> QED
    BY <2>1, FS_EmptySet
<1>2. IsFiniteSet(TurnsUpTo(log, k)) /\ Cardinality(TurnsUpTo(log, k)) \in Nat
  <2>1. IsFiniteSet(1..k) /\ TurnsUpTo(log, k) \subseteq 1..k
    BY FS_Interval DEF TurnsUpTo
  <2> QED
    BY <2>1, FS_Subset, FS_CardinalityType
<1>3. Cardinality(TurnsUpTo(log, k + 1)) =
        Cardinality(TurnsUpTo(log, k)) + (IF log[k + 1].type = "agent-turn" THEN 1 ELSE 0)
  <2>1. k + 1 \notin TurnsUpTo(log, k)
    BY DEF TurnsUpTo
  <2>2. TurnsUpTo(log, k + 1) =
          IF log[k + 1].type = "agent-turn" THEN TurnsUpTo(log, k) \cup {k + 1} ELSE TurnsUpTo(log, k)
    BY DEF TurnsUpTo
  <2>3. Cardinality(TurnsUpTo(log, k) \cup {k + 1}) = Cardinality(TurnsUpTo(log, k)) + 1
    BY <1>2, <2>1, FS_AddElement
  <2> QED
    BY <1>2, <2>2, <2>3
<1>4. ASSUME NEW m \in 0..k
      PROVE  /\ Cardinality(TurnsUpTo(log, m)) <= Cardinality(TurnsUpTo(log, k))
             /\ Cardinality(TurnsUpTo(log, m)) \in Nat
  <2>1. TurnsUpTo(log, m) \subseteq TurnsUpTo(log, k)
    BY DEF TurnsUpTo
  <2> QED
    BY <1>2, <2>1, FS_Subset, FS_CardinalityType
<1> QED
  BY <1>1, <1>2, <1>3, <1>4

\* It depends on these events only.
LEMMA TurnsAlike ==
  ASSUME NEW left, NEW right, NEW k \in Nat, \A i \in 1..k : left[i] = right[i]
  PROVE  TurnsUpTo(left, k) = TurnsUpTo(right, k)
BY DEF TurnsUpTo

\* The counts of turns when a log gets one event more.
LEMMA AppendTurns ==
  ASSUME NEW log, IsSeq(log), NEW e
  PROVE  /\ \A i \in 0..Len(log) : TurnsUpTo(Append(log, e), i) = TurnsUpTo(log, i)
         /\ Cardinality(TurnsUpTo(log, Len(log))) \in Nat
         /\ Cardinality(TurnsUpTo(Append(log, e), Len(log) + 1)) =
              Cardinality(TurnsUpTo(log, Len(log))) + (IF e.type = "agent-turn" THEN 1 ELSE 0)
<1>1. /\ Len(log) \in Nat /\ Append(log, e)[Len(log) + 1] = e
      /\ \A k \in 1..Len(log) : Append(log, e)[k] = log[k]
  BY SeqFacts, AppendFacts
<1>2. PICK longer : longer = Append(log, e)
  OBVIOUS
<1>3. ASSUME NEW i \in 0..Len(log)
      PROVE  TurnsUpTo(longer, i) = TurnsUpTo(log, i)
  <2>1. i \in Nat /\ \A k \in 1..i : longer[k] = log[k]
    BY <1>1, <1>2
  <2> QED
    BY <2>1, TurnsAlike
<1>4. Cardinality(TurnsUpTo(longer, Len(log) + 1)) =
        Cardinality(TurnsUpTo(longer, Len(log))) + (IF e.type = "agent-turn" THEN 1 ELSE 0)
  BY <1>1, <1>2, TurnsGrow
<1>5. Cardinality(TurnsUpTo(log, Len(log))) \in Nat
  BY <1>1, TurnsGrow
<1>6. Len(log) \in 0..Len(log)
  BY <1>1
<1> QED
  BY <1>2, <1>3, <1>4, <1>5, <1>6

\* The n-th turn of a log is of the agent of the n-th entry.
SpokenBy(log, entries) ==
  \A i \in 1..Len(log) : log[i].type = "agent-turn" =>
    /\ Cardinality(TurnsUpTo(log, i)) \in DOMAIN entries
    /\ log[i].agent = entries[Cardinality(TurnsUpTo(log, i))].agent

LEMMA SpokenAppend ==
  ASSUME NEW log, IsSeq(log), NEW e, NEW entries, SpokenBy(log, entries),
         e.type = "agent-turn" =>
           /\ Cardinality(TurnsUpTo(log, Len(log))) + 1 \in DOMAIN entries
           /\ e.agent = entries[Cardinality(TurnsUpTo(log, Len(log))) + 1].agent
  PROVE  SpokenBy(Append(log, e), entries)
<1>1. /\ Len(log) \in Nat /\ Len(Append(log, e)) = Len(log) + 1 /\ Append(log, e)[Len(log) + 1] = e
      /\ \A k \in 1..Len(log) : Append(log, e)[k] = log[k]
  BY SeqFacts, AppendFacts
<1>2. PICK longer : longer = Append(log, e)
  OBVIOUS
<1> SUFFICES ASSUME NEW i \in 1..(Len(log) + 1), longer[i].type = "agent-turn"
             PROVE  /\ Cardinality(TurnsUpTo(longer, i)) \in DOMAIN entries
                    /\ longer[i].agent = entries[Cardinality(TurnsUpTo(longer, i))].agent
  BY <1>1, <1>2 DEF SpokenBy
<1>3. CASE i \in 1..Len(log)
  <2>1. TurnsUpTo(longer, i) = TurnsUpTo(log, i) /\ longer[i] = log[i]
    BY <1>1, <1>2, <1>3, AppendTurns
  <2> QED
    BY <1>3, <2>1 DEF SpokenBy
<1>4. CASE i = Len(log) + 1
  <2>1. longer[i] = e
    BY <1>1, <1>2, <1>4
  <2>2. Cardinality(TurnsUpTo(longer, i)) = Cardinality(TurnsUpTo(log, Len(log))) + 1
    BY <1>2, <1>4, <2>1, AppendTurns
  <2> QED
    BY <2>1, <2>2
<1> QED
  BY <1>1, <1>3, <1>4

\* What is left of the first k events.
Remains(kept, log, k, entries) ==
  /\ IsSeq(kept) /\ SpokenBy(kept, entries)
  /\ \A i \in 1..Len(kept) : kept[i].type \notin Provenance
  /\ Cardinality(TurnsUpTo(kept, Len(kept))) = Cardinality(TurnsUpTo(log, k))

LEMMA LeftGrows ==
  ASSUME NEW log, IsSeq(log), NEW entries, SpokenBy(log, entries), NEW k \in Nat, k + 1 <= Len(log),
         NEW kept, Remains(kept, log, k, entries)
  PROVE  Remains(Keep(kept, log[k + 1]), log, k + 1, entries)
<1>1. PICK e : e = log[k + 1]
  OBVIOUS
<1>2. /\ Cardinality(TurnsUpTo(log, k)) \in Nat
      /\ Cardinality(TurnsUpTo(log, k + 1)) =
           Cardinality(TurnsUpTo(log, k)) + (IF e.type = "agent-turn" THEN 1 ELSE 0)
  BY <1>1, TurnsGrow
<1>3. Len(log) \in Nat /\ k + 1 \in 1..Len(log)
  BY SeqFacts
<1>4. CASE e.type \in Provenance
  <2>1. e.type # "agent-turn"
    BY <1>4 DEF Provenance
  <2>2. Cardinality(TurnsUpTo(log, k + 1)) = Cardinality(TurnsUpTo(log, k))
    BY <1>2, <2>1
  <2> QED
    BY <1>1, <1>4, <2>2 DEF Remains, Keep
<1>5. CASE e.type \notin Provenance
  <2>1. Keep(kept, e) = Append(kept, e)
    BY <1>5 DEF Keep
  <2>2. IsSeq(kept) /\ SpokenBy(kept, entries)
        /\ Cardinality(TurnsUpTo(kept, Len(kept))) = Cardinality(TurnsUpTo(log, k))
    BY DEF Remains
  <2>3. e.type = "agent-turn" =>
          /\ Cardinality(TurnsUpTo(log, k + 1)) \in DOMAIN entries
          /\ e.agent = entries[Cardinality(TurnsUpTo(log, k + 1))].agent
    BY <1>1, <1>3 DEF SpokenBy
  <2>4. SpokenBy(Append(kept, e), entries)
    BY <1>2, <2>2, <2>3, SpokenAppend
  <2>5. /\ IsSeq(Append(kept, e)) /\ Len(Append(kept, e)) = Len(kept) + 1 /\ Len(kept) \in Nat
        /\ Append(kept, e)[Len(kept) + 1] = e
        /\ \A i \in 1..Len(kept) : Append(kept, e)[i] = kept[i]
    BY <2>2, SeqFacts, AppendFacts
  <2>6. Cardinality(TurnsUpTo(Append(kept, e), Len(kept) + 1)) = Cardinality(TurnsUpTo(log, k + 1))
    BY <1>2, <2>2, AppendTurns
  <2>7. \A i \in 1..(Len(kept) + 1) : Append(kept, e)[i].type \notin Provenance
    <3> SUFFICES ASSUME NEW i \in 1..(Len(kept) + 1)
                 PROVE  Append(kept, e)[i].type \notin Provenance
      OBVIOUS
    <3>1. i = Len(kept) + 1 \/ i \in 1..Len(kept)
      BY <2>5
    <3> QED
      BY <1>5, <2>5, <3>1 DEF Remains
  <2> QED
    BY <1>1, <2>1, <2>4, <2>5, <2>6, <2>7 DEF Remains
<1> QED
  BY <1>4, <1>5

LEMMA StrippedLeft ==
  ASSUME NEW log, IsSeq(log), NEW entries, SpokenBy(log, entries)
  PROVE  Remains(Stripped(log), log, Len(log), entries)
<1> DEFINE Good == {k \in Nat : k <= Len(log) => Remains(StrippedUpTo(log)[k], log, k, entries)}
<1>1. Len(log) \in Nat
  BY SeqFacts
<1>2. 0 \in Good
  <2>1. PICK none : none = StrippedUpTo(log)[0]
    OBVIOUS
  <2>2. IsSeq(none) /\ Len(none) = 0
    BY <2>1, StrippedSteps, EmptyIsSeq
  <2>3. Cardinality(TurnsUpTo(none, 0)) = 0 /\ Cardinality(TurnsUpTo(log, 0)) = 0
    BY TurnsGrow
  <2>4. 1..Len(none) = {}
    BY <2>2
  <2> QED
    BY <2>1, <2>2, <2>3, <2>4 DEF Remains, SpokenBy
<1>3. ASSUME NEW k \in Good
      PROVE  k + 1 \in Good
  <2> SUFFICES ASSUME k + 1 <= Len(log)
               PROVE  Remains(StrippedUpTo(log)[k + 1], log, k + 1, entries)
    OBVIOUS
  <2>1. PICK kept : kept = StrippedUpTo(log)[k]
    OBVIOUS
  <2>2. k \in Nat /\ Remains(kept, log, k, entries)
    BY <1>1, <2>1
  <2>3. StrippedUpTo(log)[k + 1] = Keep(kept, log[k + 1])
    BY <1>1, <2>1, <2>2, StrippedSteps
  <2> QED
    BY <2>2, <2>3, LeftGrows
<1>4. Good = Nat
  <2> HIDE DEF Good
  <2>1. Good \in SUBSET Nat
    BY DEF Good
  <2> QED
    BY <1>2, <1>3, <2>1, NaturalInduction
<1> QED
  BY <1>1, <1>4 DEF Stripped

\* The calls of the first turns, as the record has them.
RecordedCalls(entries, m) == {<<type, entries[n].agent, n>> : type \in Provenance, n \in 1..m}

\* The record of the calls has one for each entry.
OneCallEach(calls, entries) ==
  \A n \in DOMAIN entries : n \in DOMAIN calls /\ calls[n].call = n /\ calls[n].agent = entries[n].agent

\* A turn comes right after the request and the response of one call.
Framed(log, i) ==
  log[i].type = "agent-turn" =>
    /\ log[i - 2].type = "model-request" /\ log[i - 1].type = "model-response"
    /\ log[i - 1].call = log[i - 2].call /\ log[i - 1].agent = log[i].agent

AllFramed(log) == \A i \in 1..Len(log) : (log[i].type = "agent-turn" => i > 2) /\ Framed(log, i)

\* What has been put together of the first k events.
Rebuilt(s, log, k, entries) ==
  /\ s = [turns |-> s.turns, out |-> s.out]
  /\ s.turns = Cardinality(TurnsUpTo(log, k))
  /\ IsSeq(s.out) /\ IsSeq(Stripped(s.out))
  /\ Len(Stripped(s.out)) = k /\ \A i \in 1..k : Stripped(s.out)[i] = log[i]
  /\ CallsIn(s.out) = RecordedCalls(entries, s.turns)
  /\ AllFramed(s.out)

\* What a turn brings.
LEMMA SynthesisOfTurn ==
  ASSUME NEW s, IsSeq(s.out), NEW e, e.type = "agent-turn", NEW calls,
         s.turns + 1 \in DOMAIN calls
  PROVE  LET c == calls[s.turns + 1]
         IN  SynthesisStep(s, e, calls) =
               [turns |-> s.turns + 1,
                out |-> Append(Append(Append(s.out, CallEvent("model-request", c)),
                                      CallEvent("model-response", c)), e)]
<1>1. PICK c : c = calls[s.turns + 1]
  OBVIOUS
<1>2. CallsOfTurn(calls, s.turns) = <<c>>
  BY <1>1 DEF CallsOfTurn
<1>3. /\ [k \in DOMAIN <<c>> |-> CallEvent("model-request", <<c>>[k])] = <<CallEvent("model-request", c)>>
      /\ [k \in DOMAIN <<c>> |-> CallEvent("model-response", <<c>>[k])] = <<CallEvent("model-response", c)>>
  OBVIOUS
<1>4. SynthesisStep(s, e, calls) =
        [turns |-> s.turns + 1,
         out |-> s.out \o <<CallEvent("model-request", c)>> \o <<CallEvent("model-response", c)>> \o <<e>>]
  BY <1>2, <1>3 DEF SynthesisStep
<1>5. PICK a, b : a = CallEvent("model-request", c) /\ b = CallEvent("model-response", c)
  OBVIOUS
<1>6. s.out \o <<a>> = Append(s.out, a) /\ IsSeq(Append(s.out, a))
  BY ConcatOne, AppendFacts
<1>7. Append(s.out, a) \o <<b>> = Append(Append(s.out, a), b) /\ IsSeq(Append(Append(s.out, a), b))
  BY <1>6, ConcatOne, AppendFacts
<1>8. Append(Append(s.out, a), b) \o <<e>> = Append(Append(Append(s.out, a), b), e)
  BY <1>7, ConcatOne
<1> QED
  BY <1>1, <1>4, <1>5, <1>6, <1>7, <1>8

\* The events of a call and of its turn at the end of a log.
LEMMA TurnAppended ==
  ASSUME NEW log, IsSeq(log), IsSeq(Stripped(log)), NEW a, NEW b, NEW e,
         a.type = "model-request", b.type = "model-response", e.type = "agent-turn",
         a.call = b.call, a.agent = e.agent, b.agent = e.agent,
         AllFramed(log)
  PROVE  LET longer == Append(Append(Append(log, a), b), e)
         IN  /\ IsSeq(longer)
             /\ Stripped(longer) = Append(Stripped(log), e)
             /\ CallsIn(longer) = CallsIn(log) \cup {<<"model-request", e.agent, a.call>>,
                                                      <<"model-response", e.agent, a.call>>}
             /\ AllFramed(longer)
<1>1. PICK one : one = Append(log, a)
  OBVIOUS
<1>2. PICK two : two = Append(one, b)
  OBVIOUS
<1>3. PICK longer : longer = Append(two, e)
  OBVIOUS
<1>4. /\ IsSeq(one) /\ Len(one) = Len(log) + 1 /\ one[Len(log) + 1] = a /\ Len(log) \in Nat
      /\ \A k \in 1..Len(log) : one[k] = log[k]
  BY <1>1, AppendFacts, SeqFacts
<1>5. /\ IsSeq(two) /\ Len(two) = Len(log) + 2 /\ two[Len(log) + 2] = b /\ two[Len(log) + 1] = a
      /\ \A k \in 1..Len(log) : two[k] = log[k]
  <2>1. /\ IsSeq(two) /\ Len(two) = Len(one) + 1 /\ two[Len(one) + 1] = b
        /\ \A k \in 1..Len(one) : two[k] = one[k]
    BY <1>2, <1>4, AppendFacts
  <2> QED
    BY <1>4, <2>1
<1>6. /\ IsSeq(longer) /\ Len(longer) = Len(log) + 3 /\ longer[Len(log) + 3] = e
      /\ longer[Len(log) + 2] = b /\ longer[Len(log) + 1] = a
      /\ \A k \in 1..Len(log) : longer[k] = log[k]
  <2>1. /\ IsSeq(longer) /\ Len(longer) = Len(two) + 1 /\ longer[Len(two) + 1] = e
        /\ \A k \in 1..Len(two) : longer[k] = two[k]
    BY <1>3, <1>5, AppendFacts
  <2> QED
    BY <1>4, <1>5, <2>1
<1>7. a.type \in Provenance /\ b.type \in Provenance /\ e.type \notin Provenance
  BY DEF Provenance
<1>8. Stripped(longer) = Append(Stripped(log), e)
  <2>1. Stripped(one) = Stripped(log)
    BY <1>1, <1>7, StrippedAppend DEF Keep
  <2>2. Stripped(two) = Stripped(one)
    BY <1>2, <1>4, <1>7, StrippedAppend DEF Keep
  <2>3. Stripped(longer) = Append(Stripped(two), e)
    BY <1>3, <1>5, <1>7, StrippedAppend DEF Keep
  <2> QED
    BY <2>1, <2>2, <2>3
<1>9. CallsIn(longer) = CallsIn(log) \cup {<<"model-request", e.agent, a.call>>,
                                            <<"model-response", e.agent, a.call>>}
  <2>1. CallsIn(one) = CallsIn(log) \cup {<<"model-request", e.agent, a.call>>}
    BY <1>1, <1>7, CallsAppend
  <2>2. CallsIn(two) = CallsIn(one) \cup {<<"model-response", e.agent, a.call>>}
    BY <1>2, <1>4, <1>7, CallsAppend
  <2>3. CallsIn(longer) = CallsIn(two) \cup {}
    BY <1>3, <1>5, <1>7, CallsAppend
  <2> QED
    BY <2>1, <2>2, <2>3
<1>10. ASSUME NEW i \in 1..Len(longer)
       PROVE  (longer[i].type = "agent-turn" => i > 2) /\ Framed(longer, i)
  <2>1. i \in 1..Len(log) \/ i = Len(log) + 1 \/ i = Len(log) + 2 \/ i = Len(log) + 3
    BY <1>4, <1>6
  <2>2. CASE i \in 1..Len(log)
    <3> SUFFICES ASSUME longer[i].type = "agent-turn"
                 PROVE  i > 2 /\ Framed(longer, i)
      BY DEF Framed
    <3>1. i > 2 /\ Framed(log, i) /\ longer[i] = log[i]
      BY <1>6, <2>2 DEF AllFramed
    <3>2. i - 1 \in 1..Len(log) /\ i - 2 \in 1..Len(log)
      BY <1>4, <2>2, <3>1
    <3>3. longer[i - 1] = log[i - 1] /\ longer[i - 2] = log[i - 2]
      BY <1>6, <3>2
    <3> QED
      BY <3>1, <3>3 DEF Framed
  <2>3. CASE i = Len(log) + 1 \/ i = Len(log) + 2
    <3>1. longer[i] = a \/ longer[i] = b
      BY <1>6, <2>3
    <3> QED
      BY <3>1 DEF Framed
  <2>4. CASE i = Len(log) + 3
    <3>1. i > 2 /\ i - 1 = Len(log) + 2 /\ i - 2 = Len(log) + 1
      BY <1>4, <2>4
    <3>2. longer[i] = e /\ longer[i - 1] = b /\ longer[i - 2] = a
      BY <1>6, <2>4, <3>1
    <3> QED
      BY <3>1, <3>2 DEF Framed
  <2> QED
    BY <2>1, <2>2, <2>3, <2>4
<1> QED
  BY <1>1, <1>2, <1>3, <1>6, <1>8, <1>9, <1>10 DEF AllFramed

\* An event of another kind there.
LEMMA OtherAppended ==
  ASSUME NEW log, IsSeq(log), IsSeq(Stripped(log)), NEW e,
         e.type # "agent-turn", e.type \notin Provenance,
         AllFramed(log)
  PROVE  /\ IsSeq(Append(log, e))
         /\ Stripped(Append(log, e)) = Append(Stripped(log), e)
         /\ CallsIn(Append(log, e)) = CallsIn(log)
         /\ AllFramed(Append(log, e))
<1>1. PICK longer : longer = Append(log, e)
  OBVIOUS
<1>2. /\ IsSeq(longer) /\ Len(longer) = Len(log) + 1 /\ longer[Len(log) + 1] = e /\ Len(log) \in Nat
      /\ \A k \in 1..Len(log) : longer[k] = log[k]
  BY <1>1, AppendFacts, SeqFacts
<1>3. Stripped(longer) = Append(Stripped(log), e) /\ CallsIn(longer) = CallsIn(log)
  BY <1>1, StrippedAppend, CallsAppend DEF Keep
<1>4. ASSUME NEW i \in 1..Len(longer)
      PROVE  (longer[i].type = "agent-turn" => i > 2) /\ Framed(longer, i)
  <2> SUFFICES ASSUME longer[i].type = "agent-turn"
               PROVE  i > 2 /\ Framed(longer, i)
    BY DEF Framed
  <2>1. i \in 1..Len(log)
    BY <1>2
  <2>2. i > 2 /\ Framed(log, i) /\ longer[i] = log[i]
    BY <1>2, <2>1 DEF AllFramed
  <2>3. i - 1 \in 1..Len(log) /\ i - 2 \in 1..Len(log)
    BY <1>2, <2>1, <2>2
  <2>4. longer[i - 1] = log[i - 1] /\ longer[i - 2] = log[i - 2]
    BY <1>2, <2>3
  <2> QED
    BY <2>2, <2>4 DEF Framed
<1> QED
  BY <1>1, <1>2, <1>3, <1>4 DEF AllFramed

LEMMA RebuiltGrows ==
  ASSUME NEW log, NEW entries, NEW calls, NEW k \in Nat, NEW s, Rebuilt(s, log, k, entries),
         SpokenBy(log, entries), OneCallEach(calls, entries), k + 1 \in 1..Len(log),
         log[k + 1].type \notin Provenance
  PROVE  Rebuilt(SynthesisStep(s, log[k + 1], calls), log, k + 1, entries)
<1>1. PICK e : e = log[k + 1]
  OBVIOUS
<1>2. PICK t : t = SynthesisStep(s, e, calls)
  OBVIOUS
<1>3. PICK out : out = s.out
  OBVIOUS
<1>4. /\ IsSeq(out) /\ IsSeq(Stripped(out)) /\ Len(Stripped(out)) = k
      /\ s = [turns |-> s.turns, out |-> out]
      /\ s.turns = Cardinality(TurnsUpTo(log, k))
      /\ CallsIn(out) = RecordedCalls(entries, s.turns)
      /\ \A i \in 1..k : Stripped(out)[i] = log[i]
      /\ AllFramed(out)
  BY <1>3 DEF Rebuilt
<1>5. /\ s.turns \in Nat
      /\ Cardinality(TurnsUpTo(log, k + 1)) = s.turns + (IF e.type = "agent-turn" THEN 1 ELSE 0)
  BY <1>1, <1>4, TurnsGrow
<1>6. ASSUME NEW r, r = Append(Stripped(out), e)
      PROVE  IsSeq(r) /\ Len(r) = k + 1 /\ \A i \in 1..(k + 1) : r[i] = log[i]
  <2>1. /\ IsSeq(r) /\ Len(r) = Len(Stripped(out)) + 1 /\ r[Len(Stripped(out)) + 1] = e
        /\ \A i \in 1..Len(Stripped(out)) : r[i] = Stripped(out)[i]
    BY <1>4, <1>6, AppendFacts
  <2>2. \A i \in 1..(k + 1) : i = k + 1 \/ i \in 1..k
    OBVIOUS
  <2> QED
    BY <1>1, <1>4, <2>1, <2>2
<1>7. CASE e.type = "agent-turn"
  <2>1. PICK n : n = s.turns + 1
    OBVIOUS
  <2>2. n \in DOMAIN entries /\ e.agent = entries[n].agent
    BY <1>1, <1>5, <1>7, <2>1 DEF SpokenBy
  <2>3. PICK c : c = calls[n]
    OBVIOUS
  <2>4. n \in DOMAIN calls /\ c.call = n /\ c.agent = e.agent
    BY <2>2, <2>3 DEF OneCallEach
  <2>5. PICK a, b : a = CallEvent("model-request", c) /\ b = CallEvent("model-response", c)
    OBVIOUS
  <2>6. /\ a.type = "model-request" /\ b.type = "model-response" /\ a.call = n /\ b.call = n
        /\ a.agent = e.agent /\ b.agent = e.agent
    BY <2>4, <2>5 DEF CallEvent
  <2>7. t = [turns |-> n, out |-> Append(Append(Append(out, a), b), e)]
    BY <1>2, <1>3, <1>4, <1>7, <2>1, <2>3, <2>4, <2>5, SynthesisOfTurn
  <2>8. PICK longer : longer = Append(Append(Append(out, a), b), e)
    OBVIOUS
  <2>9. /\ IsSeq(longer)
        /\ Stripped(longer) = Append(Stripped(out), e)
        /\ CallsIn(longer) = CallsIn(out) \cup {<<"model-request", e.agent, n>>,
                                                <<"model-response", e.agent, n>>}
        /\ AllFramed(longer)
    BY <1>4, <1>7, <2>6, <2>8, TurnAppended
  <2>10. RecordedCalls(entries, n) =
           RecordedCalls(entries, s.turns) \cup {<<"model-request", e.agent, n>>,
                                                 <<"model-response", e.agent, n>>}
    <3>1. 1..n = (1..s.turns) \cup {n} /\ e.agent = entries[n].agent
      BY <1>5, <2>1, <2>2
    <3> QED
      BY <3>1 DEF RecordedCalls, Provenance
  <2>11. n = Cardinality(TurnsUpTo(log, k + 1))
    BY <1>5, <1>7, <2>1
  <2>12. t = [turns |-> t.turns, out |-> t.out] /\ t.turns = n /\ t.out = longer
    BY <2>7, <2>8
  <2>13. PICK r : r = Stripped(longer)
    OBVIOUS
  <2>14. IsSeq(r) /\ Len(r) = k + 1 /\ \A i \in 1..(k + 1) : r[i] = log[i]
    BY <1>6, <2>9, <2>13
  <2>15. CallsIn(longer) = RecordedCalls(entries, n)
    BY <1>4, <2>9, <2>10
  <2>16. Rebuilt(t, log, k + 1, entries)
    BY <2>9, <2>11, <2>12, <2>13, <2>14, <2>15 DEF Rebuilt
  <2> QED
    BY <1>1, <1>2, <2>16
<1>8. CASE e.type # "agent-turn"
  <2>1. t = [turns |-> s.turns, out |-> Append(out, e)]
    <3>1. t = [s EXCEPT !.out = Append(@, e)]
      BY <1>2, <1>8 DEF SynthesisStep
    <3> QED
      BY <1>3, <1>4, <3>1
  <2>2. PICK longer : longer = Append(out, e)
    OBVIOUS
  <2>3. /\ IsSeq(longer) /\ Stripped(longer) = Append(Stripped(out), e)
        /\ CallsIn(longer) = CallsIn(out)
        /\ AllFramed(longer)
    BY <1>1, <1>4, <1>8, <2>2, OtherAppended
  <2>4. s.turns = Cardinality(TurnsUpTo(log, k + 1))
    BY <1>5, <1>8
  <2>5. t = [turns |-> t.turns, out |-> t.out] /\ t.turns = s.turns /\ t.out = longer
    BY <2>1, <2>2
  <2>6. PICK r : r = Stripped(longer)
    OBVIOUS
  <2>7. IsSeq(r) /\ Len(r) = k + 1 /\ \A i \in 1..(k + 1) : r[i] = log[i]
    BY <1>6, <2>3, <2>6
  <2>8. CallsIn(longer) = RecordedCalls(entries, s.turns)
    BY <1>4, <2>3
  <2>9. Rebuilt(t, log, k + 1, entries)
    BY <2>3, <2>4, <2>5, <2>6, <2>7, <2>8 DEF Rebuilt
  <2> QED
    BY <1>1, <1>2, <2>9
<1> QED
  BY <1>7, <1>8

\* Nothing has been put together of nothing.
LEMMA RebuiltNothing ==
  ASSUME NEW log, NEW entries
  PROVE  Rebuilt(NoSynthesis, log, 0, entries)
<1>1. PICK none : none = <<>>
  OBVIOUS
<1>2. IsSeq(none) /\ Len(none) = 0 /\ DOMAIN none = 1..Len(none)
  BY <1>1, EmptyIsSeq, SeqFacts
<1>3. Stripped(none) = none
  BY <1>1, <1>2, StrippedSteps DEF Stripped
<1>4. 1..0 = {}
  OBVIOUS
<1>5. CallsIn(none) = {}
  BY <1>2, <1>4 DEF CallsIn
<1>6. RecordedCalls(entries, 0) = {}
  BY <1>4 DEF RecordedCalls
<1>7. Cardinality(TurnsUpTo(log, 0)) = 0
  BY TurnsGrow
<1>8. PICK s : s = NoSynthesis
  OBVIOUS
<1>9. s = [turns |-> 0, out |-> none]
  BY <1>1, <1>8 DEF NoSynthesis
<1>10. s = [turns |-> s.turns, out |-> s.out] /\ s.turns = 0 /\ s.out = none
  BY <1>9
<1>11. Rebuilt(s, log, 0, entries)
  BY <1>2, <1>3, <1>4, <1>5, <1>6, <1>7, <1>10 DEF Rebuilt, AllFramed
<1> QED
  BY <1>8, <1>11

LEMMA SynthesisRebuilds ==
  ASSUME NEW log, IsSeq(log), NEW entries, NEW calls,
         SpokenBy(log, entries), OneCallEach(calls, entries),
         \A i \in 1..Len(log) : log[i].type \notin Provenance
  PROVE  Rebuilt(SynthesisUpTo(log, calls)[Len(log)], log, Len(log), entries)
<1> DEFINE Good == {k \in Nat : k <= Len(log) => Rebuilt(SynthesisUpTo(log, calls)[k], log, k, entries)}
<1>1. Len(log) \in Nat
  BY SeqFacts
<1>2. 0 \in Good
  <2>1. SynthesisUpTo(log, calls)[0] = NoSynthesis
    BY SynthesisSteps
  <2> QED
    BY <2>1, RebuiltNothing
<1>3. ASSUME NEW k \in Good
      PROVE  k + 1 \in Good
  <2> SUFFICES ASSUME k + 1 <= Len(log)
               PROVE  Rebuilt(SynthesisUpTo(log, calls)[k + 1], log, k + 1, entries)
    OBVIOUS
  <2>1. PICK s : s = SynthesisUpTo(log, calls)[k]
    OBVIOUS
  <2>2. k \in Nat /\ k + 1 \in 1..Len(log) /\ (k + 1) - 1 = k /\ Rebuilt(s, log, k, entries)
    BY <1>1, <2>1
  <2>3. SynthesisUpTo(log, calls)[k + 1] = SynthesisStep(s, log[k + 1], calls)
    BY <2>1, <2>2, SynthesisSteps
  <2> QED
    BY <2>2, <2>3, RebuiltGrows
<1>4. Good = Nat
  <2> HIDE DEF Good
  <2>1. Good \in SUBSET Nat
    BY DEF Good
  <2> QED
    BY <1>2, <1>3, <2>1, NaturalInduction
<1> QED
  BY <1>1, <1>4

\* A log without turns is put together as it is.
LEMMA SynthesisPlain ==
  ASSUME NEW log, IsSeq(log), NEW calls, \A i \in 1..Len(log) : log[i].type # "agent-turn"
  PROVE  SynthesisUpTo(log, calls)[Len(log)].out = log
<1> DEFINE Same(s, k) == /\ s = [turns |-> s.turns, out |-> s.out]
                         /\ IsSeq(s.out) /\ Len(s.out) = k /\ \A i \in 1..k : s.out[i] = log[i]
           Good == {k \in Nat : k <= Len(log) => Same(SynthesisUpTo(log, calls)[k], k)}
<1>1. Len(log) \in Nat
  BY SeqFacts
<1>2. 0 \in Good
  <2>1. PICK s : s = SynthesisUpTo(log, calls)[0]
    OBVIOUS
  <2>2. s = [turns |-> 0, out |-> <<>>]
    BY <2>1, SynthesisSteps DEF NoSynthesis
  <2>3. s = [turns |-> s.turns, out |-> s.out] /\ s.out = <<>>
    BY <2>2
  <2>4. Same(s, 0)
    BY <2>3, EmptyIsSeq
  <2> HIDE DEF Same
  <2> QED
    BY <2>1, <2>4
<1>3. ASSUME NEW k \in Good
      PROVE  k + 1 \in Good
  <2> SUFFICES ASSUME k + 1 <= Len(log)
               PROVE  Same(SynthesisUpTo(log, calls)[k + 1], k + 1)
    OBVIOUS
  <2>1. PICK s : s = SynthesisUpTo(log, calls)[k]
    OBVIOUS
  <2>2. k \in Nat /\ k + 1 \in 1..Len(log) /\ (k + 1) - 1 = k /\ Same(s, k)
    BY <1>1, <2>1
  <2>3. PICK t, e : t = SynthesisUpTo(log, calls)[k + 1] /\ e = log[k + 1]
    OBVIOUS
  <2>4. t = SynthesisStep(s, e, calls) /\ e.type # "agent-turn"
    BY <2>1, <2>2, <2>3, SynthesisSteps
  <2>5. t = [turns |-> s.turns, out |-> Append(s.out, e)]
    <3>1. t = [s EXCEPT !.out = Append(@, e)]
      BY <2>4 DEF SynthesisStep
    <3> QED
      BY <2>2, <3>1
  <2>6. t = [turns |-> t.turns, out |-> t.out] /\ t.out = Append(s.out, e)
    BY <2>5
  <2>7. PICK out : out = s.out
    OBVIOUS
  <2>8. /\ IsSeq(Append(out, e)) /\ Len(Append(out, e)) = k + 1 /\ Append(out, e)[k + 1] = log[k + 1]
        /\ \A i \in 1..k : Append(out, e)[i] = log[i]
    BY <2>2, <2>3, <2>7, AppendFacts
  <2>9. \A i \in 1..(k + 1) : i = k + 1 \/ i \in 1..k
    BY <2>2
  <2>10. Same(t, k + 1)
    BY <2>6, <2>7, <2>8, <2>9
  <2> HIDE DEF Same
  <2> QED
    BY <2>3, <2>10
<1>4. Good = Nat
  <2> HIDE DEF Good
  <2>1. Good \in SUBSET Nat
    BY DEF Good
  <2> QED
    BY <1>2, <1>3, <2>1, NaturalInduction
<1>5. PICK s : s = SynthesisUpTo(log, calls)[Len(log)]
  OBVIOUS
<1>6. Same(s, Len(log))
  <2> HIDE DEF Same
  <2>1. Len(log) \in Good
    BY <1>1, <1>4
  <2> QED
    BY <1>1, <1>5, <2>1
<1>7. s.out = log
  BY <1>6, SameSeq
<1> QED
  BY <1>5, <1>7

\* The calls of a resolved run are those of its turns.
LEMMA CallsOfRun ==
  ASSUME TypeInv, CountInv, LedgerInv, settled = "resolved"
  PROVE  CallsIn(events) = RecordedCalls(transcript, Len(transcript))
<1>1. PICK count : count = Len(transcript)
  OBVIOUS
<1>2. /\ LogOK /\ Cardinality(Of("model-request")) = count /\ Cardinality(Of("agent-turn")) = count
      /\ \A q \in Of("model-request") : events[q].call = Nth(q)
      /\ \A r \in Of("model-response") : events[r].call \in 1..count
      /\ \A r, s \in Of("model-response") : events[r].call = events[s].call => r = s
  BY <1>1 DEF TypeInv, CountInv, LedgerInv, WaveInv, RequestInv, ResponseInv, Healthy, InWave
<1>3. ASSUME NEW n \in 1..count
      PROVE  \E q \in Of("model-request"), r \in Of("model-response") :
               /\ events[q].call = n /\ events[q].agent = transcript[n].agent
               /\ events[r].call = n /\ events[r].agent = transcript[n].agent
  <2>1. PICK k \in Of("agent-turn") : Nth(k) = n
    BY <1>2, NthFacts
  <2>2. /\ events[k].agent = transcript[Nth(k)].agent
        /\ \E q, r \in DOMAIN events : Told(q, r, Nth(k), events[k].agent, k)
    BY DEF LedgerInv, TurnInv, Healthy
  <2>3. PICK q, r : Told(q, r, n, transcript[n].agent, k)
    BY <2>1, <2>2
  <2> QED
    BY <2>3 DEF Told
<1>4. ASSUME NEW k \in Of("model-request") \cup Of("model-response")
      PROVE  events[k].call \in 1..count /\ events[k].agent = transcript[events[k].call].agent
  <2>1. CASE k \in Of("model-request")
    <3>1. Nth(k) \in 1..count /\ events[k].call = Nth(k)
      BY <1>2, <2>1, NthFacts
    <3>2. PICK q \in Of("model-request") :
            events[q].call = Nth(k) /\ events[q].agent = transcript[Nth(k)].agent
      BY <1>3, <3>1
    <3>3. Nth(q) = Nth(k)
      BY <1>2, <3>2
    <3>4. q = k
      BY <1>2, <2>1, <3>3, NthFacts
    <3> QED
      BY <3>1, <3>2, <3>4
  <2>2. CASE k \in Of("model-response")
    <3>1. PICK n \in 1..count : n = events[k].call
      BY <1>2, <2>2
    <3>2. PICK r \in Of("model-response") : events[r].call = n /\ events[r].agent = transcript[n].agent
      BY <1>3
    <3>3. r = k
      BY <1>2, <2>2, <3>1, <3>2
    <3> QED
      BY <3>1, <3>2, <3>3
  <2> QED
    BY <2>1, <2>2
<1>5. {j \in DOMAIN events : events[j].type \in Provenance} = Of("model-request") \cup Of("model-response")
  BY DEF Of, Provenance
<1>6. CallsIn(events) = {<<events[k].type, events[k].agent, events[k].call>> :
                           k \in Of("model-request") \cup Of("model-response")}
  BY <1>5 DEF CallsIn
<1>7. CallsIn(events) \subseteq RecordedCalls(transcript, count)
  <2> SUFFICES ASSUME NEW k \in Of("model-request") \cup Of("model-response")
               PROVE  <<events[k].type, events[k].agent, events[k].call>>
                        \in RecordedCalls(transcript, count)
    BY <1>6
  <2>1. events[k].type \in Provenance
    BY DEF Of, Provenance
  <2> QED
    BY <1>4, <2>1 DEF RecordedCalls
<1>8. RecordedCalls(transcript, count) \subseteq CallsIn(events)
  <2> SUFFICES ASSUME NEW type \in Provenance, NEW n \in 1..count
               PROVE  <<type, transcript[n].agent, n>> \in CallsIn(events)
    BY DEF RecordedCalls
  <2>1. PICK q \in Of("model-request"), r \in Of("model-response") :
               /\ events[q].call = n /\ events[q].agent = transcript[n].agent
               /\ events[r].call = n /\ events[r].agent = transcript[n].agent
    BY <1>3
  <2>2. events[q].type = "model-request" /\ events[r].type = "model-response"
    BY <2>1 DEF Of
  <2>3. CASE type = "model-request"
    BY <1>6, <2>1, <2>2, <2>3
  <2>4. CASE type = "model-response"
    BY <1>6, <2>1, <2>2, <2>4
  <2> QED
    BY <2>3, <2>4 DEF Provenance
<1> QED
  BY <1>1, <1>7, <1>8

\* The turns of the log are those of the transcript, and each has its call on record.
LEMMA RunSpoken ==
  ASSUME TypeInv, CountInv, LedgerInv
  PROVE  SpokenBy(events, transcript)
<1>1. LogOK /\ Len(events) \in Nat /\ DOMAIN transcript = 1..Len(transcript) /\ DOMAIN events = 1..Len(events)
  BY SeqFacts DEF TypeInv, LogOK
<1> SUFFICES ASSUME NEW i \in 1..Len(events), events[i].type = "agent-turn"
             PROVE  /\ Cardinality(TurnsUpTo(events, i)) \in DOMAIN transcript
                    /\ events[i].agent = transcript[Cardinality(TurnsUpTo(events, i))].agent
  BY DEF SpokenBy
<1>2. i \in Of("agent-turn")
  BY <1>1 DEF Of
<1>3. TurnsUpTo(events, i) = {j \in At(events, "agent-turn") : j <= i}
  BY <1>1 DEF TurnsUpTo, At
<1>4. Cardinality(TurnsUpTo(events, i)) = Nth(i)
  BY <1>2, <1>3, PositionIsRank DEF TurnPosition
<1> QED
  BY <1>1, <1>2, <1>4 DEF LedgerInv, TurnInv

LEMMA RunRecorded ==
  ASSUME TypeInv, LedgerInv, settled = "resolved"
  PROVE  OneCallEach(providerCalls, transcript)
<1>1. /\ DOMAIN transcript = 1..Len(transcript) /\ Len(transcript) \in Nat
      /\ DOMAIN providerCalls = 1..Len(providerCalls) /\ Len(providerCalls) \in Nat
      /\ Len(transcript) <= Len(providerCalls)
      /\ \A k \in 1..Len(transcript) :
           providerCalls[k] = [call |-> k, agent |-> transcript[k].agent]
  BY SeqFacts DEF TypeInv, LogOK, LedgerInv, ProviderInv, Healthy
<1>2. ASSUME NEW n \in 1..Len(transcript)
      PROVE  /\ n \in DOMAIN providerCalls
             /\ providerCalls[n].call = n /\ providerCalls[n].agent = transcript[n].agent
  <2>1. providerCalls[n] = [call |-> n, agent |-> transcript[n].agent]
    BY <1>1
  <2>2. n \in 1..Len(providerCalls)
    BY <1>1
  <2> QED
    BY <1>1, <2>1, <2>2
<1> QED
  BY <1>1, <1>2 DEF OneCallEach

\* A trace that has its calls, or no turn, is replayed as it is.
LEMMA LiveTraceKept ==
  ASSUME TypeInv, CountInv, LedgerInv, settled = "resolved"
  PROVE  Synthesize(events, providerCalls) = events
<1>1. CASE \E k \in DOMAIN events : events[k].type \in Provenance
  BY <1>1 DEF Synthesize
<1>2. CASE ~\E k \in DOMAIN events : events[k].type \in Provenance
  <2>1. IsSeq(events) /\ IsSeq(transcript) /\ DOMAIN events = 1..Len(events)
    BY SeqFacts DEF TypeInv, LogOK
  <2>2. Of("model-request") = {}
    BY <1>2 DEF Of, Provenance
  <2>3. Len(transcript) = 0
    <3>1. Cardinality(Of("model-request")) = Len(transcript)
      BY DEF LedgerInv, WaveInv, RequestInv, Healthy, InWave
    <3> QED
      BY <2>2, <3>1, FS_EmptySet
  <2>4. SpokenBy(events, transcript) /\ DOMAIN transcript = {}
    BY <2>1, <2>3, RunSpoken, SeqFacts
  <2>5. \A i \in 1..Len(events) : events[i].type # "agent-turn"
    BY <2>4 DEF SpokenBy
  <2>6. SynthesisUpTo(events, providerCalls)[Len(events)].out = events
    BY <2>1, <2>5, SynthesisPlain
  <2> QED
    BY <1>2, <2>6 DEF Synthesize
<1> QED
  BY <1>1, <1>2

LEMMA ReplayAgrees ==
  ASSUME TypeInv, CountInv, LedgerInv
  PROVE  LegacyReplayAgrees
<1> SUFFICES ASSUME settled = "resolved"
             PROVE  LegacyReplayAgrees
  BY DEF LegacyReplayAgrees
<1>1. /\ IsSeq(events) /\ Len(events) \in Nat /\ SpokenBy(events, transcript)
      /\ OneCallEach(providerCalls, transcript)
  BY RunSpoken, RunRecorded, SeqFacts DEF TypeInv, LogOK
<1>2. PICK log : log = Stripped(events)
  OBVIOUS
<1>3. /\ IsSeq(log) /\ SpokenBy(log, transcript) /\ DOMAIN log = 1..Len(log)
      /\ \A i \in 1..Len(log) : log[i].type \notin Provenance
      /\ Cardinality(TurnsUpTo(log, Len(log))) = Cardinality(TurnsUpTo(events, Len(events)))
  <2>1. Remains(log, events, Len(events), transcript)
    BY <1>1, <1>2, StrippedLeft
  <2> QED
    BY <2>1, SeqFacts DEF Remains
<1>4. PICK s : s = SynthesisUpTo(log, providerCalls)[Len(log)]
  OBVIOUS
<1>5. Rebuilt(s, log, Len(log), transcript)
  BY <1>1, <1>3, <1>4, SynthesisRebuilds
<1>6. PICK replayed : replayed = s.out
  OBVIOUS
<1>7. Synthesize(log, providerCalls) = replayed
  BY <1>3, <1>4, <1>6 DEF Synthesize
<1>8. Stripped(replayed) = log
  <2>1. PICK left : left = Stripped(replayed)
    OBVIOUS
  <2>2. IsSeq(left) /\ Len(left) = Len(log) /\ \A i \in 1..Len(log) : left[i] = log[i]
    BY <1>5, <1>6, <2>1 DEF Rebuilt
  <2>3. left = log
    BY <1>3, <2>2, SameSeq
  <2> QED
    BY <2>1, <2>3
<1>9. CallsIn(replayed) = CallsIn(events)
  <2>1. TurnsUpTo(events, Len(events)) = Of("agent-turn")
    <3>1. DOMAIN events = 1..Len(events)
      BY <1>1, SeqFacts
    <3> QED
      BY <3>1 DEF TurnsUpTo, Of
  <2>2. s.turns = Len(transcript)
    BY <1>3, <1>5, <2>1 DEF Rebuilt, CountInv
  <2> QED
    BY <1>5, <1>6, <2>2, CallsOfRun DEF Rebuilt
<1>10. ASSUME NEW k \in DOMAIN replayed, replayed[k].type = "agent-turn"
       PROVE  /\ replayed[k - 2].type = "model-request"
              /\ replayed[k - 1].type = "model-response"
              /\ replayed[k - 1].call = replayed[k - 2].call
              /\ replayed[k - 1].agent = replayed[k].agent
  <2>1. DOMAIN replayed = 1..Len(replayed)
    BY <1>5, <1>6, SeqFacts DEF Rebuilt
  <2>2. Framed(replayed, k)
    BY <1>5, <1>6, <2>1 DEF Rebuilt, AllFramed
  <2> QED
    BY <1>10, <2>2 DEF Framed
<1>11. Synthesize(events, providerCalls) = events
  BY LiveTraceKept
<1> QED
  BY <1>2, <1>7, <1>8, <1>9, <1>10, <1>11 DEF LegacyReplayAgrees

\* A trace that has lost the events of its provider calls gets back on replay exactly the
\* calls it had, each pair right before the turn that came from it, and nothing else of it
\* changes; a trace that still has them is replayed as it is: synthesizeProviderEvents.
THEOREM LegacyReplayTrue == Spec => []LegacyReplayAgrees
<1>1. TypeInv /\ CountInv /\ LedgerInv => LegacyReplayAgrees
  BY ReplayAgrees
<1> QED
  BY LedgerInvariant, <1>1, PTL
=============================================================================
