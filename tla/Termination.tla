------------------------------ MODULE Termination ------------------------------
(***************************************************************************)
(* When a run stops by itself: budget caps, convergence of outputs, the    *)
(* verdict of a judge, the protocol floor that holds the last two back,    *)
(* and firstOf, which takes the first condition that stops.  Also the      *)
(* wrap-up hint, which looks at the same caps before they are reached.     *)
(*                                                                         *)
(* A condition is a sequence of leaves in the order in which firstOf tries *)
(* them: a nested firstOf stops exactly when one of its leaves stops, with *)
(* the decision of that leaf, and a condition that is no firstOf is a      *)
(* sequence of one.  No condition at all is the empty sequence.            *)
(*                                                                         *)
(* The outputs of agents are sets of tokens, which is all the similarity   *)
(* of two outputs looks at; rates and fractions are percentages.           *)
(***************************************************************************)
EXTENDS Naturals, Sequences, FiniteSets

\* The caps of a budget in the order in which they are tried.
BudgetAxes == <<"cost", "tokens", "iterations", "timeout">>
Axis       == {BudgetAxes[k] : k \in DOMAIN BudgetAxes}

\* The conditions.  The caps of a budget are a function on the axes it limits.
Budget(caps)                    == [kind |-> "budget", caps |-> caps]
Convergence(turns, similarity)  == [kind |-> "convergence", stableTurns |-> turns,
                                    minSimilarity |-> similarity]
Judge(score)                    == [kind |-> "judge", minScore |-> score]

NoCaps == [a \in {} |-> 0]

\* What a condition that does not stop answers, and one that does.
Continue           == [stop |-> FALSE]
Stop(reason, axis) == [stop |-> TRUE, reason |-> reason, axis |-> axis]

LeastOf(S) == CHOOSE n \in S : \A m \in S : n <= m

-----------------------------------------------------------------------------
(* Evaluation.  A context holds what has been observed of each axis, how   *)
(* far the protocol is, its floor (0: none), the outputs so far, and the   *)
(* verdicts of a judge (at most one).                                      *)

\* Mutant: a cap must be exceeded.
CapReached_Exceeded(caps, a, context) == a \in DOMAIN caps /\ context.observed[a] > caps[a]

\* A cap is reached with equality.
CapReached(caps, a, context) == a \in DOMAIN caps /\ context.observed[a] >= caps[a]

EvaluateBudget(condition, context) ==
  LET reached == {k \in DOMAIN BudgetAxes :
                    CapReached(condition.caps, BudgetAxes[k], context)}
  IN  IF reached = {} THEN Continue ELSE Stop("budget", BudgetAxes[LeastOf(reached)])

\* Equal outputs are similar, others as far as they share their tokens.
SimilarEnough(left, right, percent) ==
  \/ left = right
  \/ percent = 0
  \/ /\ left # {} /\ right # {}
     /\ 100 * Cardinality(left \cap right) >= percent * Cardinality(left \cup right)

\* Each of the last stableTurns outputs resembles the one before it.
EvaluateConvergence(condition, context) ==
  LET stable == IF condition.stableTurns < 1 THEN 1 ELSE condition.stableTurns
      count  == Len(context.outputs)
  IN  IF /\ count >= stable
         /\ \A k \in (count - stable + 2)..count :
              SimilarEnough(context.outputs[k - 1], context.outputs[k],
                            condition.minSimilarity)
      THEN Stop("convergence", "none")
      ELSE Continue

\* A judge that accepts or rejects stops, a score only if it is high enough.
EvaluateJudge(condition, context) ==
  IF \E verdict \in context.verdicts :
       verdict.type = "score" => verdict.score >= condition.minScore
  THEN Stop("judge", "none")
  ELSE Continue

\* Convergence and judge wait until the protocol has reached its floor.
FloorBlocks(condition, context) ==
  condition.kind \in {"convergence", "judge"} /\ context.progress < context.floor

EvaluateTermination(condition, context) ==
  IF FloorBlocks(condition, context) THEN Continue
  ELSE CASE condition.kind = "budget"      -> EvaluateBudget(condition, context)
         [] condition.kind = "convergence" -> EvaluateConvergence(condition, context)
         [] condition.kind = "judge"       -> EvaluateJudge(condition, context)

EvaluateTerminationStop(conditions, context) ==
  LET stopping == {k \in DOMAIN conditions :
                     EvaluateTermination(conditions[k], context).stop}
  IN  IF stopping = {} THEN Continue
      ELSE EvaluateTermination(conditions[LeastOf(stopping)], context)

-----------------------------------------------------------------------------
(* Caps of the whole run                                                   *)

\* options.terminate, or the condition made of options.budget if it is missing.
EffectiveConditions(terminate, budget) ==
  IF terminate # <<>> THEN terminate
  ELSE IF DOMAIN budget # {} THEN <<Budget(budget)>> ELSE <<>>

\* The tightest cap on each axis, of options.budget and of every budget in the
\* condition.
EffectiveBudget(budget, conditions) ==
  LET all == {budget} \cup {conditions[k].caps :
                k \in {j \in DOMAIN conditions : conditions[j].kind = "budget"}}
  IN  [a \in UNION {DOMAIN caps : caps \in all} |->
         LeastOf({caps[a] : caps \in {c \in all : a \in DOMAIN c}})]

-----------------------------------------------------------------------------
(* The wrap-up hint.  A hint holds at most one atIteration and at most one *)
(* atFraction.                                                             *)

NoHint == [atIteration |-> {}, atFraction |-> {}]

FractionReached(current, limit, percent) == limit > 0 /\ 100 * current >= percent * limit

ShouldInject(hint, caps, observed) ==
  \/ \E n \in hint.atIteration : observed["iterations"] >= n
  \/ \E percent \in hint.atFraction, a \in {"iterations", "timeout"} \cap DOMAIN caps :
       FractionReached(observed[a], caps[a], percent)

\* What is left of each cap, as the hint tells the model.
RemainingBudget(caps, observed) ==
  [a \in DOMAIN caps |-> IF observed[a] >= caps[a] THEN 0 ELSE caps[a] - observed[a]]
=============================================================================
