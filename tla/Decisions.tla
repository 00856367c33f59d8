-------------------------------- MODULE Decisions --------------------------------
(***************************************************************************)
(* What an answer of an agent decides: nothing, to take part, to delegate, *)
(* or something that is not valid, for which the parser throws.            *)
(*                                                                         *)
(* An answer is what the parser tells apart: the JSON of its delegate      *)
(* block, if it has one, the participation fields that it fills in, and    *)
(* the word in its participation line.  A field that is there or not is a  *)
(* set of at most one value.  Everything that is no integer is -1.         *)
(***************************************************************************)
EXTENDS Integers, Sequences

ProtocolNames == {"coordinator", "sequential", "broadcast", "shared"}
Fields        == {"role_selected", "rationale", "contribution"}

NoDecision        == [kind |-> "none"]
Invalid(path)     == [kind |-> "invalid", path |-> path]
Delegates(items)  == [kind |-> "delegate", items |-> items]
Participates(how) == [kind |-> "participate", participation |-> how]

\* The context of the coordinator; the other protocols parse without one.
NoContext              == [provider |-> {}, depth |-> {}]
ParseContext(provider, now, max) == [provider |-> {provider}, depth |-> {[now |-> now, max |-> max]}]

DepthOverflow(now, max) == now + 1 > max

\* parseDelegateBudget: an object whose caps are natural numbers.
BudgetIsValid(budget) ==
  budget.object /\ \A axis \in DOMAIN budget.caps : budget.caps[axis] >= 0

\* parseSingleDelegateObject: what it looks at, in this order.
ItemChecks(item, context) ==
  << [path |-> "decision",          ok |-> item.object],
     [path |-> "decision.protocol", ok |-> item.protocol \in ProtocolNames],
     [path |-> "decision.intent",   ok |-> item.intent # ""],
     [path |-> "decision.model",
      ok |-> \A id \in item.model : id # "" /\ \A p \in context.provider : id = p],
     [path |-> "decision.budget",   ok |-> BudgetIsValid(item.budget)],
     [path |-> "decision.maxConcurrentChildren", ok |-> \A n \in item.width : n >= 1],
     [path |-> "depth-overflow",
      ok |-> \A d \in context.depth : ~DepthOverflow(d.now, d.max)] >>

\* The first check that fails, if one does.
ParseItem(item, context) ==
  LET checks == ItemChecks(item, context)
      failed == {k \in DOMAIN checks : ~checks[k].ok}
  IN  IF failed = {} THEN Delegates(<<item>>)
      ELSE Invalid(checks[CHOOSE k \in failed : \A l \in failed : k <= l].path)

\* parseDelegateDecision: an array holds at least one delegate, and the first that is
\* not valid spoils it.
ParseDelegate(json, context) ==
  LET bad == {k \in DOMAIN json.items : ParseItem(json.items[k], context).kind = "invalid"}
  IN  CASE ~json.parses      -> Invalid("decision")
        [] json.items = <<>> -> Invalid("decision")
        [] OTHER -> IF bad = {} THEN Delegates(json.items)
                    ELSE ParseItem(json.items[CHOOSE k \in bad : \A l \in bad : k <= l],
                                   context)

\* Mutant: a block of participation that is not complete counts.
ParseParticipation_Partial(output) ==
  IF output.participation \in {"contribute", "abstain"}
  THEN Participates(output.participation) ELSE NoDecision

\* parseParticipateDecision: all or nothing.
ParseParticipation(output) ==
  IF output.fields = Fields /\ output.participation \in {"contribute", "abstain"}
  THEN Participates(output.participation) ELSE NoDecision

\* parseAgentDecision: a delegate block comes first.
ParseDecision(output, context) ==
  IF output.delegate # {} THEN ParseDelegate(CHOOSE json \in output.delegate : TRUE, context)
  ELSE ParseParticipation(output)

IsParticipating(decision) ==
  decision.kind = "participate" /\ decision.participation # "abstain"
=============================================================================
