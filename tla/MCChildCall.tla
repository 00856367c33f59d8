------------------------------ MODULE MCChildCall ------------------------------
(* Every combination of limits with a few plans, retry policies and providers. *)
EXTENDS ChildCall

Item(protocol, model, object, caps, width) ==
  [object |-> TRUE, protocol |-> protocol, intent |-> "look", model |-> model,
   budget |-> [object |-> object, caps |-> caps], width |-> width]

NoCaps        == [a \in {} |-> 0]
TimeoutCap(n) == [a \in {"timeout"} |-> n]

Block(parses, items) == [parses |-> parses, items |-> items]

Answers(delegate, fields, participation) ==
  [delegate |-> delegate, fields |-> fields, participation |-> participation]

Delegation(items) == Answers({Block(TRUE, items)}, Fields, "abstain")

\* A child as asked for, with a timeout of n, if that is not Never.
Child(n) == Item("sequential", {"parent"}, TRUE, IF n = Never THEN NoCaps ELSE TimeoutCap(n), {1})

\* Three delegations, and what starts no child.
MCPlans ==
  {Delegation(<<Child(n)>>) : n \in {0, 2, Never}}
  \cup {Answers({}, Fields, "contribute"), Answers({}, {"rationale"}, "abstain"),
        Answers({Block(FALSE, <<>>)}, {}, "none"), Delegation(<<>>),
        Delegation(<<Child(Never), Item("ring", {}, TRUE, NoCaps, {})>>),
        Delegation(<<Item("shared", {"other"}, TRUE, NoCaps, {})>>),
        Delegation(<<Item("shared", {}, FALSE, NoCaps, {})>>),
        Delegation(<<Item("shared", {}, TRUE, TimeoutCap(-1), {})>>),
        Delegation(<<Item("shared", {}, TRUE, NoCaps, {0})>>)}

Status(n, retryAfter) == [kind |-> "status", status |-> n, retryAfter |-> retryAfter]
Thrown(name)          == [kind |-> "thrown", name |-> name, retryAfter |-> Never]
Reply                 == [kind |-> "reply", retryAfter |-> Never]
Own(code, retryAfter) == [kind |-> "own", error |-> Error(code, "none"), retryAfter |-> retryAfter]

MCFailures ==
  [adapter \in {"openai", "vercel", "own"} |->
     CASE adapter = "openai" -> {Status(503, Never), Status(504, Never), Reply,
                                 Thrown("TypeError")}
       [] adapter = "vercel" -> {Status(409, Never), Status(408, Never),
                                 Thrown("AI_JSONParseError")}
       [] adapter = "own" -> {Own("provider-rate-limited", 1), Own("network", 0),
                              Own("plain", Never)}]

\* No retry; a delay with jitter; a delay that grows up to its bound.
Policies == {<<1, 0, 0, FALSE>>, <<2, 2, 2, TRUE>>, <<3, 1, 2, FALSE>>}

Providers == {<<"openai", TRUE>>, <<"vercel", TRUE>>, <<"own", TRUE>>, <<"own", FALSE>>}

MCConfigs ==
  {c \in [budget : {1, 3, Never}, terminate : {2, Never}, default : {1, Never},
          maxDepth : {0, 1}, abortMode : BOOLEAN, attempts : 1..3, delay : 0..2,
          maxDelay : {0, 2}, jitter : BOOLEAN, adapter : {"openai", "vercel", "own"},
          obeys : BOOLEAN] :
     /\ <<c.attempts, c.delay, c.maxDelay, c.jitter>> \in Policies
     /\ <<c.adapter, c.obeys>> \in Providers}
=============================================================================
