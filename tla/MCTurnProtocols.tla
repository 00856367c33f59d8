---------------------------- MODULE MCTurnProtocols ----------------------------
(* Small runs of each protocol: what limits them, and what the provider says. *)
EXTENDS TurnProtocols

Cap(a, n) == [x \in {a} |-> n]

AtTurn(n)     == [atIteration |-> {n}, atFraction |-> {}]
AtFraction(p) == [atIteration |-> {}, atFraction |-> {p}]

\* Outputs: a delegation, a malformed one, participation or nothing.
Says(how) == [delegate |-> {}, fields |-> Fields, participation |-> how]

Asks(json) == [delegate |-> {json}, fields |-> {}, participation |-> "none"]

Delegation ==
  Asks([parses |-> TRUE,
        items |-> <<[object |-> TRUE, protocol |-> "shared", intent |-> "look", model |-> {},
                     budget |-> [object |-> TRUE, caps |-> NoCaps], width |-> {}]>>])

\* Tools: not registered, of the caller, of the AI SDK, a search and a sandbox.
Returns(code) == [kind |-> "returns", code |-> code]
ToolThrows(what)  == [kind |-> "throws", thrown |-> what]
Reply(status, fields) ==
  [kind |-> "returns", status |-> status, results |-> TRUE, fields |-> fields]

Missing == [tool |-> "missing"]
OwnTool(check) ==
  [tool |-> "own", check |-> check, ends |-> {Returns("success"), ToolThrows([kind |-> "value"])}]
SdkTool == [tool |-> "vercel", ends |-> {[kind |-> "returns", pieces |-> 0]}]
Search(query) ==
  [tool |-> "webSearch", input |-> [query |-> query, maxResults |-> {}],
   ends |-> {Reply(200, {{"title", "url"}}), Reply(500, {})}]
Sandbox(language, limit) ==
  [tool |-> "codeExec", input |-> [language |-> language, code |-> "given", timeoutMs |-> limit],
   policy |-> [languages |-> {"python"}, default |-> {}, max |-> {10}],
   ends |-> {[kind |-> "returns"], ToolThrows([kind |-> "Error"])}]

Response(text, output, cost, tools) ==
  [text |-> text, output |-> output, cost |-> cost, tools |-> tools]

Contributes == Response({"a"}, Says("contribute"), 1, <<>>)
Talks       == Response({"a", "b"}, Nothing, 2, <<>>)
Abstains    == Response({}, Says("abstain"), 0, <<>>)
Garbles     == Response({"d"}, Asks([parses |-> FALSE, items |-> <<>>]), 1, <<>>)
UsesTool    == Response({"a"}, Delegation, 1, <<OwnTool("none")>>)
UsesNone    == Response({"a"}, Delegation, 1, <<Missing, Search("blank")>>)
Searches    == Response({"a"}, Nothing, 1, <<Search("given")>>)
Calculates  == Response({"a"}, Says("contribute"), 1, <<Sandbox("python", {})>>)
Hurries     == Response({"a"}, Nothing, 1, <<Sandbox("python", {10})>>)
Fumbles     == Response({"a"}, Nothing, 1, <<OwnTool("throws")>>)
Falters     == Response({"a"}, Nothing, 1, <<SdkTool, Sandbox("python", {20})>>)

Options(protocol, agents, limit, floor, terminate, budget, hint, streams, answers) ==
  [protocol |-> protocol, agents |-> agents, limit |-> limit, floor |-> floor,
   terminate |-> terminate, budget |-> budget, hint |-> hint, streams |-> streams,
   answers |-> answers]

MCConfigs ==
  { Options("sequential", 2, 3, 0, <<>>, Cap("cost", 2), AtTurn(1), FALSE,
            {Contributes, Talks, UsesTool, UsesNone, Falters, Abstains, Garbles}),
    Options("sequential", 2, 2, 2, <<Convergence(1, 50), Budget(Cap("timeout", 1))>>, NoCaps,
            NoHint, TRUE, {Contributes, Talks, Abstains}),
    Options("sequential", 2, 1, 0, <<>>, NoCaps, AtTurn(0), TRUE, {Contributes, Searches, Fumbles}),
    Options("shared", 2, 2, 0, <<Budget(Cap("timeout", 1))>>, NoCaps, AtFraction(100), FALSE,
            {Talks, Calculates}),
    Options("shared", 2, 1, 0, <<>>, Cap("iterations", 0), NoHint, FALSE, {Talks}),
    Options("shared", 2, 2, 0, <<>>, NoCaps, AtTurn(0), TRUE, {Contributes, Garbles}),
    Options("shared", 3, 3, 2, <<Convergence(2, 50)>>, Cap("cost", 1), NoHint, FALSE,
            {Contributes, Talks}),
    Options("broadcast", 2, 2, 2, <<Convergence(2, 50), Budget(Cap("cost", 4))>>, NoCaps,
            AtTurn(2), FALSE, {Contributes, Talks}),
    Options("broadcast", 2, 2, 0, <<>>, Cap("iterations", 3), AtFraction(50), FALSE, {Talks}),
    Options("broadcast", 2, 1, 0, <<>>, NoCaps, NoHint, FALSE, {Hurries, Fumbles}),
    Options("broadcast", 2, 0, 0, <<>>, NoCaps, NoHint, FALSE, {Talks}) }
=============================================================================
