--------------------------------- MODULE Tools ---------------------------------
(***************************************************************************)
(* What a tool request comes to.                                           *)
(*                                                                         *)
(* A request is a record of                                                *)
(*   tool    "missing" (not registered), "own" (of the caller), "vercel"   *)
(*           (an AI SDK tool), "webSearch", "codeExec" (built in),         *)
(*   check   of an own tool: what its validateInput does,                  *)
(*   input   of a built-in tool: what the model asks for,                  *)
(*   policy  of a codeExec tool: what its adapter allows,                  *)
(*   ends    how its execution may end, unless that is cut short.          *)
(* A result is its code: "success", or that of an error.  In an input, a   *)
(* string is "absent", "mistyped", "blank" or something else, a number is  *)
(* a set of at most one value; what is no finite number is NotFinite.      *)
(***************************************************************************)
EXTENDS Integers, Sequences

NotFinite == -1

Issue(code, path) == [code |-> code, path |-> path]

StringIssues(path, value) ==
  CASE value = "absent"   -> {Issue("missing-field", path)}
    [] value = "mistyped" -> {Issue("invalid-type", path)}
    [] OTHER              -> {}

\* A number from 1 on.
NumberIssues(path, value) ==
  {Issue(IF n = NotFinite THEN "invalid-type" ELSE "out-of-range", path) :
     n \in {k \in value : k < 1}}

ValidateWebSearchInput(input) ==
  StringIssues("query", input.query)
  \cup {Issue("invalid-value", "query") : q \in {input.query} \cap {"blank"}}
  \cup NumberIssues("maxResults", input.maxResults)

CodeExecLanguages == {"javascript", "typescript", "python", "bash", "shell"}

ValidateCodeExecInput(input) ==
  StringIssues("language", input.language)
  \cup {Issue("invalid-value", "language") :
          l \in {input.language} \ (CodeExecLanguages \cup {"absent", "mistyped"})}
  \cup StringIssues("code", input.code)
  \cup NumberIssues("timeoutMs", input.timeoutMs)

\* The limit of the request, or the default of its adapter.
SandboxTimeout(request) ==
  IF request.input.timeoutMs # {} THEN request.input.timeoutMs ELSE request.policy.default

\* The adapter only allows its own languages, and limits up to its maximum.
ValidateCodeExecAdapterInput(request) ==
  ValidateCodeExecInput(request.input)
  \cup {Issue("invalid-value", "language") :
          l \in ({request.input.language} \cap CodeExecLanguages) \ request.policy.languages}
  \cup {Issue("out-of-range", "timeoutMs") :
          n \in {k \in SandboxTimeout(request) \ {NotFinite} :
                   \E max \in request.policy.max : k > max}}

\* What a tool throws becomes an error result: a tool error as it is, an AbortError,
\* any other Error, any other value.
NormalizeToolError(thrown) ==
  CASE thrown.kind = "tool-error" -> thrown.code
    [] thrown.kind = "AbortError" -> "aborted"
    [] thrown.kind = "Error"      -> "backend-error"
    [] OTHER                      -> "unknown"

\* The backend of webSearch answers with a status; an ok answer holds an array of
\* results, each an object with a title and a url.
HttpErrorCode(status) == IF status >= 500 THEN "unavailable" ELSE "backend-error"

SearchResult(reply) ==
  IF ~(reply.status \in 200..299) THEN HttpErrorCode(reply.status)
  ELSE IF reply.results /\ \A fields \in reply.fields : {"title", "url"} \subseteq fields
  THEN "success" ELSE "backend-error"

\* An AI SDK tool returns, or streams its output, the last piece of which counts.
VercelResult(output) == IF output.pieces = 0 THEN "vercel-ai-tool-error" ELSE "success"

\* The result of an execution that comes to its end.
ResultOf(request, end) ==
  CASE end.kind = "throws" ->
         IF request.tool = "vercel" THEN "vercel-ai-tool-error"
         ELSE NormalizeToolError(end.thrown)
    [] end.kind = "returns" /\ request.tool = "own"       -> end.code
    [] end.kind = "returns" /\ request.tool = "vercel"    -> VercelResult(end)
    [] end.kind = "returns" /\ request.tool = "webSearch" -> SearchResult(end)
    [] end.kind = "returns" /\ request.tool = "codeExec"  -> "success"

\* validateInput of an own tool may throw, outside of any try.
CheckThrows(request) == request.tool = "own" /\ request.check = "throws"

InputIsInvalid(request) ==
  CASE request.tool = "own"       -> request.check = "invalid"
    [] request.tool = "webSearch" -> ValidateWebSearchInput(request.input) # {}
    [] request.tool = "codeExec"  -> ValidateCodeExecAdapterInput(request) # {}
    [] OTHER                      -> FALSE

\* The results that need no execution; a sandbox does not start after an abort.
Immediate(request, aborted) ==
  CASE request.tool = "missing"                   -> {"unavailable"}
    [] InputIsInvalid(request)                    -> {"invalid-input"}
    [] request.tool = "codeExec" /\ aborted       -> {"aborted"}
    [] OTHER                                      -> {}

\* An execution of codeExec is cut short by an abort, and by its limit if it has one.
StopsOnAbort(request) == request.tool = "codeExec"
HasLimit(request)     == request.tool = "codeExec" /\ SandboxTimeout(request) # {}
=============================================================================
