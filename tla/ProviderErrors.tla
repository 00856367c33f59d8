----------------------------- MODULE ProviderErrors -----------------------------
(***************************************************************************)
(* How the two provider adapters name what goes wrong in a call.           *)
(*                                                                         *)
(* A failure is what the adapter sees:                                     *)
(*   status  an HTTP status that is not ok (Vercel: in the error),         *)
(*   reply   an ok reply without a JSON object or without a text,          *)
(*   thrown  an error of the transport or of the AI SDK, by its name,      *)
(*   passed  a DogpileError, which goes through as it is.                  *)
(* An error is its code and what its detail names: for a provider-timeout  *)
(* its source, for an aborted its reason; the AI SDK gives up a retry with *)
(* a reason of its own.                                                    *)
(***************************************************************************)
EXTENDS Integers

Error(code, detail) == [code |-> code, detail |-> detail]

\* codeForStatus of the OpenAI-compatible provider.
CodeForStatus(status) ==
  CASE status \in {401, 403} -> "provider-authentication"
    [] status = 404          -> "provider-not-found"
    [] status \in {408, 504} -> "provider-timeout"
    [] status = 429          -> "provider-rate-limited"
    [] status >= 500 /\ status # 504 -> "provider-unavailable"
    [] status >= 400 /\ status \notin {401, 403, 404, 408, 429} /\ status < 500 ->
         "provider-invalid-request"
    [] status < 400 -> "provider-error"

\* Its timeouts say that it is the provider who was slow.
StatusError(status) ==
  Error(CodeForStatus(status),
        IF CodeForStatus(status) = "provider-timeout" THEN "provider" ELSE "none")

FetchError(name) ==
  IF name = "AbortError" THEN Error("aborted", "none") ELSE Error("provider-error", "none")

OpenAIError(failure) ==
  CASE failure.kind = "status" -> StatusError(failure.status)
    [] failure.kind = "reply"  -> Error("provider-invalid-response", "none")
    [] failure.kind = "thrown" -> FetchError(failure.name)
    [] failure.kind = "passed" -> failure.error

\* providerErrorCode of the Vercel AI provider: by status, then by name.
CodeForSdkStatus(status) ==
  IF status = 409 THEN "provider-rate-limited"
  ELSE IF CodeForStatus(status) \in {"provider-invalid-request", "provider-error"} THEN "unknown"
  ELSE CodeForStatus(status)

CodeForName(name) ==
  CASE name = "AI_LoadAPIKeyError" -> "provider-authentication"
    [] name \in {"AI_NoSuchModelError", "AI_NoSuchProviderError"} -> "provider-not-found"
    [] name \in {"AI_InvalidArgumentError", "AI_InvalidPromptError", "AI_InvalidToolInputError",
                 "AI_NoSuchToolError", "AI_TypeValidationError"} -> "provider-invalid-request"
    [] name \in {"AI_EmptyResponseBodyError", "AI_InvalidResponseDataError", "AI_JSONParseError",
                 "AI_NoContentGeneratedError", "AI_NoOutputGeneratedError"} ->
         "provider-invalid-response"
    [] name = "AI_RetryError" -> "provider-unavailable"
    [] name \in {"AI_UnsupportedFunctionalityError", "AI_UnsupportedModelVersionError"} ->
         "provider-unsupported"
    [] name = "AI_APICallError" -> "provider-error"
    [] OTHER -> "unknown"

\* An error with a status is an AI_APICallError, whose name decides where its status
\* does not.
VercelError(failure) ==
  CASE failure.kind = "status" ->
         Error(IF CodeForSdkStatus(failure.status) = "unknown" THEN CodeForName("AI_APICallError")
               ELSE CodeForSdkStatus(failure.status), "none")
    [] failure.kind = "reply"  -> Error(CodeForName("AI_NoContentGeneratedError"), "none")
    [] failure.kind = "thrown" ->
         CASE failure.name = "AbortError"            -> Error("aborted", "none")
           [] failure.name = "AI_RetryError aborted" -> Error("aborted", "abort")
           [] OTHER                                  -> Error(CodeForName(failure.name), "none")
    [] failure.kind = "passed" -> failure.error

\* What an adapter throws once its request is aborted for a reason: fetch and the SDK
\* reject with that reason, the SDK perhaps from within its retries.
AbortedErrors(adapter, reason, plain) ==
  CASE adapter = "own"    -> {reason, plain, Error("aborted", "none")}
    [] adapter = "openai" -> {IF reason = plain THEN FetchError("AbortError") ELSE reason}
    [] adapter = "vercel" -> {IF reason = plain THEN Error("aborted", "none") ELSE reason,
                              Error("aborted", "abort")}

\* Any other provider throws what it likes.
ProviderError(adapter, failure) ==
  CASE adapter = "openai" -> OpenAIError(failure)
    [] adapter = "vercel" -> VercelError(failure)
    [] adapter = "own"    -> failure.error
=============================================================================
