----------------------------- MODULE ApiErrors ------------------------------
(***************************************************************************)
(* How the client SDK reports a REST request that failed (request() of     *)
(* rest/client.ts and apiErrorFrom of errors.ts): by the code the body     *)
(* names, or else by the status.                                           *)
(***************************************************************************)
EXTENDS Integers

STATUS_CODES ==
    [s \in {400, 401, 403, 404, 409, 413, 415, 422, 429, 502, 503} |->
        CASE s = 400 -> "bad_request"         [] s = 401 -> "unauthorized"
          [] s = 403 -> "forbidden"           [] s = 404 -> "not_found"
          [] s = 409 -> "conflict"            [] s = 413 -> "payload_too_large"
          [] s = 415 -> "unsupported_media_type"
          [] s = 422 -> "invalid_message"     [] s = 429 -> "rate_limited"
          [] s = 502 -> "bad_gateway"         [] s = 503 -> "unavailable"]

\* `named` is the code of the body's envelope, or "".
ApiErrorFrom(status, named) ==
    IF named # "" THEN named
    ELSE IF status \in DOMAIN STATUS_CODES THEN STATUS_CODES[status]
    ELSE IF status >= 500 THEN "internal" ELSE "http_error"

\* What may come of a request instead of a success; status 0: no answer.
Failures ==
    {[status |-> 0, named |-> ""]} \cup
    [status : {401, 403, 404, 418, 429, 500, 503}, named : {"", "unauthorized", "channel_inactive"}]

\* request(): the code of the error it throws.
RequestError(a) ==
    IF a.status = 0 THEN "network_error" ELSE ApiErrorFrom(a.status, a.named)
=============================================================================
