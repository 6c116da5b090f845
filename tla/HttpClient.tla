---------------------------- MODULE HttpClient ----------------------------
(***************************************************************************)
(* How UnifiedHttpClient classifies a call that brings no usable answer,   *)
(* and which classes SyncTask retries.  A 2xx answer whose body is no      *)
(* JSON, which the client turns into None, is left out: no server sends it.*)
(***************************************************************************)

\* What the transport reports: no answer in time, no connection, or a status that
\* is not 2xx ("other" is any status the client has no branch for, 400, 429 and
\* the 5xx among them, and the JSON-RPC error body of Odoo, which HttpOdooAdapter
\* raises as the same error).
Outcome == {"timeout", "transport", "401", "403", "404", "409", "422", "other"}

CodeOf(outcome) ==
  CASE outcome = "timeout"          -> "upstream_timeout"
    [] outcome = "transport"        -> "upstream_unavailable"
    [] outcome \in {"401", "403"}   -> "upstream_auth_error"
    [] outcome = "404"              -> "not_found"
    [] outcome = "409"              -> "conflict"
    [] outcome = "422"              -> "validation_error"
    [] OTHER                        -> "upstream_error"

RetryableCodes == {"upstream_timeout", "upstream_unavailable", "upstream_error"}

(* Operators named M_... are faulty variants of the definition that follows
   them, as a slip of the code would have it; no specification uses them. *)

M_IsRetryableOnlyConnection(code) == code = "upstream_unavailable"

IsRetryable(code) == code \in RetryableCodes

\* The outcomes after which the server may have done what it was asked to do.
Ambiguous == {"timeout", "transport", "other"}
=============================================================================
