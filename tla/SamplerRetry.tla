----------------------------- MODULE SamplerRetry -----------------------------
(***************************************************************************)
(* The pure part of the sampler's retry loop (crates/codegen/cf-sampler,   *)
(* retry.rs and the predicates of cf-sampling-types/src/error.rs): what    *)
(* becomes of one failed attempt.                                          *)
(*                                                                         *)
(* A SamplingError is reduced to a kind; two errors are of one kind when   *)
(* no predicate of the code tells them apart.                              *)
(***************************************************************************)
EXTENDS Integers

CONSTANTS
    MaxRetries,          \* resolve_max_retries(..)
    FailoverMaxRetries,  \* resolve_failover_max_retries()
    RateLimitThreshold,  \* rate_limit_threshold, after its 0 => default rule
    DoomMaxRetries       \* doom_policy.max_retries, 0 without a policy

ASSUME RetryAssumption ==
    /\ MaxRetries \in Nat
    /\ FailoverMaxRetries \in Nat
    /\ RateLimitThreshold \in Nat \ {0}
    /\ DoomMaxRetries \in Nat

(***************************************************************************)
(* auth          Auth, or Api 401                                          *)
(* encrypted     Api 400 naming encrypted_content                          *)
(* too_large     Api 413                                                   *)
(* image         Api 400 or 500, "Could not process image"                 *)
(* stop_4xx      Api 4xx (429 too) with x-should-retry: false              *)
(* stop_5xx      Api 5xx with x-should-retry: false                        *)
(* context_4xx   Api 4xx, context-length message                           *)
(* context_5xx   Api 5xx or StreamError, context-length message            *)
(* rate_limited  Api 429                                                   *)
(* transport     Http timeout, connect or status 5xx, EventStreamError,    *)
(*               StreamError, Api 500, 502, 503, 504, 520                  *)
(* body_reset    Http request or body failure (is_likely_body_rejected)    *)
(* empty         EmptyResponse, or Http carrying status 429                *)
(* idle          IdleTimeout, other Api 5xx, other Http without 4xx        *)
(* client        other Api or Http 4xx, Serialization,                     *)
(*               InvalidConfiguration, MaxTokensTruncation                 *)
(* doom          DoomLoopDetected                                          *)
(***************************************************************************)
ErrorKinds == {"auth", "encrypted", "too_large", "image", "stop_4xx",
               "stop_5xx", "context_4xx", "context_5xx", "rate_limited",
               "transport", "body_reset", "empty", "idle", "client", "doom"}

SessionOwned   == {"auth", "encrypted"}
ImageShaped    == {"too_large", "image"}
NeverRetried   == {"stop_4xx", "stop_5xx", "context_4xx", "context_5xx"}
IsRetryable(e) == e \in {"transport", "body_reset", "empty"}

\* Mutant: every error the session does not own is failed over.
FailoverOnAnything(e) == e \notin SessionOwned

IsFailoverError(e) ==
    e \in {"stop_5xx", "context_5xx", "transport", "body_reset", "idle"}

Minimum(a, b) == IF a <= b THEN a ELSE b

Decisions == {"emit", "strip", "retry", "fatal"}

\* Mutant: the attempt about to be made is not counted.
ClassifyLate(e, retries, cap) ==
    CASE e \in SessionOwned  -> "emit"
      [] e \in ImageShaped   -> "strip"
      [] e \in NeverRetried  -> "fatal"
      [] e = "doom"          -> "retry"
      [] e = "rate_limited" /\ retries < Minimum(cap, RateLimitThreshold) -> "retry"
      [] IsRetryable(e) /\ retries < cap -> "retry"
      [] OTHER               -> "fatal"

\* classify_error(): the guards in the order the code tries them.  The three
\* retrying decisions (Retry, RetryWithBackoff, RetryWithClientRebuild) differ
\* only in the backoff and in the HTTP client, and are one decision here.
Classify(e, retries, cap) ==
    CASE e \in SessionOwned -> "emit"
      [] e \in ImageShaped  -> "strip"
      [] e \in NeverRetried -> "fatal"
      [] e = "doom"         -> "retry"
      [] e = "rate_limited" ->
            IF retries + 1 >= Minimum(cap, RateLimitThreshold) THEN "fatal"
                                                               ELSE "retry"
      [] IsRetryable(e)     -> IF retries + 1 >= cap THEN "fatal" ELSE "retry"
      [] OTHER              -> "fatal"

\* The cap apply_retry_decision() passes: lower while a fallback is queued and
\* the error is one a fallback could cure.
RetryCap(e, fallbackQueued) ==
    IF fallbackQueued /\ IsFailoverError(e)
    THEN Minimum(MaxRetries, FailoverMaxRetries)
    ELSE MaxRetries

\* The attempts one model gets when nothing but its retry budget stops it.
PerModel == IF MaxRetries = 0 THEN 1 ELSE MaxRetries
=============================================================================
