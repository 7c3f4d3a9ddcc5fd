------------------------------ MODULE RetryDelay ------------------------------
(***************************************************************************)
(* The arithmetic of client/transport.go: which answers are retried and    *)
(* how long RoundTrip waits before the next attempt.  time.Duration is a   *)
(* signed integer of fixed width; Second is the number of its units in a   *)
(* second (10^9 in Go) and MaxDuration its largest value (2^63 - 1).  Both *)
(* are parameters, so that a small instance meets the same wrap-around.    *)
(***************************************************************************)
EXTENDS Integers

CONSTANTS
    Second,        \* units of time.Duration in time.Second
    MaxDuration,   \* largest time.Duration
    NoRetryAfter,  \* the header is absent, or strconv.Atoi rejects it
    NoResponse     \* the nil *http.Response

ASSUME DurationAssumption ==
    /\ Second \in Nat /\ Second >= 2
    /\ MaxDuration \in Nat /\ MaxDuration >= Second

\* Slips: every error status is retried; everything but a plain OK is.
retryErrors(statusCode) == statusCode >= 400
retryUnlessOK(statusCode) == statusCode # 200
shouldRetry(statusCode) == statusCode = 429 \/ statusCode >= 500

\* Two's complement: what a Duration product keeps of its mathematical value.
WrapNothing(x) == x
Wrap(x) ==
    IF x \in -(MaxDuration + 1) .. MaxDuration
    THEN x
    ELSE ((x + MaxDuration + 1) % (2 * (MaxDuration + 1))) - (MaxDuration + 1)

\* A response is what retryDelay reads of it: the status code and Retry-After.
Advised(resp) ==
    /\ resp # NoResponse
    /\ resp.status = 429
    /\ resp.after # NoRetryAfter

\* Slips: the exponent counts attempts instead of retries; full jitter, which
\* reaches down to no delay at all; Retry-After is not looked at.
retryDelayShifted(attempt, resp) ==
    IF Advised(resp)
    THEN {Wrap(resp.after * Second)}
    ELSE LET half == Wrap(2 ^ attempt * Second) \div 2
         IN  half .. (half + half - 1)

retryDelayFull(attempt, resp) ==
    IF Advised(resp) THEN {Wrap(resp.after * Second)}
                     ELSE 0 .. (Wrap(2 ^ (attempt - 1) * Second) - 1)
retryDelayUnadvised(attempt, resp) ==
    LET half == Wrap(2 ^ (attempt - 1) * Second) \div 2 IN half .. (half + half - 1)

\* Every delay the jitter can give.  rand.Int64N panics unless its argument
\* is positive: that is when there is no delay to choose.
retryDelay(attempt, resp) ==
    IF Advised(resp)
    THEN {Wrap(resp.after * Second)}
    ELSE LET half == Wrap(2 ^ (attempt - 1) * Second) \div 2
         IN  half .. (half + half - 1)

-----------------------------------------------------------------------------
\* The delays the documentation of RetryTransport promises before the given
\* attempt, once the given answer was the last one, in unbounded arithmetic:
\* Retry-After as seconds on a 429, otherwise 50%-100% of an exponential.
DocumentedDelays(attempt, answer) ==
    IF answer # NoResponse /\ answer.status = 429 /\ answer.after # NoRetryAfter
    THEN {answer.after * Second}
    ELSE LET whole == 2 ^ (attempt - 1) * Second
         IN  {d \in (whole \div 2) .. whole : d < whole}

\* time.Duration can hold the documented delays.
Representable(attempt, answer) ==
    IF answer # NoResponse /\ answer.status = 429 /\ answer.after # NoRetryAfter
    THEN answer.after * Second \in -(MaxDuration + 1) .. MaxDuration
    ELSE 2 ^ (attempt - 1) * Second \in Second .. MaxDuration
=============================================================================
