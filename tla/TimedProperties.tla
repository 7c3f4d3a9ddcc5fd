---------------------------- MODULE TimedProperties ----------------------------
(* What the timeout, the backoff and Retry-After promise, over TimedCall. *)
EXTENDS TimedCall

\* Types, and the budget of tries that RoundTrip's loop has.
TypeOK ==
    /\ timeout \in Timeouts /\ maxRetries \in RetrySettings /\ opens \in Windows
    /\ now \in 0 .. Horizon
    /\ stage \in {"send", "wait", "flight", "spent", "read", "done", "failed"}
    /\ attempt \in 0 .. limit + 1
    /\ wake \in Int
    /\ sends \in Seq(0 .. now)
    /\ throttled \in 0 .. Len(sends) /\ Len(sends) <= limit + 1

\* WithTimeout: however many attempts, waits and bodies a call is made of and
\* whatever Retry-After asks for, it takes no longer than the timeout.
EndsByDeadline == timeout > 0 => now <= timeout

\* The select may prefer the timer to a done context, so a request may leave
\* at or after the deadline, but never a second one: the backoff that
\* follows it takes some time, and by then only the context is ready.
OneSendAfterDeadline ==
    \A i \in DOMAIN sends : timeout > 0 /\ sends[i] >= timeout => i = Len(sends)

\* A limiter that says how long it stays closed throttles a call at most once:
\* no attempt leaves before the time it gave, whatever the timer competes with.
NotThrottledTwice == throttled <= 1

\* Against a failing server that gives no advice, the k-th retry leaves no
\* earlier than half of 1 + 2 + .. + 2^(k-1) seconds after the first attempt.
BackoffAddsUp ==
    throttled = 0 =>
        \A k \in DOMAIN sends : 2 * (sends[k] - sends[1]) >= (2 ^ (k - 1) - 1) * Second

\* The loop against the clock is the loop of RoundTrip: it tries as often, goes on
\* after the same answers and ends with the last of them.
Outcome ==
    IF stage \notin {"read", "done", "failed"} THEN "open"
    ELSE IF resp # NoResponse /\ ~ shouldRetry(resp.status) THEN "final"
    ELSE IF attempt <= limit THEN "aborted"
    ELSE IF resp = NoResponse THEN "last error" ELSE "last response"
LatestAnswer ==
    IF stage = "flight" THEN "awaited"
    ELSE IF resp = NoResponse THEN "none"
    ELSE IF shouldRetry(resp.status) THEN "transient" ELSE "final"
Contract == INSTANCE RetryContract
    WITH Calls   <- {"call"},
         budget  <- limit + 1,
         tries   <- [c \in {"call"} |-> Len(sends)],
         answer  <- [c \in {"call"} |-> LatestAnswer],
         verdict <- [c \in {"call"} |-> Outcome]
TimedContract == Contract!Spec

\* A late request is never followed by another; its answer is not heard, and the
\* backoff after it leaves the context as the only case of the select.
LateIsLast ==
    \A i \in DOMAIN sends : timeout > 0 /\ sends[i] >= timeout =>
        /\ i = Len(sends) /\ stage # "send"
        /\ stage = "wait" => wake > now

\* What the loop holds: nothing yet, or what is to be retried, or what is returned.
InHand ==
    /\ stage = "send" /\ attempt = 0 => resp = NoResponse
    /\ stage = "wait" => attempt # 0
    /\ stage \in {"send", "wait", "spent"} => resp = NoResponse \/ shouldRetry(resp.status)
    /\ stage \in {"read", "done"} => resp # NoResponse

\* What the proofs carry from step to step: each iteration has sent once.
TimedInv ==
    /\ TypeOK
    /\ stage \in {"send", "wait", "flight"} => attempt <= limit
    /\ stage \in {"send", "wait"} => Len(sends) = attempt
    /\ stage = "flight" => Len(sends) = attempt + 1 /\ throttled < Len(sends)
    /\ stage = "spent" => attempt = limit + 1 /\ Len(sends) = attempt
    /\ InHand
    /\ EndsByDeadline /\ LateIsLast

\* Once throttled, a call is not sent again before the limiter has opened.
WaitsForLimiter ==
    throttled > 0 =>
        /\ throttled = 1
        /\ \/ now >= opens
           \/ stage = "wait" /\ wake >= opens
           \/ stage \in {"spent", "read", "failed", "done"}

\* What n waits without advice take at least: half of 1 + 2 + .. + 2^(n-1) seconds.
SpacedOut(t, n) == 2 * (t - sends[1]) >= (2 ^ n - 1) * Second

KeepsAddingUp ==
    throttled = 0 =>
        /\ \A k \in DOMAIN sends : SpacedOut(sends[k], k - 1)
        /\ stage = "wait" => SpacedOut(wake, attempt)
        /\ stage = "send" /\ attempt > 0 => SpacedOut(now, attempt)

\* A call with a timeout ends, although the server may stay silent for ever.
TimedCallEnds == timeout > 0 ~> Ended
=============================================================================
