------------------------------- MODULE TimedCall -------------------------------
(***************************************************************************)
(* One call in time: http.Client.Do with the Timeout that New gives it     *)
(* (client/client.go), around RoundTrip's loop and its backoff             *)
(* (client/transport.go), against a server behind a rate limiter.  The     *)
(* unit is that of RetryDelay, the clock starts when Do is called.  Steps  *)
(* that are due are taken before time goes on; the server, the network and *)
(* the bodies of responses take as long as they like.                      *)
(***************************************************************************)
EXTENDS RetryDelay, Sequences

CONSTANTS
    Timeouts,       \* settings of WithTimeout
    RetrySettings,  \* settings of WithRetries
    Windows,        \* times at which the limiter opens
    Horizon         \* bound: the clock stops here

ASSUME TimedAssumption ==
    /\ Timeouts \subseteq Int /\ RetrySettings \subseteq Int
    /\ Windows \subseteq Nat
    /\ NoRetryAfter \notin Int
    /\ NoResponse \notin [status : Nat, after : Int \cup {NoRetryAfter}]
    /\ Horizon \in Nat

VARIABLES
    now,         \* the clock
    timeout,     \* http.Client.Timeout
    maxRetries,  \* RetryTransport.MaxRetries
    opens,       \* the limiter answers 429 before this time
    stage,       \* where the call is
    attempt,     \* the loop variable
    resp,        \* the loop's response, NoResponse if none
    wake,        \* when the backoff's timer fires
    sends,       \* history: when each attempt was sent
    throttled    \* history: how often the limiter answered

settings == <<timeout, maxRetries, opens>>
history  == <<sends, throttled>>
vars     == <<now, settings, stage, attempt, resp, wake, history>>

Ended == stage \in {"done", "failed"}

\* The context of the request is done: http.Client sets a deadline that spans
\* every attempt, every wait and the reading of the body.  Slip: no deadline.
NeverExpired == FALSE
Expired == timeout > 0 /\ now >= timeout

limit == IF maxRetries < 0 THEN 0 ELSE maxRetries

\* Does the loop end before the n-th iteration, counting from 0?  Slip: one
\* iteration later.
EndsLate(n) == n > limit + 1
EndsBefore(n) == n > limit

Init ==
    /\ now = 0
    /\ timeout \in Timeouts /\ maxRetries \in RetrySettings /\ opens \in Windows
    /\ stage = "send" /\ attempt = 0 /\ resp = NoResponse /\ wake = 0
    /\ sends = <<>> /\ throttled = 0

-----------------------------------------------------------------------------
(* RoundTrip *)

\* Drain the previous response and call the base, whatever the context says.
Send ==
    /\ stage = "send"
    /\ stage' = "flight"
    /\ sends' = Append(sends, now)
    /\ UNCHANGED <<now, settings, attempt, resp, wake, throttled>>

\* The next iteration: a wait, unless the tries are used up.
Continue(r) ==
    /\ attempt' = attempt + 1
    /\ resp' = r
    /\ IF EndsBefore(attempt')
       THEN stage' = "spent" /\ UNCHANGED wake
       ELSE \/ \E d \in retryDelay(attempt', r) : wake' = now + d /\ stage' = "wait"
            \/ retryDelay(attempt', r) = {} /\ stage' = "failed" /\ UNCHANGED wake

\* After the loop: the last response, or the last error.
GiveUp ==
    /\ stage = "spent"
    /\ stage' = IF resp = NoResponse THEN "failed" ELSE "read"
    /\ UNCHANGED <<now, settings, attempt, resp, wake, history>>

Respond(r) ==
    /\ stage = "flight"
    /\ IF shouldRetry(r.status)
       THEN Continue(r)
       ELSE stage' = "read" /\ resp' = r /\ UNCHANGED <<attempt, wake>>
    /\ UNCHANGED <<now, settings, sends>>

\* Slip: an error ends the loop.
FailAtOnce ==
    /\ stage = "flight" /\ stage' = "failed"
    /\ resp' = NoResponse
    /\ UNCHANGED <<now, settings, attempt, wake, history>>
Fail ==
    /\ stage = "flight"
    /\ Continue(NoResponse)
    /\ UNCHANGED <<now, settings, history>>

\* The cases of the select that can be taken now.  Slip: the context is not one.
ReadyTimer == {k \in {"timer"} : now >= wake}
Ready == {k \in {"timer", "ctx"} : IF k = "timer" THEN now >= wake ELSE Expired}

Select ==
    /\ stage = "wait"
    /\ \E k \in Ready :
          \/ k = "timer" /\ stage' = "send"
          \/ k = "ctx" /\ stage' = "failed"
    /\ UNCHANGED <<now, settings, attempt, resp, wake, history>>

\* The caller reads the body of what RoundTrip returned; its reads end with an
\* error at the deadline too.
ReadBody ==
    /\ stage = "read"
    /\ stage' = "done" \/ (Expired /\ stage' = "failed")
    /\ UNCHANGED <<now, settings, attempt, resp, wake, history>>

-----------------------------------------------------------------------------
(* The server and the clock *)

\* A request sent with a done context is not answered.
Alive == timeout > 0 => sends[Len(sends)] < timeout

\* The limiter says, in whole seconds, when it opens.
Throttle ==
    /\ stage = "flight" /\ Alive /\ now < opens
    /\ Respond([status |-> 429, after |-> (opens - now + Second - 1) \div Second])
    /\ throttled' = throttled + 1

Serve ==
    /\ stage = "flight" /\ Alive /\ now >= opens
    /\ \E status \in {200, 503} : Respond([status |-> status, after |-> NoRetryAfter])
    /\ UNCHANGED throttled

\* Only what the client waits for takes time: the timer, an answer, the end of
\* a body, each no longer than the context allows.
Waiting ==
    \/ stage = "wait" /\ Ready = {}
    \/ stage \in {"flight", "read"} /\ ~ Expired
    \/ stage = "send" /\ resp # NoResponse /\ ~ Expired

Tick ==
    /\ now < Horizon
    /\ Waiting
    /\ now' = now + 1
    /\ UNCHANGED <<settings, stage, attempt, resp, wake, history>>

Next ==
    \/ Send \/ Fail \/ Select \/ GiveUp \/ ReadBody
    \/ Throttle \/ Serve \/ Tick
    \/ (Ended \/ now = Horizon) /\ UNCHANGED vars

\* Time goes on and the client takes its steps; the server may never answer, and
\* no body needs to end before the deadline.
Spec ==
    /\ Init /\ [][Next]_vars
    /\ WF_vars(Tick) /\ WF_vars(Select) /\ WF_vars(GiveUp)
    /\ WF_vars(Send /\ (resp = NoResponse \/ Expired))
    /\ WF_vars(Fail /\ Expired) /\ WF_vars(ReadBody /\ Expired)
=============================================================================
