---------------------------- MODULE RetryTransport ----------------------------
(***************************************************************************)
(* RetryTransport.RoundTrip of client/transport.go, run concurrently by    *)
(* the goroutines of Calls over one base transport.  The base transport    *)
(* and the caller are external: the base gives a connection from a pool    *)
(* of PoolSize, an answer or an error; the caller closes the body of the   *)
(* response it was returned and may cancel its context at any moment.      *)
(* Every response has a body, and holds its connection until that body is  *)
(* closed.                                                                 *)
(***************************************************************************)
EXTENDS RetryDelay, FiniteSets

CONSTANTS
    Calls,              \* goroutines, each making one RoundTrip
    RetrySettings,      \* values the MaxRetries field may have
    Statuses,           \* status codes the server answers with
    RetryAfters,        \* what a 429 may carry: seconds, or NoRetryAfter
    Payloads,           \* subset of {"nil", "unread"}: request bodies
    PoolSize,           \* connections of the base transport
    Cancellable,        \* calls whose context may be cancelled
    BaseWatchesContext  \* does the base release bodies of cancelled requests?

Responses == [status : Statuses, after : RetryAfters]

ASSUME TransportAssumption ==
    /\ RetrySettings \subseteq Int
    /\ Statuses \subseteq Nat
    /\ RetryAfters \subseteq Int \cup {NoRetryAfter}
    /\ NoRetryAfter \notin Int
    /\ NoResponse \notin Responses
    /\ Payloads \subseteq {"nil", "unread"}
    /\ PoolSize \in Nat \ {0}
    /\ Cancellable \subseteq Calls
    /\ BaseWatchesContext \in BOOLEAN

VARIABLES
    maxRetries,  \* the MaxRetries field, fixed at construction
    pc,          \* where each goroutine is in RoundTrip
    attempt,     \* the loop variable
    resp, err,   \* the locals, and once it returned, the results
    delay,       \* the running timer's duration, 0 outside the select
    body,        \* req.Body: "nil", "unread", "full" (a fresh copy) or "spent"
    ctxDone,     \* calls whose context is done
    conns,       \* <<c, n>>: the connection of the n-th send of c is in use
    sent,        \* history: how often base.RoundTrip was called
    last         \* history: the latest answer of the base, NoResponse if none

locals  == <<attempt, resp, err, delay, body>>
outside == <<ctxDone, conns>>
history == <<sent, last>>
vars    == <<maxRetries, pc, locals, outside, history>>

Answers == Responses \cup {NoResponse}

\* Slips a change to the clamp could make.
limitUnclamped == maxRetries
limitExclusive == IF maxRetries <= 0 THEN 0 ELSE maxRetries - 1
limit == IF maxRetries < 0 THEN 0 ELSE maxRetries

Goto(c, from, to) == pc[c] = from /\ pc' = [pc EXCEPT ![c] = to]

Init ==
    /\ maxRetries \in RetrySettings
    /\ pc = [c \in Calls |-> "idle"]
    /\ attempt = [c \in Calls |-> 0]
    /\ resp = [c \in Calls |-> NoResponse]
    /\ err = [c \in Calls |-> "nil"]
    /\ delay = [c \in Calls |-> 0]
    /\ body \in [Calls -> Payloads]
    /\ ctxDone = {}
    /\ conns = {}
    /\ sent = [c \in Calls |-> 0]
    /\ last = [c \in Calls |-> NoResponse]

-----------------------------------------------------------------------------
(* RoundTrip *)

\* The whole request body is read into bodyBytes, when there is one.
BufferBody(c) ==
    /\ Goto(c, "idle", "loop")
    /\ body' = [body EXCEPT ![c] = IF @ = "nil" THEN "nil" ELSE "spent"]
    /\ UNCHANGED <<maxRetries, attempt, resp, err, delay, outside, history>>

\* io.ReadAll of the request body fails.
BodyReadFails(c) ==
    /\ body[c] = "unread"
    /\ Goto(c, "idle", "returned")
    /\ err' = [err EXCEPT ![c] = "body"]
    /\ body' = [body EXCEPT ![c] = "spent"]
    /\ UNCHANGED <<maxRetries, attempt, resp, delay, outside, history>>

\* The loop ends: the last response or error is the result.  Slip: the last
\* response is closed like those before it.
GiveUpClosed(c) ==
    /\ attempt[c] > limit
    /\ Goto(c, "loop", "returned")
    /\ conns' = conns \ {<<c, sent[c]>>}
    /\ UNCHANGED <<maxRetries, locals, ctxDone, history>>
GiveUp(c) ==
    /\ attempt[c] > limit
    /\ Goto(c, "loop", "returned")
    /\ UNCHANGED <<maxRetries, locals, outside, history>>

FirstAttempt(c) ==
    /\ attempt[c] = 0 /\ attempt[c] <= limit
    /\ Goto(c, "loop", "prepare")
    /\ UNCHANGED <<maxRetries, locals, outside, history>>

\* The timer starts; the previous response is still open.
StartBackoff(c) ==
    /\ attempt[c] > 0 /\ attempt[c] <= limit
    /\ Goto(c, "loop", "backoff")
    /\ \E d \in retryDelay(attempt[c], resp[c]) : delay' = [delay EXCEPT ![c] = d]
    /\ UNCHANGED <<maxRetries, attempt, resp, err, body, outside, history>>

\* rand.Int64N panics: the jitter's range is empty.
JitterPanics(c) ==
    /\ attempt[c] > 0 /\ attempt[c] <= limit
    /\ retryDelay(attempt[c], resp[c]) = {}
    /\ Goto(c, "loop", "panicked")
    /\ UNCHANGED <<maxRetries, locals, outside, history>>

\* The two cases of the select; when both are ready either may be taken.
TimerFires(c) ==
    /\ Goto(c, "backoff", "prepare")
    /\ delay' = [delay EXCEPT ![c] = 0]
    /\ UNCHANGED <<maxRetries, attempt, resp, err, body, outside, history>>

BackoffUninterrupted(c) == pc[c] = "backoff" /\ FALSE /\ UNCHANGED vars
BackoffCancelled(c) ==
    /\ c \in ctxDone
    /\ Goto(c, "backoff", "returned")
    /\ resp' = [resp EXCEPT ![c] = NoResponse]
    /\ err' = [err EXCEPT ![c] = "ctx"]
    /\ delay' = [delay EXCEPT ![c] = 0]
    /\ UNCHANGED <<maxRetries, attempt, body, outside, history>>

\* The previous response is drained and closed; slips: it is not, or only
\* when it is a 429.
DrainNothing(c) == conns
DrainOnly429(c) == IF Advised(resp[c]) THEN conns \ {<<c, sent[c]>>} ELSE conns
Drained(c) == IF resp[c] = NoResponse THEN conns ELSE conns \ {<<c, sent[c]>>}

\* req.Body is rebuilt from bodyBytes; slip: only the first attempt has it.
RebuiltOnce(c) == IF body[c] = "spent" /\ attempt[c] = 0 THEN "full" ELSE body[c]
Rebuilt(c) == IF body[c] = "nil" THEN "nil" ELSE "full"

\* Drain and close the previous response, rebuild the body, call the base.
Send(c) ==
    /\ Goto(c, "prepare", "dial")
    /\ conns' = Drained(c)
    /\ body' = [body EXCEPT ![c] = Rebuilt(c)]
    /\ sent' = [sent EXCEPT ![c] = @ + 1]
    /\ UNCHANGED <<maxRetries, attempt, resp, err, delay, ctxDone, last>>

\* The base returned a response: the last word, or a reason to loop.
Respond(c, r) ==
    /\ Goto(c, "flight", IF shouldRetry(r.status) THEN "loop" ELSE "returned")
    /\ attempt' = [attempt EXCEPT ![c] = IF shouldRetry(r.status) THEN @ + 1 ELSE @]
    /\ resp' = [resp EXCEPT ![c] = r]
    /\ err' = [err EXCEPT ![c] = "nil"]
    /\ last' = [last EXCEPT ![c] = r]
    /\ UNCHANGED <<maxRetries, delay, body, outside, sent>>

\* The base returned an error, before or after it had a connection: continue.
Fail(c) ==
    /\ Goto(c, "dial", "loop") \/ Goto(c, "flight", "loop")
    /\ attempt' = [attempt EXCEPT ![c] = @ + 1]
    /\ resp' = [resp EXCEPT ![c] = NoResponse]
    /\ err' = [err EXCEPT ![c] = "base"]
    /\ last' = [last EXCEPT ![c] = NoResponse]
    /\ conns' = conns \ {<<c, sent[c]>>}
    /\ UNCHANGED <<maxRetries, delay, body, ctxDone, sent>>

-----------------------------------------------------------------------------
(* The base transport and the caller *)

\* The base gets a connection and writes the request, reading its body.
Connect(c) ==
    /\ Cardinality(conns) < PoolSize
    /\ Goto(c, "dial", "flight")
    /\ conns' = conns \cup {<<c, sent[c]>>}
    /\ body' = [body EXCEPT ![c] = IF @ = "nil" THEN "nil" ELSE "spent"]
    /\ UNCHANGED <<maxRetries, attempt, resp, err, delay, ctxDone, history>>

\* net/http's Transport tears down what a cancelled request left open.
Release(c) ==
    /\ BaseWatchesContext
    /\ c \in ctxDone /\ pc[c] # "flight"
    /\ \E x \in conns : x[1] = c
    /\ conns' = {x \in conns : x[1] # c}
    /\ UNCHANGED <<maxRetries, pc, locals, ctxDone, history>>

\* The generated Parse functions close the body of what they were returned.
CloseBody(c) ==
    /\ resp[c] # NoResponse
    /\ Goto(c, "returned", "closed")
    /\ conns' = conns \ {<<c, sent[c]>>}
    /\ UNCHANGED <<maxRetries, locals, ctxDone, history>>

Cancel(c) ==
    /\ c \in Cancellable \ ctxDone
    /\ ctxDone' = ctxDone \cup {c}
    /\ UNCHANGED <<maxRetries, pc, locals, conns, history>>

-----------------------------------------------------------------------------
Returned(c) == pc[c] \in {"returned", "closed"}
Settled(c)  == \/ pc[c] \in {"closed", "panicked"}
               \/ pc[c] = "returned" /\ resp[c] = NoResponse

Terminated == (\A c \in Calls : Settled(c)) /\ UNCHANGED vars

Local(c) ==
    \/ BufferBody(c) \/ BodyReadFails(c)
    \/ GiveUp(c) \/ FirstAttempt(c) \/ StartBackoff(c) \/ JitterPanics(c)
    \/ Send(c)

Next ==
    \/ \E c \in Calls :
          \/ Local(c) \/ TimerFires(c) \/ BackoffCancelled(c)
          \/ Connect(c) \/ Fail(c) \/ Release(c)
          \/ CloseBody(c) \/ Cancel(c)
          \/ \E r \in Responses : Respond(c, r)
    \/ Terminated

Spec == Init /\ [][Next]_vars

\* Goroutines run, timers expire, the base serves who waits and answers what
\* it sent (or fails), bodies that are drained end, cancelled leftovers are torn
\* down, callers close bodies.
Answer(c) == pc[c] = "flight" /\ (Fail(c) \/ \E r \in Responses : Respond(c, r))

ServedSpec ==
    Spec /\ \A c \in Calls :
        /\ WF_vars(Local(c)) /\ WF_vars(TimerFires(c))
        /\ WF_vars(Connect(c)) /\ WF_vars(Answer(c))
        /\ WF_vars(Release(c)) /\ WF_vars(CloseBody(c))

\* Draining a response ends without the server when there is none to drain, or
\* when the base fails reads once the context is done.
Prompt(c) == resp[c] = NoResponse \/ (BaseWatchesContext /\ c \in ctxDone)

\* Timers may never expire, the server may never answer nor end a body and the
\* pool may never have room: only the client's own steps and its reaction to a
\* done context.
CancelSpec ==
    Spec /\ \A c \in Calls :
        /\ WF_vars(Local(c) /\ (pc[c] = "prepare" => Prompt(c)))
        /\ WF_vars(BackoffCancelled(c))
        /\ WF_vars(c \in ctxDone /\ Fail(c))
=============================================================================
