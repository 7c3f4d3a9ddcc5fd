--------------------------- MODULE RetryProperties ---------------------------
(* What RoundTrip must do, over the behaviours of RetryTransport. *)
EXTENDS RetryTransport

Durations == -(MaxDuration + 1) .. MaxDuration

\* Every variable has its type; a delay is always a time.Duration.
TypeOK ==
    /\ maxRetries \in RetrySettings
    /\ pc \in [Calls -> {"idle", "loop", "backoff", "prepare", "dial", "flight",
                         "returned", "closed", "panicked"}]
    /\ attempt \in [Calls -> Nat]
    /\ resp \in [Calls -> Answers]
    /\ err \in [Calls -> {"nil", "body", "ctx", "base"}]
    /\ delay \in [Calls -> Durations]
    /\ body \in [Calls -> {"nil", "unread", "full", "spent"}]
    /\ ctxDone \subseteq Cancellable
    /\ conns \subseteq Calls \X Nat
    /\ sent \in [Calls -> Nat]
    /\ last \in [Calls -> Answers]

\* What the documentation calls transient: 429 and 5xx.
Transient(status) == status = 429 \/ status >= 500
Allowance         == IF maxRetries > 0 THEN maxRetries + 1 ELSE 1

\* RoundTrip returns a response or an error, never both nor neither (the
\* nil/nil of a negative MaxRetries), and the response is the latest answer,
\* not one of an attempt before it.
OutcomeIsLastAnswer ==
    \A c \in Calls : Returned(c) =>
        /\ resp[c] # NoResponse <=> err[c] = "nil"
        /\ err[c] \in {"nil", "base"} => resp[c] = last[c]

\* The base is called at most 1 + MaxRetries times, and a transient answer or
\* an error of the base is the result only when those are used up.
RetryBudget ==
    \A c \in Calls :
        /\ sent[c] <= Allowance
        /\ Returned(c) =>
               \/ err[c] \in {"body", "ctx"}
               \/ resp[c] # NoResponse /\ ~ Transient(resp[c].status)
               \/ sent[c] = Allowance

\* Every attempt hands the base the complete request body, whatever the
\* attempts before it consumed.
BodyReplayed == \A c \in Calls : pc[c] = "dial" => body[c] \in {"nil", "full"}

Holds(c) == \E x \in conns : x[1] = c

\* A call never waits for a connection while it sits on one itself: with a
\* pool of one it would wait for ever.
NoSelfBlocking == \A c \in Calls : pc[c] = "dial" => ~ Holds(c)

\* A returned response can still be read: nothing closed its body, except the
\* base when the context is done.
ReturnedBodyReadable ==
    \A c \in Calls :
        pc[c] = "returned" /\ resp[c] # NoResponse /\ <<c, sent[c]>> \notin conns
            => c \in ctxDone /\ BaseWatchesContext

\* A call that is over occupies a connection only if its context ended a
\* backoff (the response before the backoff is left open) or it panicked.
AbandonedOnlyByCancel ==
    \A c \in Calls : Settled(c) /\ Holds(c) => err[c] = "ctx" \/ pc[c] = "panicked"

\* The delay is the documented one for the latest answer (not for an older
\* 429), when time.Duration can hold it.
DocumentedDelay ==
    \A c \in Calls : pc[c] = "backoff" /\ Representable(attempt[c], last[c])
        => delay[c] \in DocumentedDelays(attempt[c], last[c])

\* The jitter panics only once the exponential no longer fits a Duration.
PanicOnlyOnOverflow ==
    \A c \in Calls : pc[c] = "panicked" =>
        2 ^ (attempt[c] - 1) * Second \notin Second .. MaxDuration

\* A request is sent again only after an error or a transient answer: what the
\* server finally accepted or refused is never repeated.
NoResendAfterFinal ==
    [][\A c \in Calls : sent'[c] > sent[c] /\ last[c] # NoResponse
                             => Transient(last[c].status)]_vars

\* RoundTrip implements the contract of a retried request.
Verdict(c) ==
    IF pc[c] = "panicked" THEN "panicked"
    ELSE IF ~ Returned(c) THEN "open"
    ELSE IF err[c] \in {"body", "ctx"} THEN "aborted"
    ELSE IF err[c] = "base" THEN "last error"
    ELSE IF Transient(resp[c].status) THEN "last response" ELSE "final"
Latest(c) ==
    IF pc[c] \in {"dial", "flight"} THEN "awaited"
    ELSE IF last[c] = NoResponse THEN "none"
    ELSE IF Transient(last[c].status) THEN "transient" ELSE "final"
Latests  == [c \in Calls |-> Latest(c)]
Verdicts == [c \in Calls |-> Verdict(c)]
Contract == INSTANCE RetryContract
    WITH budget  <- Allowance,
         tries   <- sent,
         answer  <- Latests,
         verdict <- Verdicts
ContractSpec == Contract!Spec

\* Every call that starts returns, even when all share a single connection.
EveryCallReturns == \A c \in Calls : (pc[c] = "loop") ~> Returned(c)

\* A call whose context is done returns, with no help of timer, pool or server.
CancelReturns == \A c \in Calls : (c \in ctxDone /\ pc[c] # "idle") ~> Returned(c)

-----------------------------------------------------------------------------
(* The inductive invariant *)

\* The results carry the latest answer.
Carried(c) == /\ err[c] \in {"nil", "base"}
              /\ resp[c] = last[c]
              /\ resp[c] # NoResponse <=> err[c] = "nil"

Untried(c) == /\ attempt[c] = 0 /\ sent[c] = 0
              /\ resp[c] = NoResponse /\ last[c] = NoResponse /\ err[c] = "nil"

\* Some attempts have failed, and none is under way.
Retrying(c) == /\ attempt[c] > 0 /\ sent[c] = attempt[c]
               /\ Carried(c)
               /\ resp[c] # NoResponse => Transient(resp[c].status)

Result(c) ==
    \/ err[c] = "body" /\ resp[c] = NoResponse /\ sent[c] = 0
    \/ err[c] = "ctx" /\ resp[c] = NoResponse /\ sent[c] <= limit
    \/ /\ Carried(c) /\ sent[c] <= limit + 1
       /\ resp[c] = NoResponse \/ Transient(resp[c].status) => sent[c] = limit + 1

LoopInv(c) ==
    /\ pc[c] = "idle" => Untried(c)
    /\ pc[c] = "loop" => (Untried(c) \/ Retrying(c)) /\ attempt[c] <= limit + 1
    /\ pc[c] = "prepare" => (Untried(c) \/ Retrying(c)) /\ attempt[c] <= limit
    /\ pc[c] = "backoff" => /\ Retrying(c) /\ attempt[c] <= limit
                            /\ delay[c] \in retryDelay(attempt[c], resp[c])
    /\ pc[c] = "panicked" => /\ Retrying(c) /\ attempt[c] <= limit
                             /\ retryDelay(attempt[c], resp[c]) = {}
    /\ pc[c] \in {"dial", "flight"} => sent[c] = attempt[c] + 1 /\ attempt[c] <= limit
    /\ pc[c] = "dial" => body[c] \in {"nil", "full"}
    /\ pc[c] \in {"returned", "closed"} => Result(c)
    /\ pc[c] = "closed" => resp[c] # NoResponse

\* A call occupies at most the connection of its latest attempt, and only while
\* that attempt or its response is open; it loses it only to a done context.
ConnInv(c) ==
    /\ \A x \in conns : x[1] = c => x[2] = sent[c]
    /\ Holds(c) => \/ pc[c] = "flight"
                   \/ /\ pc[c] \in {"loop", "backoff", "prepare", "panicked", "returned"}
                      /\ resp[c] # NoResponse \/ err[c] = "ctx"
    /\ pc[c] = "flight" => <<c, sent[c]>> \in conns
    /\ (/\ pc[c] \in {"loop", "backoff", "prepare", "returned"}
        /\ resp[c] # NoResponse /\ <<c, sent[c]>> \notin conns)
       => c \in ctxDone /\ BaseWatchesContext

\* The loop's bookkeeping and the connections, together inductive: what a call
\* holds follows from where it is, whatever the other calls do.
IInv == TypeOK /\ \A c \in Calls : LoopInv(c) /\ ConnInv(c)

-----------------------------------------------------------------------------
(* What the documentation says and the code does not do *)

\* client.go: "Retries fire on 429 and 5xx".
RetryOnlyOnStatus == \A c \in Calls : pc[c] = "dial" /\ sent[c] > 1 => last[c] # NoResponse

\* transport.go: "Drain and close the previous response body".
PreviousBodyClosed == \A c \in Calls : pc[c] = "returned" /\ resp[c] = NoResponse => ~ Holds(c)

\* transport.go: MaxRetries "is the maximum number of retry attempts", with
\* "exponential backoff": a large setting means more attempts, not a panic.
NeverPanics == \A c \in Calls : pc[c] # "panicked"
=============================================================================
