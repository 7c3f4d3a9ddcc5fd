------------------------------- MODULE RemoteApi -------------------------------
(***************************************************************************)
(* Writes to one status page through RetryTransport: RoundTrip of          *)
(* client/transport.go composed with the network and the API server.  A    *)
(* request that was written may be handled at any later time, also when    *)
(* its call has failed, retried or returned meanwhile; it is then handled  *)
(* once.  The server is external; what it does is what api/openapi.yaml    *)
(* says of the operations.                                                 *)
(***************************************************************************)
EXTENDS RetryTransport

CONSTANT Scenarios   \* which write each call makes

Verbs == {"Create", "Update", "Delete", "Replace"}

ASSUME RemoteAssumption ==
    /\ Scenarios \subseteq [Calls -> Verbs]
    /\ {200, 201, 204, 404, 429, 503} \subseteq Statuses

VARIABLES
    verb,      \* the write of each call
    inbox,     \* <<c, n>>: the n-th attempt of c, written and not yet handled
    replies,   \* <<attempt, status>>: answers on their way
    rows,      \* rows of the page, named by the attempt that made them
    value,     \* the call that last updated the first row
    effects,   \* history: attempts that took effect
    doubts,    \* history: attempts whose outcome the client could not know
    before     \* history: calls that had succeeded when a call began

remote == <<verb, inbox, replies, rows, value, effects, doubts, before>>

Row0 == <<"row", 0>>   \* the row the calls update or delete

Success == [Create |-> 201, Update |-> 200, Delete |-> 204, Replace |-> 200]
Succeeded(c) == Returned(c) /\ resp[c] # NoResponse /\ resp[c].status = Success[verb[c]]

Current(c) == <<c, sent[c]>>
Awaited(x) == pc[x[1]] = "flight" /\ x = Current(x[1])

RemoteInit ==
    /\ Init
    /\ verb \in Scenarios
    /\ inbox = {} /\ replies = {}
    /\ rows = {Row0} /\ value = "initial"
    /\ effects = {} /\ doubts = {}
    /\ before = [c \in Calls |-> {}]

-----------------------------------------------------------------------------
(* RoundTrip and the network *)

\* Who calls after another call has returned knows its result.
Begin(c) ==
    /\ BufferBody(c)
    /\ before' = [before EXCEPT ![c] = {d \in Calls : Succeeded(d)}]
    /\ UNCHANGED <<verb, inbox, replies, rows, value, effects, doubts>>

ClientStep(c) ==
    /\ \/ BodyReadFails(c) \/ GiveUp(c) \/ FirstAttempt(c) \/ StartBackoff(c)
       \/ JitterPanics(c) \/ TimerFires(c) \/ BackoffCancelled(c) \/ Send(c)
       \/ Release(c) \/ CloseBody(c) \/ Cancel(c)
    /\ UNCHANGED remote

Dispatch(c) ==
    /\ Connect(c)
    /\ inbox' = inbox \cup {Current(c)}
    /\ UNCHANGED <<verb, replies, rows, value, effects, doubts, before>>

\* An error of the base: when the request was written, it may have been handled
\* or may still be; its answer is lost.
Lose(c) ==
    /\ Fail(c)
    /\ doubts' = IF pc[c] = "flight" THEN doubts \cup {Current(c)} ELSE doubts
    /\ replies' = {a \in replies : a[1] # Current(c)}
    /\ UNCHANGED <<verb, inbox, rows, value, effects, before>>

\* A 5xx does not tell whether the request was carried out.
Receive(c, r) ==
    /\ <<Current(c), r.status>> \in replies
    /\ Respond(c, r)
    /\ doubts' = IF r.status >= 500 THEN doubts \cup {Current(c)} ELSE doubts
    /\ replies' = replies \ {<<Current(c), r.status>>}
    /\ UNCHANGED <<verb, inbox, rows, value, effects, before>>

-----------------------------------------------------------------------------
(* The server *)

\* The answer reaches the client only while it waits for it.
Reply(x, status) ==
    /\ inbox' = inbox \ {x}
    /\ replies' = IF Awaited(x) THEN replies \cup {<<x, status>>} ELSE replies
    /\ UNCHANGED <<vars, verb, doubts, before>>

Missing(x) == verb[x[1]] \in {"Update", "Delete"} /\ Row0 \notin rows

\* The write takes effect; a gateway may still answer 503.  A new structure
\* whose entries have no id makes new rows in place of all others.
Execute(x) ==
    /\ x \in inbox /\ ~ Missing(x)
    /\ effects' = effects \cup {x}
    /\ rows' = CASE verb[x[1]] = "Create"  -> rows \cup {x}
                 [] verb[x[1]] = "Update"  -> rows
                 [] verb[x[1]] = "Delete"  -> rows \ {Row0}
                 [] verb[x[1]] = "Replace" -> {x}
    /\ value' = IF verb[x[1]] = "Update" THEN x[1] ELSE value
    /\ \E status \in {Success[verb[x[1]]], 503} : Reply(x, status)

\* The row is gone, the caller is limited, or the server is down: no effect.
Refuse(x) ==
    /\ x \in inbox
    /\ \E status \in {429, 503} \cup (IF Missing(x) THEN {404} ELSE {}) : Reply(x, status)
    /\ UNCHANGED <<rows, value, effects>>

RemoteNext ==
    \/ \E c \in Calls :
          \/ Begin(c) \/ ClientStep(c) \/ Dispatch(c) \/ Lose(c)
          \/ \E r \in Responses : Receive(c, r)
    \/ \E x \in inbox : Execute(x) \/ Refuse(x)
    \/ Terminated /\ UNCHANGED remote

RemoteSpec == RemoteInit /\ [][RemoteNext]_<<vars, remote>>
=============================================================================
