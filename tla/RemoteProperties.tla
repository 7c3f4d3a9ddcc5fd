--------------------------- MODULE RemoteProperties ---------------------------
(* What retried writes do to the server's data, over the behaviours of RemoteApi. *)
EXTENDS RemoteApi

Attempts == Calls \X Nat

RemoteTypeOK ==
    /\ verb \in [Calls -> Verbs]
    /\ inbox \subseteq Attempts
    /\ replies \subseteq Attempts \X Statuses
    /\ effects \subseteq Attempts
    /\ doubts \subseteq Attempts
    /\ before \in [Calls -> SUBSET Calls]

Reversed(c) == \E x \in effects \cap doubts : x[1] = c

\* A write that took effect either is the call's latest attempt or had left the
\* client in doubt: an answer the client understood, a 429 included, is never
\* followed by a second effect.  Hence an update is overwritten by an earlier,
\* acknowledged one only if that one left an attempt in doubt behind.
EffectsExplained ==
    /\ \A x \in effects : x \in doubts \/ x = Current(x[1])
    /\ \A d \in Calls : \A c \in before[d] :
          Succeeded(d) /\ verb[d] = "Update" /\ value = c
              => Reversed(c)

\* What the caller is told is true of its own latest attempt: success means that
\* it took effect, and a 404 that another call, or an attempt of its own that
\* was in doubt, removed the row before.
Removed(x) == verb[x[1]] \in {"Delete", "Replace"}
GoneFor(c) == \E x \in effects : Removed(x) /\ (x[1] = c => x \in doubts)
ResultsExplained ==
    \A c \in Calls : Returned(c) /\ resp[c] # NoResponse =>
        /\ Succeeded(c) => Current(c) \in effects
        /\ resp[c].status = 404 => GoneFor(c)

\* Retried writes implement the contract of a write that takes effect at least
\* once when acknowledged, and again only for attempts in doubt.
Of(c, attempts) == Cardinality({x \in attempts : x[1] = c})
Applied  == [c \in Calls |-> Of(c, effects)]
Doubtful == [c \in Calls |-> Of(c, doubts)]
Told     == [c \in Calls |-> IF Succeeded(c) THEN "done"
                             ELSE IF Returned(c) \/ pc[c] = "panicked" THEN "not done"
                             ELSE "open"]
Write == INSTANCE WriteContract
    WITH applied <- Applied, doubtful <- Doubtful, outcome <- Told
WriteSpec == Write!Spec

-----------------------------------------------------------------------------
(* The inductive invariant *)

AttemptsSent == \A x \in inbox \cup effects \cup doubts : x[2] \in 1 .. sent[x[1]]

\* An attempt is handled once, and is not in doubt while it is awaited.
HandledOnce ==
    /\ inbox \cap effects = {}
    /\ \A c \in Calls : pc[c] \in {"dial", "flight"} => Current(c) \notin doubts

\* An answer on its way is the only one to the attempt that awaits it, and true.
RepliesTrue ==
    \A a \in replies :
        /\ Awaited(a[1]) /\ a[1] \notin inbox
        /\ a[2] \in {404, 429, 503, Success[verb[a[1][1]]]}
        /\ a[2] \in {404, 429} => a[1] \notin effects
        /\ a[2] = Success[verb[a[1][1]]] => a[1] \in effects
        /\ a[2] = 404 => GoneFor(a[1][1])
        /\ \A b \in replies : a[1] = b[1] => a = b

\* Attempts that were superseded without leaving a doubt took no effect and
\* never will; the latest one is known to have taken effect once it succeeded.
Accounted(x) == \/ x \in doubts
                \/ Awaited(x)
                \/ x \in effects /\ Succeeded(x[1]) /\ x = Current(x[1])

RowsExplained == Row0 \notin rows => \E x \in effects : Removed(x)

\* Between two updates in succession, only a doubt reverses the order.
LaterWins ==
    \A d \in Calls : \A c \in before[d] :
        /\ c # d /\ Succeeded(c)
        /\ verb[d] = "Update" /\ value = c /\ (\E y \in effects : y[1] = d) => Reversed(c)

\* What the proofs carry from step to step: every request, effect, answer and
\* result belongs to an attempt that RoundTrip made and accounts for.
RemoteInv ==
    /\ RemoteTypeOK /\ AttemptsSent /\ HandledOnce /\ RepliesTrue
    /\ \A x \in inbox \cup effects : Accounted(x)
    /\ ResultsExplained /\ RowsExplained /\ LaterWins
=============================================================================
