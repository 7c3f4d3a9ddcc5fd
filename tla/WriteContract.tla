----------------------------- MODULE WriteContract -----------------------------
(***************************************************************************)
(* What the caller of a write may rely on when its request is retried:     *)
(* success means it took effect, and every effect but the acknowledged one *)
(* belongs to an attempt whose outcome the client could not know.  Such an *)
(* attempt may take effect at any time, even after the call returned.      *)
(***************************************************************************)
EXTENDS Naturals

CONSTANT Calls

VARIABLES
    applied,   \* how often the call's write took effect
    doubtful,  \* its attempts whose outcome the client does not know
    outcome    \* "open", or what the caller was told

vars == <<applied, doubtful, outcome>>

Init ==
    /\ applied = [c \in Calls |-> 0]
    /\ doubtful = [c \in Calls |-> 0]
    /\ outcome = [c \in Calls |-> "open"]

Doubt(c) ==
    /\ outcome[c] = "open"
    /\ doubtful' = [doubtful EXCEPT ![c] = @ + 1]
    /\ UNCHANGED <<applied, outcome>>

Apply(c) ==
    /\ applied[c] < doubtful[c] + (IF outcome[c] \in {"open", "done"} THEN 1 ELSE 0)
    /\ applied' = [applied EXCEPT ![c] = @ + 1]
    /\ UNCHANGED <<doubtful, outcome>>

Acknowledge(c) ==
    /\ outcome[c] = "open" /\ applied[c] > 0
    /\ outcome' = [outcome EXCEPT ![c] = "done"]
    /\ UNCHANGED <<applied, doubtful>>

\* An error, or an answer that is not a success; the last answer may itself
\* leave the outcome in doubt.
GiveUp(c) ==
    /\ outcome[c] = "open"
    /\ doubtful' \in {doubtful, [doubtful EXCEPT ![c] = @ + 1]}
    /\ applied[c] <= doubtful'[c]
    /\ outcome' = [outcome EXCEPT ![c] = "not done"]
    /\ UNCHANGED applied

Next == \E c \in Calls : Doubt(c) \/ Apply(c) \/ Acknowledge(c) \/ GiveUp(c)

Spec == Init /\ [][Next]_vars
=============================================================================
