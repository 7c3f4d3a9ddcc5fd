---------------------------- MODULE RetryContract ----------------------------
(***************************************************************************)
(* What a caller may rely on when a request goes through RetryTransport,   *)
(* whatever the delays, bodies and connections: a call tries at most       *)
(* budget times, never again after a final answer, gives up on transient   *)
(* answers and errors only when the budget is spent, never starts a try    *)
(* while another is unanswered, and returns the answer of its last try.    *)
(***************************************************************************)
EXTENDS Naturals

CONSTANT Calls

VARIABLES
    budget,   \* tries every call may make
    tries,    \* tries a call has made
    answer,   \* of the latest try: "awaited", "none" (no try yet, or an error),
              \* "transient" or "final"
    verdict   \* "open", or how the call returned

vars == <<budget, tries, answer, verdict>>

Init ==
    /\ budget \in Nat \ {0}
    /\ tries = [c \in Calls |-> 0]
    /\ answer = [c \in Calls |-> "none"]
    /\ verdict = [c \in Calls |-> "open"]

Try(c) ==
    /\ verdict[c] = "open" /\ answer[c] # "awaited" /\ tries[c] < budget
    /\ tries' = [tries EXCEPT ![c] = @ + 1]
    /\ answer' = [answer EXCEPT ![c] = "awaited"]
    /\ UNCHANGED <<budget, verdict>>

Retryable(c) ==
    /\ verdict[c] = "open" /\ answer[c] = "awaited"
    /\ \E a \in {"none", "transient"} : answer' = [answer EXCEPT ![c] = a]
    /\ UNCHANGED <<budget, tries, verdict>>

Final(c) ==
    /\ verdict[c] = "open" /\ answer[c] = "awaited"
    /\ answer' = [answer EXCEPT ![c] = "final"]
    /\ verdict' = [verdict EXCEPT ![c] = "final"]
    /\ UNCHANGED <<budget, tries>>

Exhausted(c) ==
    /\ verdict[c] = "open" /\ answer[c] # "awaited" /\ tries[c] = budget
    /\ verdict' = [verdict EXCEPT ![c] =
                      IF answer[c] = "none" THEN "last error" ELSE "last response"]
    /\ UNCHANGED <<budget, tries, answer>>

\* The request body could not be read, or the context ended a backoff.
Aborted(c) ==
    /\ verdict[c] = "open" /\ answer[c] # "awaited" /\ tries[c] < budget
    /\ verdict' = [verdict EXCEPT ![c] = "aborted"]
    /\ UNCHANGED <<budget, tries, answer>>

Next == \E c \in Calls :
    Try(c) \/ Retryable(c) \/ Final(c) \/ Exhausted(c) \/ Aborted(c)

Spec == Init /\ [][Next]_vars
=============================================================================
