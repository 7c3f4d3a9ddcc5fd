----------------------------- MODULE RemoteProofs -----------------------------
(* Proofs about retried writes, for any number of calls and any scenarios. *)
EXTENDS RemoteProperties, RetryProofs

USE RemoteAssumption

-----------------------------------------------------------------------------
(* RemoteApi runs RoundTrip *)

LEMMA RemoteRuns == [RemoteNext]_<<vars, remote>> => [Next]_vars
<1> SUFFICES ASSUME RemoteNext PROVE [Next]_vars
  BY DEF remote
<1>1. ASSUME NEW c \in Calls, Begin(c) PROVE Next
  BY <1>1 DEF Begin, Next, Local
<1>2. ASSUME NEW c \in Calls, ClientStep(c) PROVE Next
  BY <1>2 DEF ClientStep, Next, Local
<1>3. ASSUME NEW c \in Calls, Dispatch(c) PROVE Next
  BY <1>3 DEF Dispatch, Next
<1>4. ASSUME NEW c \in Calls, Lose(c) PROVE Next
  BY <1>4 DEF Lose, Next
<1>5. ASSUME NEW c \in Calls, NEW r \in Responses, Receive(c, r) PROVE Next
  BY <1>5 DEF Receive, Next
<1>6. ASSUME NEW x \in inbox, Execute(x) PROVE UNCHANGED vars
  BY <1>6 DEF Execute, Reply
<1>7. ASSUME NEW x \in inbox, Refuse(x) PROVE UNCHANGED vars
  BY <1>7 DEF Refuse, Reply
<1>8. CASE Terminated
  BY <1>8 DEF Terminated
<1> QED
  BY <1>1, <1>2, <1>3, <1>4, <1>5, <1>6, <1>7, <1>8 DEF RemoteNext

\* The composition leaves RoundTrip as it is: what is proved of it holds here.
THEOREM RemoteImplements == RemoteSpec => Spec
<1>1. RemoteInit => Init
  BY DEF RemoteInit
<1> QED
  BY <1>1, RemoteRuns, PTL DEF RemoteSpec, Spec

-----------------------------------------------------------------------------
(* What a step of RoundTrip that the server does not see leaves alone *)

Invisible(d) ==
    /\ sent[d] <= sent'[d]
    /\ pc[d] = "flight" <=> pc'[d] = "flight"
    /\ pc[d] = "flight" \/ Returned(d) => sent'[d] = sent[d]
    /\ Returned(d) => Returned(d)' /\ resp'[d] = resp[d]
    /\ Returned(d)' /\ resp'[d] # NoResponse
          => Returned(d) \/ resp'[d].status = 429 \/ resp'[d].status >= 500
    /\ pc'[d] \in {"dial", "flight"}
          => sent'[d] = sent[d] + 1 \/ (pc'[d] = pc[d] /\ sent'[d] = sent[d])

LEMMA StepsInvisible ==
  ASSUME IInv, NEW c \in Calls, ClientStep(c) \/ BufferBody(c), NEW d \in Calls
  PROVE  Invisible(d)
<1> USE DEF Invisible, Returned, Goto, IInv, TypeOK, locals, outside, history
<1>1. CASE BufferBody(c)
  BY <1>1 DEF BufferBody
<1>2. CASE BodyReadFails(c)
  BY <1>2 DEF BodyReadFails, LoopInv, Untried
<1>3. CASE GiveUp(c)
  <2>1. attempt[c] \in Nat /\ attempt[c] > 0
    BY <1>3, LimitType DEF GiveUp
  <2>2. Retrying(c)
    BY <1>3, <2>1 DEF GiveUp, LoopInv, Untried
  <2>3. resp[c] # NoResponse => resp[c].status = 429 \/ resp[c].status >= 500
    BY <2>2 DEF Retrying, Transient
  <2> QED
    BY <1>3, <2>3 DEF GiveUp
<1>4. CASE FirstAttempt(c)
  BY <1>4 DEF FirstAttempt
<1>5. CASE StartBackoff(c)
  BY <1>5 DEF StartBackoff
<1>6. CASE JitterPanics(c)
  BY <1>6 DEF JitterPanics
<1>7. CASE TimerFires(c)
  BY <1>7 DEF TimerFires
<1>8. CASE BackoffCancelled(c)
  BY <1>8 DEF BackoffCancelled
<1>9. CASE Send(c)
  BY <1>9 DEF Send
<1>10. CASE Release(c)
  BY <1>10 DEF Release
<1>11. CASE CloseBody(c)
  BY <1>11 DEF CloseBody
<1>12. CASE Cancel(c)
  BY <1>12 DEF Cancel
<1> QED
  BY <1>1, <1>2, <1>3, <1>4, <1>5, <1>6, <1>7, <1>8, <1>9, <1>10, <1>11, <1>12
  DEF ClientStep
-----------------------------------------------------------------------------
(* The inductive invariant *)

LEMMA RemoteInvInit == RemoteInit => RemoteInv
<1> SUFFICES ASSUME RemoteInit PROVE RemoteInv
  OBVIOUS
<1> QED
  BY DEF RemoteInit, Init, RemoteInv, RemoteTypeOK, AttemptsSent, HandledOnce,
         RepliesTrue, ResultsExplained, RowsExplained, LaterWins, Returned, Row0

\* Steps that only RoundTrip sees keep the invariant, also when a call that had
\* no effect yet learns which calls have succeeded.
LEMMA InvisibleInv ==
  ASSUME IInv, TypeOK', RemoteInv, \A d \in Calls : Invisible(d),
         UNCHANGED <<verb, inbox, replies, rows, value, effects, doubts>>,
         before' \in [Calls -> SUBSET Calls],
         \A d \in Calls : \A c \in before'[d] :
            c \in before[d] \/ (c # d /\ Succeeded(c) /\ \A y \in effects : y[1] # d)
  PROVE  RemoteInv'
<1> USE DEF RemoteInv, RemoteTypeOK, Attempts
<1>1. \A c \in Calls : sent[c] \in Nat /\ sent'[c] \in Nat
  BY DEF IInv, TypeOK
<1>2. \A x \in Attempts : x[1] \in Calls /\ x[2] \in Nat /\ x = <<x[1], x[2]>>
  OBVIOUS
<1>3. \A c \in Calls : Succeeded(c) => Succeeded(c)' /\ Current(c)' = Current(c)
  BY DEF Invisible, Succeeded, Current
<1>4. \A c \in Calls : Succeeded(c)' => Succeeded(c)
  <2> SUFFICES ASSUME NEW c \in Calls, Succeeded(c)' PROVE Succeeded(c)
    OBVIOUS
  <2>1. Success[verb[c]] \in 200 .. 204
    BY DEF Success, Verbs
  <2>2. resp'[c].status = Success[verb[c]] /\ resp'[c] # NoResponse /\ Returned(c)'
    BY DEF Succeeded
  <2>3. Returned(c)
    BY <2>1, <2>2 DEF Invisible
  <2> QED
    BY <2>2, <2>3 DEF Invisible, Succeeded
<1>5. \A x \in Attempts : Awaited(x) <=> Awaited(x)'
  BY <1>2 DEF Invisible, Awaited, Current
<1>6. RemoteTypeOK'
  OBVIOUS
<1>7. AttemptsSent'
  <2> SUFFICES ASSUME NEW x \in inbox \cup effects \cup doubts
               PROVE  x[2] \in 1 .. sent'[x[1]]
    BY DEF AttemptsSent
  <2>1. x[1] \in Calls /\ x[2] \in 1 .. sent[x[1]]
    BY <1>2 DEF AttemptsSent
  <2> QED
    BY <2>1, <1>1 DEF Invisible
<1>8. HandledOnce'
  <2> SUFFICES ASSUME NEW c \in Calls, pc'[c] \in {"dial", "flight"}
               PROVE  <<c, sent'[c]>> \notin doubts
    BY DEF HandledOnce, Current
  <2>1. CASE sent'[c] = sent[c] + 1
    <3>1. SUFFICES ASSUME <<c, sent'[c]>> \in doubts PROVE FALSE
      OBVIOUS
    <3>2. sent'[c] \in 1 .. sent[c]
      BY <3>1 DEF AttemptsSent
    <3> QED
      BY <3>2, <2>1, <1>1
  <2>2. CASE pc'[c] = pc[c] /\ sent'[c] = sent[c]
    BY <2>2 DEF HandledOnce, Current
  <2> QED
    BY <2>1, <2>2 DEF Invisible
<1>9. RepliesTrue'
  <2>1. \A a \in replies : a[1] \in Attempts
    OBVIOUS
  <2> QED
    BY <2>1, <1>5 DEF RepliesTrue, GoneFor, Removed
<1>10. \A x \in inbox \cup effects : Accounted(x)'
  <2> SUFFICES ASSUME NEW x \in inbox \cup effects PROVE Accounted(x)'
    OBVIOUS
  <2>1. x \in Attempts /\ Accounted(x)
    OBVIOUS
  <2> QED
    BY <2>1, <1>2, <1>3, <1>5 DEF Accounted
<1>11. ResultsExplained'
  <2> SUFFICES ASSUME NEW c \in Calls, Returned(c)', resp'[c] # NoResponse
               PROVE  /\ Succeeded(c)' => Current(c)' \in effects
                      /\ resp'[c].status = 404 => GoneFor(c)'
    BY DEF ResultsExplained
  <2>1. Succeeded(c)' => Current(c)' \in effects
    BY <1>3, <1>4 DEF ResultsExplained, Succeeded
  <2>2. resp'[c].status = 404 => GoneFor(c)'
    BY DEF ResultsExplained, Invisible, GoneFor, Removed
  <2> QED
    BY <2>1, <2>2
<1>12. RowsExplained'
  BY DEF RowsExplained, Removed, Row0
<1>13. LaterWins'
  BY <1>3 DEF LaterWins, Reversed
<1> QED
  BY <1>6, <1>7, <1>8, <1>9, <1>10, <1>11, <1>12, <1>13

LEMMA AttemptType ==
  \A x \in Attempts : x[1] \in Calls /\ x[2] \in Nat /\ x = <<x[1], x[2]>>
  BY DEF Attempts

\* The effects of a call that is still trying are in doubt or the awaited attempt's.
LEMMA DialedIsNew ==
  ASSUME IInv, RemoteInv, NEW c \in Calls, pc[c] = "dial"
  PROVE  /\ Current(c) \in Attempts /\ sent[c] > 0
         /\ Current(c) \notin inbox \cup effects \cup doubts
<1>1. sent[c] \in Nat /\ sent[c] > 0
  BY DEF IInv, TypeOK, LoopInv
<1>2. Current(c) \notin doubts
  BY DEF RemoteInv, HandledOnce
<1>3. ~ Awaited(Current(c)) /\ ~ Succeeded(c)
  BY DEF Awaited, Current, Succeeded, Returned
<1> QED
  BY <1>1, <1>2, <1>3 DEF RemoteInv, Accounted, Current, Attempts

\* A request is written: it is new to the server.
LEMMA DispatchInv ==
  ASSUME IInv, RemoteInv, NEW c \in Calls, Dispatch(c)
  PROVE  RemoteInv'
<1> USE DEF RemoteInv, RemoteTypeOK
<1>1. /\ pc[c] = "dial" /\ pc' = [pc EXCEPT ![c] = "flight"] /\ inbox' = inbox \cup {Current(c)}
      /\ UNCHANGED <<resp, sent, verb, replies, rows, value, effects, doubts, before>>
  BY DEF Dispatch, Connect, Goto, history
<1>2. pc = [d \in Calls |-> pc[d]] /\ sent \in [Calls -> Nat]
  BY DEF IInv, TypeOK
<1>3. /\ Current(c) \in Attempts /\ sent[c] > 0
      /\ Current(c) \notin inbox \cup effects \cup doubts
  BY <1>1, DialedIsNew
<1>4. \A d \in Calls : /\ Succeeded(d)' = Succeeded(d)
                        /\ Returned(d)' = Returned(d)
                        /\ Current(d)' = Current(d)
  BY <1>1, <1>2 DEF Succeeded, Returned, Current
<1>5. \A x \in Attempts : Awaited(x)' <=> (Awaited(x) \/ x = Current(c))
  BY <1>1, <1>2, AttemptType DEF Awaited, Current
<1>6. RemoteTypeOK'
  BY <1>1, <1>3
<1>7. AttemptsSent'
  BY <1>1, <1>2, <1>3 DEF AttemptsSent, Current
<1>8. HandledOnce'
  BY <1>1, <1>2, <1>3, <1>4 DEF HandledOnce
<1>9. RepliesTrue'
  <2>1. \A a \in replies : a[1] \in Attempts /\ a[1] # Current(c)
    BY <1>1 DEF RepliesTrue, Awaited, Current
  <2> QED
    BY <2>1, <1>1, <1>5 DEF RepliesTrue, GoneFor, Removed
<1>10. \A x \in inbox' \cup effects' : Accounted(x)'
  <2> SUFFICES ASSUME NEW x \in inbox \cup effects, Accounted(x) PROVE Accounted(x)'
    BY <1>1, <1>3, <1>5 DEF Accounted
  <2>1. x \in Attempts /\ x[1] \in Calls
    BY AttemptType
  <2> QED
    BY <2>1, <1>1, <1>4, <1>5 DEF Accounted
<1>11. ResultsExplained'
  BY <1>1, <1>4 DEF ResultsExplained, GoneFor, Removed
<1>12. RowsExplained'
  BY <1>1 DEF RowsExplained, Removed
<1>13. LaterWins'
  BY <1>1, <1>4 DEF LaterWins, Reversed
<1> QED
  BY <1>6, <1>7, <1>8, <1>9, <1>10, <1>11, <1>12, <1>13

\* An attempt ends without an answer: from now on it is in doubt.
LEMMA LoseInv ==
  ASSUME IInv, RemoteInv, NEW c \in Calls, Lose(c)
  PROVE  RemoteInv'
<1> USE DEF RemoteInv, RemoteTypeOK
<1>1. /\ pc[c] \in {"dial", "flight"} /\ pc' = [pc EXCEPT ![c] = "loop"]
      /\ resp' = [resp EXCEPT ![c] = NoResponse]
      /\ doubts' = IF pc[c] = "flight" THEN doubts \cup {Current(c)} ELSE doubts
      /\ replies' = {a \in replies : a[1] # Current(c)}
      /\ UNCHANGED <<sent, verb, inbox, rows, value, effects, before>>
  BY DEF Lose, Fail, Goto
<1>2. pc = [d \in Calls |-> pc[d]] /\ sent \in [Calls -> Nat] /\ resp = [d \in Calls |-> resp[d]]
  BY DEF IInv, TypeOK
<1>3. Current(c) \in Attempts /\ sent[c] > 0
  BY <1>1, <1>2 DEF IInv, LoopInv, TypeOK, Current, Attempts
<1>4. \A d \in Calls : /\ Succeeded(d)' = Succeeded(d)
                        /\ Returned(d)' = Returned(d)
                        /\ Current(d)' = Current(d)
  BY <1>1, <1>2 DEF Succeeded, Returned, Current
<1>5. \A x \in Attempts : Awaited(x)' <=> Awaited(x) /\ x # Current(c)
  BY <1>1, <1>2, AttemptType DEF Awaited, Current
<1>6. RemoteTypeOK'
  BY <1>1, <1>3
<1>7. AttemptsSent'
  BY <1>1, <1>2, <1>3 DEF AttemptsSent, Current
<1>8. HandledOnce'
  <2> SUFFICES ASSUME NEW d \in Calls, pc'[d] \in {"dial", "flight"}
               PROVE  Current(d) \notin doubts'
    BY <1>1, <1>4 DEF HandledOnce
  <2>1. d # c /\ pc[d] \in {"dial", "flight"}
    BY <1>1, <1>2
  <2> QED
    BY <2>1, <1>1 DEF HandledOnce, Current
<1>9. RepliesTrue'
  <2>1. \A a \in replies : a[1] \in Attempts
    OBVIOUS
  <2>2. doubts \subseteq doubts' /\ replies' \subseteq replies
    BY <1>1
  <2> QED
    BY <2>1, <2>2, <1>1, <1>5 DEF RepliesTrue, GoneFor, Removed
<1>10. \A x \in inbox' \cup effects' : Accounted(x)'
  <2> SUFFICES ASSUME NEW x \in inbox \cup effects, Accounted(x) PROVE Accounted(x)'
    BY <1>1
  <2>1. x \in Attempts /\ x[1] \in Calls
    BY AttemptType
  <2>2. Awaited(x) /\ x = Current(c) => x \in doubts'
    BY <1>1 DEF Awaited, Current
  <2> QED
    BY <2>1, <2>2, <1>1, <1>4, <1>5 DEF Accounted
<1>11. ResultsExplained'
  <2>1. doubts \subseteq doubts'
    BY <1>1
  <2> QED
    BY <2>1, <1>1, <1>4 DEF ResultsExplained, GoneFor, Removed
<1>12. RowsExplained'
  BY <1>1 DEF RowsExplained, Removed
<1>13. LaterWins'
  BY <1>1, <1>4 DEF LaterWins, Reversed
<1> QED
  BY <1>6, <1>7, <1>8, <1>9, <1>10, <1>11, <1>12, <1>13

\* An answer arrives: a success is a true one, a refusal had no effect, and
\* a 5xx leaves the attempt in doubt.
LEMMA ReceiveInv ==
  ASSUME IInv, RemoteInv, NEW c \in Calls, NEW r \in Responses, Receive(c, r)
  PROVE  RemoteInv'
<1> USE DEF RemoteInv, RemoteTypeOK
<1> DEFINE a == <<Current(c), r.status>>
<1>1. /\ pc[c] = "flight"
      /\ pc' = [pc EXCEPT ![c] = IF shouldRetry(r.status) THEN "loop" ELSE "returned"]
      /\ resp' = [resp EXCEPT ![c] = r]
      /\ a \in replies /\ replies' = replies \ {a}
      /\ doubts' = IF r.status >= 500 THEN doubts \cup {Current(c)} ELSE doubts
      /\ UNCHANGED <<sent, verb, inbox, rows, value, effects, before>>
  BY DEF Receive, Respond, Goto
<1>2. pc = [d \in Calls |-> pc[d]] /\ sent \in [Calls -> Nat] /\ resp = [d \in Calls |-> resp[d]]
  BY DEF IInv, TypeOK
<1>3. Current(c) \in Attempts /\ sent[c] > 0
  BY <1>1, <1>2 DEF IInv, LoopInv, TypeOK, Current, Attempts
<1>4. /\ r.status \in {404, 429, 503, Success[verb[c]]}
      /\ Current(c) \notin inbox
      /\ r.status \in {404, 429} => Current(c) \notin effects
      /\ r.status = Success[verb[c]] => Current(c) \in effects
      /\ r.status = 404 => GoneFor(c)
  <2>1. a[1] = Current(c) /\ a[1][1] = c /\ a[2] = r.status
    BY DEF Current
  <2> QED
    BY <1>1, <2>1 DEF RepliesTrue
<1>5. \A d \in Calls \ {c} : /\ Succeeded(d)' = Succeeded(d)
                              /\ Returned(d)' = Returned(d)
                              /\ resp'[d] = resp[d]
  BY <1>1, <1>2 DEF Succeeded, Returned
<1>6. /\ ~ Returned(c) /\ ~ Succeeded(c)
      /\ resp'[c] = r /\ r # NoResponse
      /\ \A d \in Calls : Current(d)' = Current(d)
  BY <1>1, <1>2, TransportAssumption DEF Returned, Succeeded, Current
<1>7. \A x \in Attempts : Awaited(x)' <=> Awaited(x) /\ x # Current(c)
  BY <1>1, <1>2, AttemptType DEF Awaited, Current
<1>8. doubts \subseteq doubts'
  BY <1>1
<1>9. RemoteTypeOK'
  BY <1>1, <1>3
<1>10. AttemptsSent'
  BY <1>1, <1>2, <1>3 DEF AttemptsSent, Current
<1>11. HandledOnce'
  <2> SUFFICES ASSUME NEW d \in Calls, pc'[d] \in {"dial", "flight"}
               PROVE  Current(d) \notin doubts'
    BY <1>1, <1>6 DEF HandledOnce
  <2>1. d # c /\ pc[d] \in {"dial", "flight"}
    BY <1>1, <1>2
  <2> QED
    BY <2>1, <1>1 DEF HandledOnce, Current
<1>12. RepliesTrue'
  <2>1. \A b \in replies' : b \in replies /\ b[1] \in Attempts /\ b[1] # Current(c)
    <3>1. \A b \in replies : a[1] = b[1] => a = b
      BY <1>1 DEF RepliesTrue
    <3> QED
      BY <1>1, <3>1
  <2> QED
    BY <2>1, <1>1, <1>7, <1>8 DEF RepliesTrue, GoneFor, Removed
<1>13. \A x \in inbox' \cup effects' : Accounted(x)'
  <2> SUFFICES ASSUME NEW x \in inbox \cup effects, Accounted(x) PROVE Accounted(x)'
    BY <1>1
  <2>1. x \in Attempts /\ x[1] \in Calls
    BY AttemptType
  <2>2. CASE x = Current(c)
    <3>1. r.status = 503 => x \in doubts'
      BY <2>2, <1>1
    <3>2. r.status = Success[verb[c]] => Succeeded(c)'
      <4>1. Success[verb[c]] \in 200 .. 204
        BY DEF Success, Verbs
      <4> QED
        BY <4>1, <1>1, <1>2, <1>6 DEF Succeeded, Returned, shouldRetry
    <3>3. x[1] = c
      BY <2>2 DEF Current
    <3> QED
      BY <2>2, <3>1, <3>2, <3>3, <1>1, <1>4, <1>6 DEF Accounted
  <2>3. CASE x # Current(c)
    BY <2>1, <2>3, <1>1, <1>5, <1>6, <1>7, <1>8 DEF Accounted
  <2> QED
    BY <2>2, <2>3
<1>14. ResultsExplained'
  <2>1. Succeeded(c)' => Current(c) \in effects
    BY <1>1, <1>4, <1>6 DEF Succeeded
  <2>2. r.status = 404 => GoneFor(c)'
    BY <1>1, <1>4, <1>8 DEF GoneFor, Removed
  <2>3. \A d \in Calls : GoneFor(d) => GoneFor(d)'
    BY <1>1, <1>8 DEF GoneFor, Removed
  <2> QED
    BY <2>1, <2>2, <2>3, <1>1, <1>5, <1>6 DEF ResultsExplained
<1>15. RowsExplained'
  BY <1>1 DEF RowsExplained, Removed
<1>16. LaterWins'
  BY <1>1, <1>5, <1>6, <1>8 DEF LaterWins, Reversed
<1> QED
  BY <1>9, <1>10, <1>11, <1>12, <1>13, <1>14, <1>15, <1>16
-----------------------------------------------------------------------------
(* The server's steps *)

LEMMA VerbsSucceed ==
  ASSUME RemoteTypeOK, NEW c \in Calls
  PROVE  Success[verb[c]] \in {200, 201, 204}
  BY DEF RemoteTypeOK, Success, Verbs

LEMMA UnseenByClient ==
  ASSUME UNCHANGED <<vars, verb>>
  PROVE  /\ \A d \in Calls : /\ Succeeded(d)' = Succeeded(d)
                             /\ Returned(d)' = Returned(d)
                             /\ Current(d)' = Current(d)
         /\ \A x : /\ Awaited(x)' = Awaited(x)
                   /\ Removed(x)' = Removed(x)
  BY DEF vars, locals, outside, history, Succeeded, Returned, Current, Awaited, Removed

\* A write takes effect: it had had none, and it is either awaited or in doubt.
LEMMA ExecuteInv ==
  ASSUME RemoteInv, NEW x \in inbox, Execute(x)
  PROVE  RemoteInv'
<1> USE DEF RemoteInv
<1> DEFINE c == x[1]
<1>1. PICK status \in {Success[verb[c]], 503} : Reply(x, status)
  BY DEF Execute
<1>2. /\ inbox' = inbox \ {x} /\ effects' = effects \cup {x}
      /\ replies' = IF Awaited(x) THEN replies \cup {<<x, status>>} ELSE replies
      /\ UNCHANGED <<vars, verb, doubts, before>>
      /\ pc' = pc /\ resp' = resp /\ sent' = sent
  BY <1>1 DEF Execute, Reply, vars, locals, outside, history
<1>3. x \in Attempts /\ c \in Calls /\ x \notin effects
  BY AttemptType DEF RemoteTypeOK, HandledOnce
<1>4. status \in {Success[verb[c]], 503} /\ Success[verb[c]] \in {200, 201, 204}
  BY <1>3, VerbsSucceed
<1>5. RemoteTypeOK'
  BY <1>2, <1>3, <1>4 DEF RemoteTypeOK
<1>6. AttemptsSent'
  BY <1>2 DEF AttemptsSent
<1>7. HandledOnce'
  BY <1>2, UnseenByClient DEF HandledOnce
<1>8. RepliesTrue'
  <2> SUFFICES ASSUME NEW a \in replies'
               PROVE  /\ Awaited(a[1]) /\ a[1] \notin inbox'
                      /\ a[2] \in {404, 429, 503, Success[verb[a[1][1]]]}
                      /\ a[2] \in {404, 429} => a[1] \notin effects'
                      /\ a[2] = Success[verb[a[1][1]]] => a[1] \in effects'
                      /\ a[2] = 404 => GoneFor(a[1][1])'
                      /\ \A b \in replies' : a[1] = b[1] => a = b
    BY <1>2, UnseenByClient DEF RepliesTrue
  <2>1. \A d : GoneFor(d) => GoneFor(d)'
    BY <1>2 DEF GoneFor, Removed
  <2>2. \A b \in replies : b[1] # x
    BY DEF RepliesTrue
  <2>3. CASE a \in replies
    BY <2>1, <2>2, <2>3, <1>2 DEF RepliesTrue
  <2>4. CASE a = <<x, status>> /\ Awaited(x)
    BY <2>2, <2>4, <1>2, <1>3, <1>4
  <2> QED
    BY <2>3, <2>4, <1>2
<1>9. \A y \in inbox' \cup effects' : Accounted(y)'
  <2> SUFFICES ASSUME NEW y \in inbox \cup effects PROVE Accounted(y)'
    BY <1>2
  <2>1. y[1] \in Calls /\ Accounted(y)
    BY AttemptType DEF RemoteTypeOK
  <2> QED
    BY <2>1, <1>2, UnseenByClient DEF Accounted
<1>10. ResultsExplained'
  <2>1. \A d : GoneFor(d) => GoneFor(d)'
    BY <1>2 DEF GoneFor, Removed
  <2> QED
    BY <2>1, <1>2, UnseenByClient DEF ResultsExplained
<1>11. RowsExplained'
  <2>1. CASE verb[c] \in {"Create", "Update"}
    BY <2>1, <1>2 DEF Execute, RowsExplained, Removed
  <2>2. CASE verb[c] \in {"Delete", "Replace"}
    BY <2>2, <1>2 DEF RowsExplained, Removed
  <2> QED
    BY <2>1, <2>2, <1>3 DEF RemoteTypeOK, Verbs
<1>12. LaterWins'
  <2> SUFFICES ASSUME NEW d \in Calls, NEW e \in before[d]
               PROVE  /\ e # d /\ Succeeded(e)
                      /\ verb[d] = "Update" /\ value' = e /\ (\E y \in effects' : y[1] = d)
                            => Reversed(e)'
    BY <1>2, UnseenByClient DEF LaterWins, RemoteTypeOK
  <2>1. e # d /\ Succeeded(e)
    BY DEF LaterWins
  <2>2. ASSUME verb[d] = "Update", value' = e, NEW y \in effects', y[1] = d
        PROVE  Reversed(e)'
    <3>1. CASE verb[c] = "Update"
      <4>1. e = c
        BY <2>2, <3>1 DEF Execute
      <4>2. x \in doubts
        BY <4>1, <2>1, <1>3 DEF Accounted, Awaited, Succeeded, Returned
      <4> QED
        BY <4>1, <4>2, <1>2 DEF Reversed
    <3>2. CASE verb[c] # "Update"
      <4>1. value = e /\ y \in effects
        BY <2>2, <3>2, <1>2 DEF Execute
      <4>2. Reversed(e)
        BY <4>1, <2>2 DEF LaterWins
      <4> QED
        BY <4>2, <1>2 DEF Reversed
    <3> QED
      BY <3>1, <3>2
  <2> QED
    BY <2>1, <2>2
<1> QED
  BY <1>5, <1>6, <1>7, <1>8, <1>9, <1>10, <1>11, <1>12

\* A refusal has no effect; a 404 is answered when a write has removed the row.
LEMMA RefuseInv ==
  ASSUME RemoteInv, NEW x \in inbox, Refuse(x)
  PROVE  RemoteInv'
<1> USE DEF RemoteInv
<1> DEFINE c == x[1]
<1>1. PICK status \in {429, 503} \cup (IF Missing(x) THEN {404} ELSE {}) : Reply(x, status)
  BY DEF Refuse
<1>2. /\ inbox' = inbox \ {x}
      /\ replies' = IF Awaited(x) THEN replies \cup {<<x, status>>} ELSE replies
      /\ UNCHANGED <<vars, verb, rows, value, effects, doubts, before>>
      /\ pc' = pc /\ resp' = resp /\ sent' = sent
  BY <1>1 DEF Refuse, Reply, vars, locals, outside, history
<1>3. x \in Attempts /\ c \in Calls /\ x \notin effects
  BY AttemptType DEF RemoteTypeOK, HandledOnce
<1>4. status \in {404, 429, 503} /\ Success[verb[c]] \in {200, 201, 204}
  BY <1>3, VerbsSucceed
<1>5. RemoteTypeOK'
  BY <1>2, <1>3, <1>4 DEF RemoteTypeOK
<1>6. AttemptsSent'
  BY <1>2 DEF AttemptsSent
<1>7. HandledOnce'
  BY <1>2, UnseenByClient DEF HandledOnce
<1>8. ASSUME Awaited(x), status = 404 PROVE GoneFor(c)
  <2>1. PICK y \in effects : Removed(y)
    BY <1>8, <1>1 DEF Missing, RowsExplained
  <2>2. y \in doubts \/ Awaited(y) \/ Succeeded(y[1])
    BY DEF Accounted
  <2>3. y[1] = c => y \in doubts
    BY <2>2, <1>3, <1>8 DEF Awaited, Succeeded, Returned
  <2> QED
    BY <2>1, <2>3 DEF GoneFor
<1>9. RepliesTrue'
  <2> SUFFICES ASSUME NEW a \in replies'
               PROVE  /\ Awaited(a[1]) /\ a[1] \notin inbox'
                      /\ a[2] \in {404, 429, 503, Success[verb[a[1][1]]]}
                      /\ a[2] \in {404, 429} => a[1] \notin effects
                      /\ a[2] = Success[verb[a[1][1]]] => a[1] \in effects
                      /\ a[2] = 404 => GoneFor(a[1][1])
                      /\ \A b \in replies' : a[1] = b[1] => a = b
    BY <1>2, UnseenByClient DEF RepliesTrue, GoneFor
  <2>1. \A b \in replies : b[1] # x
    BY DEF RepliesTrue
  <2>2. CASE a \in replies
    BY <2>1, <2>2, <1>2 DEF RepliesTrue
  <2>3. CASE a = <<x, status>> /\ Awaited(x)
    BY <2>1, <2>3, <1>2, <1>3, <1>4, <1>8
  <2> QED
    BY <2>2, <2>3, <1>2
<1>10. \A y \in inbox' \cup effects' : Accounted(y)'
  <2> SUFFICES ASSUME NEW y \in inbox \cup effects PROVE Accounted(y)'
    BY <1>2
  <2>1. y[1] \in Calls /\ Accounted(y)
    BY AttemptType DEF RemoteTypeOK
  <2> QED
    BY <2>1, <1>2, UnseenByClient DEF Accounted
<1>11. ResultsExplained' /\ RowsExplained' /\ LaterWins'
  BY <1>2, UnseenByClient
  DEF ResultsExplained, RowsExplained, LaterWins, GoneFor, Reversed, RemoteTypeOK
<1> QED
  BY <1>5, <1>6, <1>7, <1>9, <1>10, <1>11
-----------------------------------------------------------------------------
(* Every step keeps the invariant *)

\* A call that begins has had no effect, and was not among those that succeeded.
LEMMA BeginInv ==
  ASSUME IInv, TypeOK', RemoteInv, NEW c \in Calls, Begin(c)
  PROVE  RemoteInv'
<1>1. \A d \in Calls : Invisible(d)
  BY StepsInvisible DEF Begin
<1>2. pc[c] = "idle" /\ sent[c] = 0
  <2>1. pc[c] = "idle" /\ LoopInv(c)
    BY DEF Begin, BufferBody, Goto, IInv
  <2> QED
    BY <2>1 DEF LoopInv, Untried
<1>3. \A y \in effects : y[1] # c
  BY <1>2 DEF RemoteInv, AttemptsSent
<1>4. before' = [before EXCEPT ![c] = {d \in Calls : Succeeded(d)}]
  BY DEF Begin
<1>5. before \in [Calls -> SUBSET Calls]
  BY DEF RemoteInv, RemoteTypeOK
<1>6. ~ Succeeded(c)
  BY <1>2 DEF Succeeded, Returned
<1>7. \A d \in Calls : \A e \in before'[d] :
         e \in before[d] \/ (e # d /\ Succeeded(e) /\ \A y \in effects : y[1] # d)
  BY <1>3, <1>4, <1>5, <1>6
<1> QED
  BY <1>1, <1>4, <1>5, <1>7, InvisibleInv DEF Begin

LEMMA ClientStepInv ==
  ASSUME IInv, TypeOK', RemoteInv, NEW c \in Calls, ClientStep(c)
  PROVE  RemoteInv'
<1>1. \A d \in Calls : Invisible(d)
  BY StepsInvisible
<1>2. UNCHANGED remote
  BY DEF ClientStep
<1> QED
  BY <1>1, <1>2, InvisibleInv DEF remote, RemoteInv, RemoteTypeOK

LEMMA StutterInv ==
  ASSUME RemoteInv, UNCHANGED <<vars, remote>>
  PROVE  RemoteInv'
<1>1. /\ pc' = pc /\ resp' = resp /\ sent' = sent
      /\ UNCHANGED <<verb, inbox, replies, rows, value, effects, doubts, before>>
      /\ UNCHANGED <<vars, verb>>
  BY DEF vars, locals, outside, history, remote
<1> USE DEF RemoteInv
<1>2. RemoteTypeOK' /\ AttemptsSent' /\ RowsExplained'
  BY <1>1, UnseenByClient DEF RemoteTypeOK, AttemptsSent, RowsExplained
<1>3. HandledOnce' /\ ResultsExplained' /\ LaterWins'
  BY <1>1, UnseenByClient
  DEF RemoteTypeOK, HandledOnce, ResultsExplained, LaterWins, GoneFor, Reversed
<1>4. RepliesTrue'
  BY <1>1, UnseenByClient DEF RepliesTrue, GoneFor
<1>5. \A x \in inbox' \cup effects' : Accounted(x)'
  <2> SUFFICES ASSUME NEW x \in inbox \cup effects PROVE Accounted(x)'
    BY <1>1
  <2>1. x[1] \in Calls /\ Accounted(x)
    BY AttemptType DEF RemoteTypeOK
  <2> QED
    BY <2>1, <1>1, UnseenByClient DEF Accounted
<1> QED
  BY <1>2, <1>3, <1>4, <1>5

LEMMA RemoteInvStep == IInv /\ RemoteInv /\ [RemoteNext]_<<vars, remote>> => RemoteInv'
<1> SUFFICES ASSUME IInv, RemoteInv, [RemoteNext]_<<vars, remote>> PROVE RemoteInv'
  OBVIOUS
<1>1. TypeOK'
  BY RemoteRuns, InvStep DEF IInv
<1>2. ASSUME NEW c \in Calls, Begin(c) PROVE RemoteInv'
  BY <1>1, <1>2, BeginInv
<1>3. ASSUME NEW c \in Calls, ClientStep(c) PROVE RemoteInv'
  BY <1>1, <1>3, ClientStepInv
<1>4. ASSUME NEW c \in Calls, Dispatch(c) PROVE RemoteInv'
  BY <1>4, DispatchInv
<1>5. ASSUME NEW c \in Calls, Lose(c) PROVE RemoteInv'
  BY <1>5, LoseInv
<1>6. ASSUME NEW c \in Calls, NEW r \in Responses, Receive(c, r) PROVE RemoteInv'
  BY <1>6, ReceiveInv
<1>7. ASSUME NEW x \in inbox, Execute(x) PROVE RemoteInv'
  BY <1>7, ExecuteInv
<1>8. ASSUME NEW x \in inbox, Refuse(x) PROVE RemoteInv'
  BY <1>8, RefuseInv
<1>9. CASE UNCHANGED <<vars, remote>>
  BY <1>9, StutterInv
<1>10. CASE Terminated /\ UNCHANGED remote
  BY <1>10, StutterInv DEF Terminated
<1> QED
  BY <1>2, <1>3, <1>4, <1>5, <1>6, <1>7, <1>8, <1>9, <1>10 DEF RemoteNext

\* Every request, effect, answer and result belongs to an attempt that RoundTrip
\* made and accounts for.
THEOREM RemoteInvariance == RemoteSpec => []RemoteInv
<1>1. RemoteSpec => []IInv
  BY RemoteImplements, Invariance, PTL
<1> QED
  BY <1>1, RemoteInvInit, RemoteInvStep, PTL DEF RemoteSpec

-----------------------------------------------------------------------------
(* What follows from it *)

LEMMA InvEffects == RemoteInv => EffectsExplained
<1> SUFFICES ASSUME RemoteInv PROVE EffectsExplained
  OBVIOUS
<1> USE DEF RemoteInv, RemoteTypeOK
<1>1. \A x \in effects : x \in doubts \/ x = Current(x[1])
  BY DEF Accounted, Awaited
<1>2. ASSUME NEW d \in Calls, NEW c \in before[d],
             Succeeded(d), verb[d] = "Update", value = c
      PROVE  Reversed(c)
  <2>1. Current(d) \in effects /\ Current(d)[1] = d
    BY <1>2 DEF ResultsExplained, Succeeded, Current
  <2> QED
    BY <1>2, <2>1 DEF LaterWins
<1> QED
  BY <1>1, <1>2 DEF EffectsExplained

\* A write takes effect again only after an attempt in doubt, and a later update
\* gives way to an earlier, acknowledged one only through such an attempt.
THEOREM Effects == RemoteSpec => []EffectsExplained
  BY RemoteInvariance, InvEffects, PTL

\* What RoundTrip returns is true of the server: an acknowledged write took
\* effect, and a 404 means that a write had removed the row.
THEOREM Results == RemoteSpec => []ResultsExplained
<1>1. RemoteInv => ResultsExplained
  BY DEF RemoteInv
<1> QED
  BY <1>1, RemoteInvariance, PTL
=============================================================================
