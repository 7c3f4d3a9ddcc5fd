------------------------------ MODULE WriteProofs ------------------------------
(* Retried writes implement WriteContract, for any number of calls and scenarios. *)
EXTENDS RemoteProofs, FiniteSetTheorems

-----------------------------------------------------------------------------
(* Counting the attempts of a call *)

By(c, attempts) == {x \in attempts : x[1] = c}

\* The counts are of finite sets.
Countable(attempts) == \A c \in Calls : IsFiniteSet(By(c, attempts))

LEMMA OfEmpty == \A c \in Calls : Of(c, {}) = 0
<1>1. \A c \in Calls : {x \in {} : x[1] = c} = {}
  OBVIOUS
<1> QED
  BY <1>1, FS_EmptySet DEF Of

LEMMA OfType ==
  ASSUME NEW A, Countable(A), NEW c \in Calls
  PROVE  Of(c, A) \in Nat
  BY FS_CardinalityType DEF Of, By, Countable

\* One more attempt counts for its call, and for no other.
LEMMA OfAdded ==
  ASSUME NEW A, Countable(A), NEW x, x \notin A, x[1] \in Calls, NEW c \in Calls
  PROVE  Of(c, A \cup {x}) = Of(c, A) + (IF c = x[1] THEN 1 ELSE 0)
<1>1. CASE c = x[1]
  <2>1. By(c, A \cup {x}) = By(c, A) \cup {x} /\ x \notin By(c, A) /\ IsFiniteSet(By(c, A))
    BY <1>1 DEF By, Countable
  <2>2. Cardinality(By(c, A) \cup {x}) = Cardinality(By(c, A)) + 1
    BY <2>1, FS_AddElement
  <2> QED
    BY <1>1, <2>1, <2>2 DEF Of, By
<1>2. CASE c # x[1]
  <2>1. By(c, A \cup {x}) = By(c, A)
    BY <1>2 DEF By
  <2>2. Of(c, A \cup {x}) = Of(c, A)
    BY <2>1 DEF Of, By
  <2>3. Of(c, A) \in Nat
    BY OfType
  <2> QED
    BY <1>2, <2>2, <2>3
<1> QED
  BY <1>1, <1>2

LEMMA OfWithin ==
  ASSUME NEW A, NEW B, Countable(B), NEW c \in Calls, By(c, A) \subseteq By(c, B)
  PROVE  Of(c, A) <= Of(c, B)
  BY FS_Subset DEF Of, By, Countable

LEMMA Counted ==
  ASSUME IInv, RemoteInv
  PROVE  Countable(effects) /\ Countable(doubts)
<1>1. ASSUME NEW A, A \subseteq Attempts, \A x \in A : x[2] \in 1 .. sent[x[1]]
      PROVE  Countable(A)
  <2> SUFFICES ASSUME NEW c \in Calls PROVE IsFiniteSet(By(c, A))
    BY DEF Countable
  <2>1. sent[c] \in Nat
    BY DEF IInv, TypeOK
  <2>2. IsFiniteSet({c} \X (1 .. sent[c]))
    <3>1. IsFiniteSet({c})
      BY FS_Singleton
    <3>2. IsFiniteSet(1 .. sent[c])
      BY <2>1, FS_Interval
    <3> QED
      BY <3>1, <3>2, FS_Product
  <2>3. By(c, A) \subseteq {c} \X (1 .. sent[c])
    BY <1>1, AttemptType DEF By
  <2> QED
    BY <2>2, <2>3, FS_Subset
<1> QED
  BY <1>1 DEF RemoteInv, RemoteTypeOK, AttemptsSent

-----------------------------------------------------------------------------
(* The steps of the contract *)

LEMMA Stutters ==
  ASSUME UNCHANGED <<effects, doubts>>, Told' = Told
  PROVE  UNCHANGED Write!vars
  BY DEF Write!vars, Applied, Doubtful

\* An attempt whose outcome stays unknown while the call goes on.
LEMMA Doubts ==
  ASSUME IInv, RemoteInv, NEW c \in Calls, Told[c] = "open", Told' = Told, effects' = effects,
         Current(c) \notin doubts, doubts' = doubts \cup {Current(c)}
  PROVE  Write!Doubt(c)
<1>1. \A d \in Calls : Of(d, doubts') = Of(d, doubts) + (IF d = c THEN 1 ELSE 0)
  BY Counted, OfAdded DEF Current
<1>2. \A d \in Calls : Of(d, doubts) \in Nat
  BY Counted, OfType
<1>3. Doubtful' = [Doubtful EXCEPT ![c] = @ + 1]
  <2>1. Of(c, doubts') = Of(c, doubts) + 1 /\ \A d \in Calls \ {c} : Of(d, doubts') = Of(d, doubts)
    BY <1>1, <1>2
  <2> QED
    BY <2>1 DEF Doubtful
<1>4. Applied' = Applied
  BY DEF Applied
<1> QED
  BY <1>3, <1>4 DEF Write!Doubt

\* A call that ends without a success has left every effect it had in doubt.
LEMMA GivesUp ==
  ASSUME IInv, RemoteInv, NEW c \in Calls, Told[c] = "open",
         Told' = [Told EXCEPT ![c] = "not done"], UNCHANGED <<effects, doubts>>,
         By(c, effects) \subseteq By(c, doubts)
  PROVE  Write!GiveUp(c)
<1>1. Applied' = Applied /\ Doubtful' = Doubtful
  BY DEF Applied, Doubtful
<1>2. Applied[c] <= Doubtful[c]
  BY Counted, OfWithin DEF Applied, Doubtful
<1> QED
  BY <1>1, <1>2 DEF Write!GiveUp

LEMMA Acknowledges ==
  ASSUME IInv, RemoteInv, NEW c \in Calls, Told[c] = "open",
         Told' = [Told EXCEPT ![c] = "done"], UNCHANGED <<effects, doubts>>,
         Current(c) \in effects
  PROVE  Write!Acknowledge(c)
<1>1. Applied' = Applied /\ Doubtful' = Doubtful
  BY DEF Applied, Doubtful
<1>2. Applied[c] > 0
  <2>1. IsFiniteSet(By(c, effects)) /\ By(c, effects) # {}
    BY Counted DEF Countable, By, Current
  <2>2. Cardinality(By(c, effects)) # 0 /\ Cardinality(By(c, effects)) \in Nat
    BY <2>1, FS_EmptySet, FS_CardinalityType
  <2> QED
    BY <2>2 DEF Applied, Of, By
<1> QED
  BY <1>1, <1>2 DEF Write!Acknowledge

\* The effects that are possible are those of attempts in doubt and, unless the
\* caller was told otherwise, of the latest one.
LEMMA Applies ==
  ASSUME IInv, RemoteInv, NEW x \in inbox, effects' = effects \cup {x}, doubts' = doubts,
         Told' = Told
  PROVE  Write!Apply(x[1])
<1> DEFINE c == x[1]
<1>1. c \in Calls /\ x \notin effects /\ Countable(effects) /\ Countable(doubts)
  BY Counted, AttemptType DEF RemoteInv, RemoteTypeOK, HandledOnce
<1>2. \A d \in Calls : Of(d, effects') = Of(d, effects) + (IF d = c THEN 1 ELSE 0)
  BY <1>1, OfAdded
<1>3. Of(c, effects) \in Nat /\ Of(c, effects') = Of(c, effects) + 1 /\ Of(c, doubts) \in Nat
  BY <1>1, <1>2, OfType
<1>4. Applied' = [Applied EXCEPT ![c] = @ + 1] /\ Doubtful' = Doubtful
  BY <1>1, <1>2, OfType DEF Applied, Doubtful
<1>5. \A y \in By(c, effects') : y[1] = c /\ Accounted(y)
  BY DEF By, RemoteInv
<1>6. CASE Told[c] \in {"open", "done"}
  <2>1. CASE Current(c) \in doubts
    <3>1. By(c, effects') \subseteq By(c, doubts)
      BY <1>5, <2>1 DEF Accounted, Awaited, By
    <3>2. Of(c, effects') <= Of(c, doubts)
      BY <1>1, <3>1, OfWithin
    <3>3. Applied[c] < Doubtful[c] + 1
      BY <1>1, <1>3, <3>2 DEF Applied, Doubtful
    <3> QED
      BY <1>4, <1>6, <3>3 DEF Write!Apply
  <2>2. CASE Current(c) \notin doubts
    <3>1. By(c, effects') \subseteq By(c, doubts \cup {Current(c)})
      BY <1>5 DEF Accounted, Awaited, By
    <3>2. /\ Of(c, doubts \cup {Current(c)}) = Of(c, doubts) + 1
          /\ Countable(doubts \cup {Current(c)})
      <4>1. Current(c)[1] = c
        BY DEF Current
      <4>2. \A d \in Calls : By(d, doubts \cup {Current(c)}) \in {By(d, doubts), By(d, doubts) \cup {Current(c)}}
        BY DEF By
      <4>3. Countable(doubts \cup {Current(c)})
        <5> SUFFICES ASSUME NEW d \in Calls PROVE IsFiniteSet(By(d, doubts \cup {Current(c)}))
          BY DEF Countable
        <5>1. IsFiniteSet(By(d, doubts)) /\ IsFiniteSet(By(d, doubts) \cup {Current(c)})
          BY <1>1, FS_AddElement DEF Countable
        <5> QED
          BY <4>2, <5>1
      <4> QED
        BY <1>1, <2>2, <4>1, <4>3, OfAdded
    <3>3. Of(c, effects') <= Of(c, doubts) + 1
      BY <1>1, <3>1, <3>2, OfWithin
    <3>4. Applied[c] < Doubtful[c] + 1
      BY <1>1, <1>3, <3>3 DEF Applied, Doubtful
    <3> QED
      BY <1>4, <1>6, <3>4 DEF Write!Apply
  <2> QED
    BY <2>1, <2>2
<1>7. CASE Told[c] \notin {"open", "done"}
  <2>1. ~ Succeeded(c) /\ pc[c] # "flight"
    BY <1>1, <1>7 DEF Told, Returned
  <2>2. By(c, effects') \subseteq By(c, doubts)
    BY <1>5, <2>1 DEF Accounted, Awaited, By
  <2>3. Of(c, effects') <= Of(c, doubts)
    BY <1>1, <2>2, OfWithin
  <2>4. Applied[c] < Doubtful[c] + 0
    BY <1>1, <1>3, <2>3 DEF Applied, Doubtful
  <2> QED
    BY <1>4, <1>7, <2>4 DEF Write!Apply
<1> QED
  BY <1>6, <1>7

-----------------------------------------------------------------------------
(* Every step is one of the contract or none *)

\* A step that the server does not see ends a call without a success, or leaves
\* open what was open.
LEMMA ClientTells ==
  ASSUME IInv, IInv', RemoteInv, NEW c \in Calls, ClientStep(c) \/ BufferBody(c), UNCHANGED verb
  PROVE  \/ Told' = Told
         \/ /\ Told[c] = "open" /\ pc[c] # "flight"
            /\ Told' = [Told EXCEPT ![c] = "not done"]
<1>1. \A d \in Calls : Invisible(d)
  BY StepsInvisible
<1>2. \A d \in Calls : Succeeded(d)' <=> Succeeded(d)
  <2> SUFFICES ASSUME NEW d \in Calls PROVE Succeeded(d)' <=> Succeeded(d)
    OBVIOUS
  <2>1. Success[verb[d]] \in {200, 201, 204}
    BY VerbsSucceed DEF RemoteInv
  <2>2. Success[verb[d]] # 429 /\ ~ (Success[verb[d]] >= 500)
    BY <2>1
  <2> QED
    BY <1>1, <2>2 DEF Invisible, Succeeded
<1>3. ASSUME NEW d \in Calls, d # c PROVE pc'[d] = pc[d]
  BY <1>3 DEF ClientStep, BufferBody, BodyReadFails, GiveUp, FirstAttempt, StartBackoff, JitterPanics,
              TimerFires, BackoffCancelled, Send, Release, CloseBody, Cancel, Goto, IInv, TypeOK
<1>4. Returned(c) => Returned(c)'
  BY <1>1 DEF Invisible
<1>5. pc[c] = "panicked" => pc'[c] = "panicked"
  BY DEF ClientStep, BufferBody, BodyReadFails, GiveUp, FirstAttempt, StartBackoff, JitterPanics,
         TimerFires, BackoffCancelled, Send, Release, CloseBody, Cancel, Goto
<1>6. pc[c] = "flight" => pc'[c] = "flight"
  BY <1>1 DEF Invisible
<1>7. \A d \in Calls \ {c} : Told'[d] = Told[d]
  BY <1>2, <1>3 DEF Told, Returned
<1>8. Told'[c] = Told[c] \/ (Told[c] = "open" /\ pc[c] # "flight" /\ Told'[c] = "not done")
  BY <1>2, <1>4, <1>5, <1>6 DEF Told, Returned
<1> QED
  BY <1>7, <1>8 DEF Told

\* Between its attempts, a call that has not succeeded has only effects in doubt.
LEMMA OpenInDoubt ==
  ASSUME RemoteInv, NEW c \in Calls, Told[c] = "open", pc[c] # "flight"
  PROVE  By(c, effects) \subseteq By(c, doubts)
<1>1. ~ Succeeded(c)
  BY DEF Told
<1> QED
  BY <1>1 DEF By, RemoteInv, Accounted, Awaited

LEMMA ReceiveRefines ==
  ASSUME IInv, RemoteInv, NEW c \in Calls, NEW r \in Responses, Receive(c, r)
  PROVE  Write!Next \/ UNCHANGED Write!vars
<1>1. /\ pc[c] = "flight"
      /\ pc' = [pc EXCEPT ![c] = IF shouldRetry(r.status) THEN "loop" ELSE "returned"]
      /\ resp' = [resp EXCEPT ![c] = r] /\ <<Current(c), r.status>> \in replies
      /\ doubts' = IF r.status >= 500 THEN doubts \cup {Current(c)} ELSE doubts
      /\ UNCHANGED <<verb, effects>>
  BY DEF Receive, Respond, Goto
<1>2. DOMAIN pc = Calls /\ DOMAIN resp = Calls /\ r # NoResponse
  BY TransportAssumption DEF IInv, TypeOK
<1>3. /\ r.status \in {404, 429, 503, Success[verb[c]]}
      /\ r.status = 404 => Current(c) \notin effects
      /\ r.status = Success[verb[c]] => Current(c) \in effects
  <2>1. PICK a \in replies : a[1] = Current(c) /\ a[1][1] = c /\ a[2] = r.status
    BY <1>1 DEF Current
  <2> QED
    BY <2>1 DEF RemoteInv, RepliesTrue
<1>4. Success[verb[c]] \in {200, 201, 204}
  BY VerbsSucceed DEF RemoteInv
<1>5. \A d \in Calls \ {c} : Told'[d] = Told[d]
  BY <1>1, <1>2 DEF Told, Succeeded, Returned
<1>6. Told[c] = "open"
  BY <1>1 DEF Told, Succeeded, Returned
<1>7. CASE r.status = 503
  <2>1. pc'[c] = "loop" /\ doubts' = doubts \cup {Current(c)} /\ Current(c) \notin doubts
    BY <1>1, <1>2, <1>7 DEF shouldRetry, RemoteInv, HandledOnce
  <2>2. Told' = Told
    BY <1>5, <1>6, <2>1 DEF Told, Succeeded, Returned
  <2> QED
    BY <1>1, <1>6, <2>1, <2>2, Doubts DEF Write!Next
<1>8. CASE r.status = 429
  <2>1. pc'[c] = "loop" /\ doubts' = doubts
    BY <1>1, <1>2, <1>8 DEF shouldRetry
  <2>2. Told' = Told
    BY <1>5, <1>6, <2>1 DEF Told, Succeeded, Returned
  <2> QED
    BY <1>1, <2>1, <2>2, Stutters
<1>9. CASE r.status = 404
  <2>1. pc'[c] = "returned" /\ doubts' = doubts /\ resp'[c] = r
    BY <1>1, <1>2, <1>9 DEF shouldRetry
  <2>2. ~ Succeeded(c)' /\ Returned(c)'
    BY <1>1, <1>4, <1>9, <2>1 DEF Succeeded, Returned
  <2>3. Told' = [Told EXCEPT ![c] = "not done"]
    BY <1>5, <2>2 DEF Told
  <2>4. By(c, effects) \subseteq By(c, doubts)
    <3>1. ~ Succeeded(c)
      BY <1>1 DEF Succeeded, Returned
    <3> QED
      BY <1>3, <1>9, <3>1 DEF By, RemoteInv, Accounted, Awaited
  <2> QED
    BY <1>1, <1>6, <2>1, <2>3, <2>4, GivesUp DEF Write!Next
<1>10. CASE r.status = Success[verb[c]]
  <2>1. pc'[c] = "returned" /\ doubts' = doubts /\ resp'[c] = r
    BY <1>1, <1>2, <1>4, <1>10 DEF shouldRetry
  <2>2. Succeeded(c)'
    BY <1>1, <1>2, <1>10, <2>1 DEF Succeeded, Returned
  <2>3. Told' = [Told EXCEPT ![c] = "done"]
    BY <1>5, <2>2 DEF Told
  <2> QED
    BY <1>1, <1>3, <1>6, <1>10, <2>1, <2>3, Acknowledges DEF Write!Next
<1> QED
  BY <1>3, <1>7, <1>8, <1>9, <1>10

LEMMA LoseRefines ==
  ASSUME IInv, RemoteInv, NEW c \in Calls, Lose(c)
  PROVE  Write!Next \/ UNCHANGED Write!vars
<1>1. /\ pc[c] \in {"dial", "flight"} /\ pc' = [pc EXCEPT ![c] = "loop"]
      /\ resp' = [resp EXCEPT ![c] = NoResponse]
      /\ doubts' = IF pc[c] = "flight" THEN doubts \cup {Current(c)} ELSE doubts
      /\ UNCHANGED <<verb, effects>>
  BY DEF Lose, Fail, Goto
<1>2. DOMAIN pc = Calls /\ DOMAIN resp = Calls
  BY DEF IInv, TypeOK
<1>3. \A d \in Calls : Told'[d] = Told[d]
  BY <1>1, <1>2 DEF Told, Succeeded, Returned
<1>4. Told' = Told /\ Told[c] = "open"
  BY <1>1, <1>3 DEF Told, Succeeded, Returned
<1>5. CASE pc[c] = "flight"
  <2>1. Current(c) \notin doubts
    BY <1>5 DEF RemoteInv, HandledOnce
  <2> QED
    BY <1>1, <1>4, <1>5, <2>1, Doubts DEF Write!Next
<1>6. CASE pc[c] # "flight"
  BY <1>1, <1>4, <1>6, Stutters
<1> QED
  BY <1>5, <1>6

\* A connected request is under way: nothing is told and nothing happened yet.
LEMMA DispatchStutters ==
  ASSUME IInv, NEW c \in Calls, Dispatch(c)
  PROVE  UNCHANGED Write!vars
<1>1. /\ pc[c] = "dial" /\ pc' = [pc EXCEPT ![c] = "flight"]
      /\ UNCHANGED <<resp, verb, effects, doubts>>
  BY DEF Dispatch, Connect, Goto
<1>2. DOMAIN pc = Calls
  BY DEF IInv, TypeOK
<1>3. Told' = Told
  BY <1>1, <1>2 DEF Told, Succeeded, Returned
<1> QED
  BY <1>1, <1>3, Stutters

LEMMA WriteStep ==
  IInv /\ IInv' /\ RemoteInv /\ [RemoteNext]_<<vars, remote>> => [Write!Next]_Write!vars
<1> SUFFICES ASSUME IInv, IInv', RemoteInv, [RemoteNext]_<<vars, remote>>
             PROVE  Write!Next \/ UNCHANGED Write!vars
  OBVIOUS
<1>1. ASSUME NEW c \in Calls, Begin(c) \/ ClientStep(c) PROVE Write!Next \/ UNCHANGED Write!vars
  <2>1. UNCHANGED <<verb, effects, doubts>> /\ (ClientStep(c) \/ BufferBody(c))
    BY <1>1 DEF Begin, ClientStep, remote
  <2>2. CASE Told' = Told
    BY <2>1, <2>2, Stutters
  <2>3. CASE Told' # Told
    BY <2>1, <2>3, ClientTells, OpenInDoubt, GivesUp DEF Write!Next
  <2> QED
    BY <2>2, <2>3
<1>2. ASSUME NEW c \in Calls, Dispatch(c) PROVE UNCHANGED Write!vars
  BY <1>2, DispatchStutters
<1>3. ASSUME NEW c \in Calls, Lose(c) PROVE Write!Next \/ UNCHANGED Write!vars
  BY <1>3, LoseRefines
<1>4. ASSUME NEW c \in Calls, NEW r \in Responses, Receive(c, r)
      PROVE  Write!Next \/ UNCHANGED Write!vars
  BY <1>4, ReceiveRefines
<1>5. ASSUME UNCHANGED <<vars, verb>> PROVE Told' = Told
  <2>1. \A d \in Calls : Succeeded(d)' = Succeeded(d) /\ Returned(d)' = Returned(d) /\ pc' = pc
    BY <1>5, UnseenByClient DEF vars
  <2> QED
    BY <2>1 DEF Told
<1>6. ASSUME NEW x \in inbox, Execute(x) PROVE Write!Next
  <2>1. UNCHANGED <<vars, verb, doubts>> /\ effects' = effects \cup {x}
    BY <1>6 DEF Execute, Reply
  <2>2. x[1] \in Calls
    BY <1>6, AttemptType DEF RemoteInv, RemoteTypeOK
  <2> QED
    BY <1>5, <2>1, <2>2, Applies DEF Write!Next
<1>7. ASSUME NEW x \in inbox, Refuse(x) PROVE UNCHANGED Write!vars
  <2>1. UNCHANGED <<vars, verb, doubts, effects>>
    BY <1>7 DEF Refuse, Reply
  <2> QED
    BY <1>5, <2>1, Stutters
<1>8. CASE UNCHANGED <<vars, remote>>
  BY <1>5, <1>8, Stutters DEF remote
<1> QED
  BY <1>1, <1>2, <1>3, <1>4, <1>6, <1>7, <1>8 DEF RemoteNext, Terminated

\* Retried writes implement the contract: an acknowledged write took effect, and
\* every other effect is that of an attempt that left the client in doubt.
THEOREM WritesImplementContract == RemoteSpec => WriteSpec
<1>1. RemoteInit => Write!Init
  <2> SUFFICES ASSUME RemoteInit PROVE Write!Init
    OBVIOUS
  <2>1. \A c \in Calls : Told[c] = "open"
    BY DEF RemoteInit, Init, Told, Succeeded, Returned
  <2>2. Told = [c \in Calls |-> "open"]
    BY <2>1 DEF Told
  <2>3. effects = {} /\ doubts = {}
    BY DEF RemoteInit
  <2> QED
    BY <2>2, <2>3, OfEmpty DEF Write!Init, Applied, Doubtful
<1>2. RemoteSpec => []IInv
  BY RemoteImplements, Invariance, PTL
<1> QED
  BY <1>1, <1>2, RemoteInvariance, WriteStep, PTL DEF RemoteSpec, WriteSpec, Write!Spec
=============================================================================
