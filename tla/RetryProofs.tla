----------------------------- MODULE RetryProofs -----------------------------
(* Proofs about RoundTrip, for any calls, answers, settings and pool size. *)
EXTENDS RetryProperties, TLAPS

USE DurationAssumption, TransportAssumption

-----------------------------------------------------------------------------
(* Durations *)

\* Arithmetic on time.Duration stays within its width.
LEMMA WrapIsDuration == ASSUME NEW x \in Int PROVE Wrap(x) \in Durations
  BY DEF Wrap, Durations

LEMMA WrapKeepsDurations == ASSUME NEW x \in Durations PROVE Wrap(x) = x
  BY DEF Wrap, Durations

\* retryDelay only returns time.Durations.
LEMMA DelayIsDuration ==
  ASSUME NEW n \in Nat, n > 0, NEW r \in Answers
  PROVE  retryDelay(n, r) \subseteq Durations
<1>1. CASE Advised(r)
  <2>1. r \in Responses
    BY <1>1 DEF Advised, Answers
  <2>2. r.after \in RetryAfters
    BY <2>1 DEF Responses
  <2>3. r.after # NoRetryAfter
    BY <1>1 DEF Advised
  <2>4. r.after \in Int
    BY <2>2, <2>3
  <2>5. ASSUME NEW s \in Int PROVE Wrap(s * Second) \in Durations
    BY WrapIsDuration
  <2>6. Wrap(r.after * Second) \in Durations
    BY <2>4, <2>5
  <2> QED
    BY <1>1, <2>6 DEF retryDelay
<1>2. CASE ~ Advised(r)
  <2> DEFINE w == Wrap(2 ^ (n - 1) * Second)
             half == w \div 2
  <2>1. 2 ^ (n - 1) * Second \in Int
    OBVIOUS
  <2>2. w \in Durations
    BY <2>1, WrapIsDuration
  <2>3. retryDelay(n, r) = half .. (half + half - 1)
    BY <1>2 DEF retryDelay
  <2> HIDE DEF w
  <2>4. half \in Int /\ 2 * half <= w /\ w <= 2 * half + 1
    BY <2>2 DEF Durations
  <2>5. half .. (half + half - 1) \subseteq Durations
    BY <2>2, <2>4 DEF Durations
  <2> QED
    BY <2>3, <2>5
<1> QED
  BY <1>1, <1>2

-----------------------------------------------------------------------------
(* Type correctness *)

LEMMA LimitType == ASSUME TypeOK PROVE limit \in Nat /\ Allowance = limit + 1
  BY DEF TypeOK, limit, Allowance

LEMMA TypeInit == Init => TypeOK
<1> SUFFICES ASSUME Init PROVE TypeOK
  OBVIOUS
<1>1. 0 \in Durations
  BY DEF Durations
<1>2. body \in [Calls -> {"nil", "unread", "full", "spent"}]
  BY DEF Init
<1> QED
  BY <1>1, <1>2 DEF Init, TypeOK, Answers

LEMMA TypeStep == TypeOK /\ [Next]_vars => TypeOK'
<1> SUFFICES ASSUME TypeOK, [Next]_vars PROVE TypeOK'
  OBVIOUS
<1> USE DEF TypeOK, Goto, locals, outside, history
<1>1. ASSUME NEW c \in Calls, BufferBody(c) PROVE TypeOK'
  BY <1>1 DEF BufferBody
<1>2. ASSUME NEW c \in Calls, BodyReadFails(c) PROVE TypeOK'
  BY <1>2 DEF BodyReadFails
<1>3. ASSUME NEW c \in Calls, GiveUp(c) PROVE TypeOK'
  BY <1>3 DEF GiveUp
<1>4. ASSUME NEW c \in Calls, FirstAttempt(c) PROVE TypeOK'
  BY <1>4 DEF FirstAttempt
<1>5. ASSUME NEW c \in Calls, StartBackoff(c) PROVE TypeOK'
  <2>1. PICK d \in retryDelay(attempt[c], resp[c]) : delay' = [delay EXCEPT ![c] = d]
    BY <1>5 DEF StartBackoff
  <2>2. d \in Durations
    BY <1>5, <2>1, DelayIsDuration DEF StartBackoff
  <2> QED
    BY <1>5, <2>1, <2>2 DEF StartBackoff
<1>6. ASSUME NEW c \in Calls, JitterPanics(c) PROVE TypeOK'
  BY <1>6 DEF JitterPanics
<1>7. ASSUME NEW c \in Calls, TimerFires(c) PROVE TypeOK'
  BY <1>7 DEF TimerFires, Durations
<1>8. ASSUME NEW c \in Calls, BackoffCancelled(c) PROVE TypeOK'
  BY <1>8 DEF BackoffCancelled, Durations, Answers
<1>9. ASSUME NEW c \in Calls, Send(c) PROVE TypeOK'
  BY <1>9 DEF Send, Drained, Rebuilt
<1>10. ASSUME NEW c \in Calls, NEW r \in Responses, Respond(c, r) PROVE TypeOK'
  BY <1>10 DEF Respond, Answers
<1>11. ASSUME NEW c \in Calls, Fail(c) PROVE TypeOK'
  BY <1>11 DEF Fail, Answers
<1>12. ASSUME NEW c \in Calls, Connect(c) PROVE TypeOK'
  BY <1>12 DEF Connect
<1>13. ASSUME NEW c \in Calls, Release(c) PROVE TypeOK'
  BY <1>13 DEF Release
<1>14. ASSUME NEW c \in Calls, CloseBody(c) PROVE TypeOK'
  BY <1>14 DEF CloseBody
<1>15. ASSUME NEW c \in Calls, Cancel(c) PROVE TypeOK'
  BY <1>15 DEF Cancel
<1>16. CASE UNCHANGED vars
  BY <1>16 DEF vars
<1> QED
  BY <1>1, <1>2, <1>3, <1>4, <1>5, <1>6, <1>7, <1>8, <1>9, <1>10, <1>11,
     <1>12, <1>13, <1>14, <1>15, <1>16 DEF Next, Local, Terminated

\* Every reachable state is well typed: a delay never leaves time.Duration,
\* whatever the attempt and the Retry-After.
THEOREM TypeCorrect == Spec => []TypeOK
  BY TypeInit, TypeStep, PTL DEF Spec

-----------------------------------------------------------------------------
(* The loop and its connections *)

LEMMA RetriedIsTransient == \A s : shouldRetry(s) <=> Transient(s)
  BY DEF shouldRetry, Transient

\* A step that leaves alone what belongs to a call keeps its invariant: a call
\* disturbs another one through the pool at most.
LEMMA OtherCall ==
  ASSUME NEW d \in Calls, LoopInv(d), ConnInv(d),
         maxRetries' = maxRetries, pc'[d] = pc[d], attempt'[d] = attempt[d],
         resp'[d] = resp[d], err'[d] = err[d], delay'[d] = delay[d],
         body'[d] = body[d], sent'[d] = sent[d], last'[d] = last[d],
         d \in ctxDone => d \in ctxDone',
         \A x : x[1] = d => (x \in conns' <=> x \in conns)
  PROVE  LoopInv(d)' /\ ConnInv(d)'
<1>1. LoopInv(d)'
  BY DEF LoopInv, Untried, Retrying, Result, Carried, limit
<1>2. ConnInv(d)'
  BY DEF ConnInv, Holds
<1> QED
  BY <1>1, <1>2

LEMMA InvInit == Init => IInv
<1> SUFFICES ASSUME Init PROVE IInv
  OBVIOUS
<1>1. TypeOK
  BY TypeInit
<1>2. ASSUME NEW c \in Calls PROVE LoopInv(c) /\ ConnInv(c)
  BY DEF Init, LoopInv, Untried, ConnInv, Holds
<1> QED
  BY <1>1, <1>2 DEF IInv

LEMMA BufferBodyInv ==
  ASSUME IInv, NEW c \in Calls, BufferBody(c)
  PROVE  \A d \in Calls : LoopInv(d)' /\ ConnInv(d)'
<1> USE DEF BufferBody, Goto, locals, outside, history
<1>0. TypeOK /\ LoopInv(c) /\ ConnInv(c)
  BY DEF IInv
<1>1. LoopInv(c)'
  BY <1>0, LimitType DEF TypeOK, LoopInv, Untried, Retrying, Result, Carried, limit
<1>2. ConnInv(c)'
  BY <1>0 DEF TypeOK, LoopInv, Untried, Retrying, Result, Carried, ConnInv, Holds
<1>3. ASSUME NEW d \in Calls, d # c PROVE LoopInv(d)' /\ ConnInv(d)'
  BY <1>0, <1>3, OtherCall DEF IInv, TypeOK
<1> QED
  BY <1>1, <1>2, <1>3

LEMMA BodyReadFailsInv ==
  ASSUME IInv, NEW c \in Calls, BodyReadFails(c)
  PROVE  \A d \in Calls : LoopInv(d)' /\ ConnInv(d)'
<1> USE DEF BodyReadFails, Goto, locals, outside, history
<1>0. TypeOK /\ LoopInv(c) /\ ConnInv(c)
  BY DEF IInv
<1>1. LoopInv(c)'
  BY <1>0, LimitType DEF TypeOK, LoopInv, Untried, Retrying, Result, Carried, limit
<1>2. ConnInv(c)'
  BY <1>0 DEF TypeOK, LoopInv, Untried, Retrying, Result, Carried, ConnInv, Holds
<1>3. ASSUME NEW d \in Calls, d # c PROVE LoopInv(d)' /\ ConnInv(d)'
  BY <1>0, <1>3, OtherCall DEF IInv, TypeOK
<1> QED
  BY <1>1, <1>2, <1>3

LEMMA GiveUpInv ==
  ASSUME IInv, NEW c \in Calls, GiveUp(c)
  PROVE  \A d \in Calls : LoopInv(d)' /\ ConnInv(d)'
<1> USE DEF GiveUp, Goto, locals, outside, history
<1>0. TypeOK /\ LoopInv(c) /\ ConnInv(c)
  BY DEF IInv
<1>1. LoopInv(c)'
  BY <1>0, LimitType DEF TypeOK, LoopInv, Untried, Retrying, Result, Carried, limit
<1>2. ConnInv(c)'
  BY <1>0 DEF TypeOK, LoopInv, Untried, Retrying, Result, Carried, ConnInv, Holds
<1>3. ASSUME NEW d \in Calls, d # c PROVE LoopInv(d)' /\ ConnInv(d)'
  BY <1>0, <1>3, OtherCall DEF IInv, TypeOK
<1> QED
  BY <1>1, <1>2, <1>3

LEMMA FirstAttemptInv ==
  ASSUME IInv, NEW c \in Calls, FirstAttempt(c)
  PROVE  \A d \in Calls : LoopInv(d)' /\ ConnInv(d)'
<1> USE DEF FirstAttempt, Goto, locals, outside, history
<1>0. TypeOK /\ LoopInv(c) /\ ConnInv(c)
  BY DEF IInv
<1>1. LoopInv(c)'
  BY <1>0, LimitType DEF TypeOK, LoopInv, Untried, Retrying, Result, Carried, limit
<1>2. ConnInv(c)'
  BY <1>0 DEF TypeOK, LoopInv, Untried, Retrying, Result, Carried, ConnInv, Holds
<1>3. ASSUME NEW d \in Calls, d # c PROVE LoopInv(d)' /\ ConnInv(d)'
  BY <1>0, <1>3, OtherCall DEF IInv, TypeOK
<1> QED
  BY <1>1, <1>2, <1>3

LEMMA StartBackoffInv ==
  ASSUME IInv, NEW c \in Calls, StartBackoff(c)
  PROVE  \A d \in Calls : LoopInv(d)' /\ ConnInv(d)'
<1> USE DEF StartBackoff, Goto, locals, outside, history
<1>0. TypeOK /\ LoopInv(c) /\ ConnInv(c)
  BY DEF IInv
<1>1. LoopInv(c)'
  BY <1>0, LimitType DEF TypeOK, LoopInv, Untried, Retrying, Result, Carried, limit
<1>2. ConnInv(c)'
  BY <1>0 DEF TypeOK, LoopInv, Untried, Retrying, Result, Carried, ConnInv, Holds
<1>3. ASSUME NEW d \in Calls, d # c PROVE LoopInv(d)' /\ ConnInv(d)'
  BY <1>0, <1>3, OtherCall DEF IInv, TypeOK
<1> QED
  BY <1>1, <1>2, <1>3

LEMMA JitterPanicsInv ==
  ASSUME IInv, NEW c \in Calls, JitterPanics(c)
  PROVE  \A d \in Calls : LoopInv(d)' /\ ConnInv(d)'
<1> USE DEF JitterPanics, Goto, locals, outside, history
<1>0. TypeOK /\ LoopInv(c) /\ ConnInv(c)
  BY DEF IInv
<1>1. LoopInv(c)'
  BY <1>0, LimitType DEF TypeOK, LoopInv, Untried, Retrying, Result, Carried, limit
<1>2. ConnInv(c)'
  BY <1>0 DEF TypeOK, LoopInv, Untried, Retrying, Result, Carried, ConnInv, Holds
<1>3. ASSUME NEW d \in Calls, d # c PROVE LoopInv(d)' /\ ConnInv(d)'
  BY <1>0, <1>3, OtherCall DEF IInv, TypeOK
<1> QED
  BY <1>1, <1>2, <1>3

LEMMA TimerFiresInv ==
  ASSUME IInv, NEW c \in Calls, TimerFires(c)
  PROVE  \A d \in Calls : LoopInv(d)' /\ ConnInv(d)'
<1> USE DEF TimerFires, Goto, locals, outside, history
<1>0. TypeOK /\ LoopInv(c) /\ ConnInv(c)
  BY DEF IInv
<1>1. LoopInv(c)'
  BY <1>0, LimitType DEF TypeOK, LoopInv, Untried, Retrying, Result, Carried, limit
<1>2. ConnInv(c)'
  BY <1>0 DEF TypeOK, LoopInv, Untried, Retrying, Result, Carried, ConnInv, Holds
<1>3. ASSUME NEW d \in Calls, d # c PROVE LoopInv(d)' /\ ConnInv(d)'
  BY <1>0, <1>3, OtherCall DEF IInv, TypeOK
<1> QED
  BY <1>1, <1>2, <1>3

LEMMA BackoffCancelledInv ==
  ASSUME IInv, NEW c \in Calls, BackoffCancelled(c)
  PROVE  \A d \in Calls : LoopInv(d)' /\ ConnInv(d)'
<1> USE DEF BackoffCancelled, Goto, locals, outside, history
<1>0. TypeOK /\ LoopInv(c) /\ ConnInv(c)
  BY DEF IInv
<1>1. LoopInv(c)'
  BY <1>0, LimitType DEF TypeOK, LoopInv, Untried, Retrying, Result, Carried, limit
<1>2. ConnInv(c)'
  BY <1>0 DEF TypeOK, LoopInv, Untried, Retrying, Result, Carried, ConnInv, Holds
<1>3. ASSUME NEW d \in Calls, d # c PROVE LoopInv(d)' /\ ConnInv(d)'
  BY <1>0, <1>3, OtherCall DEF IInv, TypeOK
<1> QED
  BY <1>1, <1>2, <1>3

LEMMA SendInv ==
  ASSUME IInv, NEW c \in Calls, Send(c)
  PROVE  \A d \in Calls : LoopInv(d)' /\ ConnInv(d)'
<1> USE DEF Send, Drained, Rebuilt, Goto, locals, outside, history
<1>0. TypeOK /\ LoopInv(c) /\ ConnInv(c)
  BY DEF IInv
<1>1. LoopInv(c)'
  BY <1>0, LimitType DEF TypeOK, LoopInv, Untried, Retrying, Result, Carried, limit
<1>2. ConnInv(c)'
  BY <1>0 DEF TypeOK, LoopInv, Untried, Retrying, Result, Carried, ConnInv, Holds
<1>3. ASSUME NEW d \in Calls, d # c PROVE LoopInv(d)' /\ ConnInv(d)'
  BY <1>0, <1>3, OtherCall DEF IInv, TypeOK
<1> QED
  BY <1>1, <1>2, <1>3

LEMMA RespondInv ==
  ASSUME IInv, NEW c \in Calls, NEW r \in Responses, Respond(c, r)
  PROVE  \A d \in Calls : LoopInv(d)' /\ ConnInv(d)'
<1> USE DEF Respond, Goto, locals, outside, history
<1>0. TypeOK /\ LoopInv(c) /\ ConnInv(c)
  BY DEF IInv
<1>1. LoopInv(c)'
  <2> USE DEF TypeOK, LoopInv, Untried, Retrying, Result, Carried, limit
  <2>1. r # NoResponse
    OBVIOUS
  <2>2. CASE shouldRetry(r.status)
    BY <1>0, <2>1, <2>2, LimitType, RetriedIsTransient
  <2>3. CASE ~ shouldRetry(r.status)
    BY <1>0, <2>1, <2>3, LimitType, RetriedIsTransient
  <2> QED
    BY <2>2, <2>3
<1>2. ConnInv(c)'
  BY <1>0 DEF TypeOK, LoopInv, Untried, Retrying, Result, Carried, ConnInv, Holds
<1>3. ASSUME NEW d \in Calls, d # c PROVE LoopInv(d)' /\ ConnInv(d)'
  BY <1>0, <1>3, OtherCall DEF IInv, TypeOK
<1> QED
  BY <1>1, <1>2, <1>3

LEMMA FailInv ==
  ASSUME IInv, NEW c \in Calls, Fail(c)
  PROVE  \A d \in Calls : LoopInv(d)' /\ ConnInv(d)'
<1> USE DEF Fail, Goto, locals, outside, history
<1>0. TypeOK /\ LoopInv(c) /\ ConnInv(c)
  BY DEF IInv
<1>1. LoopInv(c)'
  BY <1>0, LimitType DEF TypeOK, LoopInv, Untried, Retrying, Result, Carried, limit
<1>2. ConnInv(c)'
  BY <1>0 DEF TypeOK, LoopInv, Untried, Retrying, Result, Carried, ConnInv, Holds
<1>3. ASSUME NEW d \in Calls, d # c PROVE LoopInv(d)' /\ ConnInv(d)'
  BY <1>0, <1>3, OtherCall DEF IInv, TypeOK
<1> QED
  BY <1>1, <1>2, <1>3

LEMMA ConnectInv ==
  ASSUME IInv, NEW c \in Calls, Connect(c)
  PROVE  \A d \in Calls : LoopInv(d)' /\ ConnInv(d)'
<1> USE DEF Connect, Goto, locals, outside, history
<1>0. TypeOK /\ LoopInv(c) /\ ConnInv(c)
  BY DEF IInv
<1>1. LoopInv(c)'
  BY <1>0, LimitType DEF TypeOK, LoopInv, Untried, Retrying, Result, Carried, limit
<1>2. ConnInv(c)'
  BY <1>0 DEF TypeOK, LoopInv, Untried, Retrying, Result, Carried, ConnInv, Holds
<1>3. ASSUME NEW d \in Calls, d # c PROVE LoopInv(d)' /\ ConnInv(d)'
  BY <1>0, <1>3, OtherCall DEF IInv, TypeOK
<1> QED
  BY <1>1, <1>2, <1>3

LEMMA ReleaseInv ==
  ASSUME IInv, NEW c \in Calls, Release(c)
  PROVE  \A d \in Calls : LoopInv(d)' /\ ConnInv(d)'
<1> USE DEF Release, Goto, locals, outside, history
<1>0. TypeOK /\ LoopInv(c) /\ ConnInv(c)
  BY DEF IInv
<1>1. LoopInv(c)'
  BY <1>0, LimitType DEF TypeOK, LoopInv, Untried, Retrying, Result, Carried, limit
<1>2. ConnInv(c)'
  BY <1>0 DEF TypeOK, LoopInv, Untried, Retrying, Result, Carried, ConnInv, Holds
<1>3. ASSUME NEW d \in Calls, d # c PROVE LoopInv(d)' /\ ConnInv(d)'
  BY <1>0, <1>3, OtherCall DEF IInv, TypeOK
<1> QED
  BY <1>1, <1>2, <1>3

LEMMA CloseBodyInv ==
  ASSUME IInv, NEW c \in Calls, CloseBody(c)
  PROVE  \A d \in Calls : LoopInv(d)' /\ ConnInv(d)'
<1> USE DEF CloseBody, Goto, locals, outside, history
<1>0. TypeOK /\ LoopInv(c) /\ ConnInv(c)
  BY DEF IInv
<1>1. LoopInv(c)'
  BY <1>0, LimitType DEF TypeOK, LoopInv, Untried, Retrying, Result, Carried, limit
<1>2. ConnInv(c)'
  BY <1>0 DEF TypeOK, LoopInv, Untried, Retrying, Result, Carried, ConnInv, Holds
<1>3. ASSUME NEW d \in Calls, d # c PROVE LoopInv(d)' /\ ConnInv(d)'
  BY <1>0, <1>3, OtherCall DEF IInv, TypeOK
<1> QED
  BY <1>1, <1>2, <1>3

LEMMA CancelInv ==
  ASSUME IInv, NEW c \in Calls, Cancel(c)
  PROVE  \A d \in Calls : LoopInv(d)' /\ ConnInv(d)'
<1> USE DEF Cancel, Goto, locals, outside, history
<1>0. TypeOK /\ LoopInv(c) /\ ConnInv(c)
  BY DEF IInv
<1>1. LoopInv(c)'
  BY <1>0, LimitType DEF TypeOK, LoopInv, Untried, Retrying, Result, Carried, limit
<1>2. ConnInv(c)'
  BY <1>0 DEF TypeOK, LoopInv, Untried, Retrying, Result, Carried, ConnInv, Holds
<1>3. ASSUME NEW d \in Calls, d # c PROVE LoopInv(d)' /\ ConnInv(d)'
  BY <1>0, <1>3, OtherCall DEF IInv, TypeOK
<1> QED
  BY <1>1, <1>2, <1>3

LEMMA InvStep == IInv /\ [Next]_vars => IInv'
<1> SUFFICES ASSUME IInv, [Next]_vars PROVE IInv'
  OBVIOUS
<1>1. TypeOK'
  BY TypeStep DEF IInv
<1>2. \A d \in Calls : LoopInv(d)' /\ ConnInv(d)'
  <2>1. CASE UNCHANGED vars
    <3>1. ASSUME NEW d \in Calls PROVE LoopInv(d)' /\ ConnInv(d)'
      BY <2>1, OtherCall DEF IInv, vars, locals, outside, history
    <3> QED
      BY <3>1
  <2>2. CASE Next
    BY <2>1, <2>2, BufferBodyInv, BodyReadFailsInv, GiveUpInv, FirstAttemptInv,
       StartBackoffInv, JitterPanicsInv, TimerFiresInv, BackoffCancelledInv,
       SendInv, RespondInv, FailInv, ConnectInv, ReleaseInv, CloseBodyInv,
       CancelInv DEF Next, Local, Terminated
  <2> QED
    BY <2>1, <2>2
<1> QED
  BY <1>1, <1>2 DEF IInv

\* The loop's bookkeeping and what each call holds are as IInv says, in every
\* reachable state of any number of calls.
THEOREM Invariance == Spec => []IInv
  BY InvInit, InvStep, PTL DEF Spec

-----------------------------------------------------------------------------
(* What the invariant gives *)

LEMMA InvOutcome == IInv => OutcomeIsLastAnswer
  BY DEF IInv, TypeOK, LoopInv, Result, Carried, Returned, OutcomeIsLastAnswer

LEMMA InvBudget == IInv => RetryBudget
<1> SUFFICES ASSUME IInv, NEW c \in Calls
             PROVE  /\ sent[c] <= Allowance
                    /\ Returned(c) =>
                          \/ err[c] \in {"body", "ctx"}
                          \/ resp[c] # NoResponse /\ ~ Transient(resp[c].status)
                          \/ sent[c] = Allowance
  BY DEF RetryBudget
<1> USE DEF IInv, TypeOK
<1>1. limit \in Nat /\ Allowance = limit + 1
  BY LimitType
<1>2. sent[c] <= Allowance
  BY <1>1 DEF LoopInv, Untried, Retrying, Result
<1>3. Returned(c) => \/ err[c] \in {"body", "ctx"}
                     \/ resp[c] # NoResponse /\ ~ Transient(resp[c].status)
                     \/ sent[c] = Allowance
  BY <1>1 DEF LoopInv, Result, Returned
<1> QED
  BY <1>2, <1>3

LEMMA InvBody == IInv => BodyReplayed
  BY DEF IInv, LoopInv, BodyReplayed

LEMMA InvSelfBlocking == IInv => NoSelfBlocking
  BY DEF IInv, ConnInv, NoSelfBlocking

LEMMA InvReadable == IInv => ReturnedBodyReadable
  BY DEF IInv, ConnInv, ReturnedBodyReadable

LEMMA InvAbandoned == IInv => AbandonedOnlyByCancel
  BY DEF IInv, LoopInv, Result, Carried, ConnInv, Settled, AbandonedOnlyByCancel

LEMMA InvPanic == IInv => PanicOnlyOnOverflow
<1> SUFFICES ASSUME IInv, NEW c \in Calls, pc[c] = "panicked",
                    2 ^ (attempt[c] - 1) * Second \in Second .. MaxDuration
             PROVE  FALSE
  BY DEF PanicOnlyOnOverflow
<1> DEFINE w == 2 ^ (attempt[c] - 1) * Second
<1>1. attempt[c] \in Nat /\ attempt[c] > 0 /\ retryDelay(attempt[c], resp[c]) = {}
  BY DEF IInv, TypeOK, LoopInv, Retrying
<1>2. Wrap(w) = w
  BY WrapKeepsDurations DEF Durations
<1>3. CASE Advised(resp[c])
  BY <1>1, <1>3 DEF retryDelay
<1>4. CASE ~ Advised(resp[c])
  <2> DEFINE half == w \div 2
  <2>1. retryDelay(attempt[c], resp[c]) = half .. (half + half - 1)
    BY <1>2, <1>4 DEF retryDelay
  <2>2. half \in Int /\ half >= 1
    OBVIOUS
  <2> HIDE DEF half
  <2>3. half \in half .. (half + half - 1)
    BY <2>2
  <2> QED
    BY <1>1, <2>1, <2>3
<1> QED
  BY <1>3, <1>4

LEMMA InvDelay == IInv => DocumentedDelay
<1> SUFFICES ASSUME IInv, NEW c \in Calls, pc[c] = "backoff",
                    Representable(attempt[c], last[c])
             PROVE  delay[c] \in DocumentedDelays(attempt[c], last[c])
  BY DEF DocumentedDelay
<1> DEFINE n == attempt[c]
           r == last[c]
<1>1. n \in Nat /\ n > 0 /\ r \in Answers /\ delay[c] \in retryDelay(n, r)
  BY DEF IInv, TypeOK, LoopInv, Retrying, Carried
<1>2. Advised(r) <=> r # NoResponse /\ r.status = 429 /\ r.after # NoRetryAfter
  BY DEF Advised
<1>3. CASE Advised(r)
  <2>1. r.after * Second \in Durations
    BY <1>2, <1>3 DEF Representable, Durations
  <2> QED
    BY <1>1, <1>2, <1>3, <2>1, WrapKeepsDurations DEF retryDelay, DocumentedDelays
<1>4. CASE ~ Advised(r)
  <2> DEFINE w == 2 ^ (n - 1) * Second
             half == w \div 2
  <2>1. w \in Second .. MaxDuration
    BY <1>2, <1>4 DEF Representable
  <2>2. retryDelay(n, r) = half .. (half + half - 1)
    BY <1>4, <2>1, WrapKeepsDurations DEF retryDelay, Durations
  <2>3. DocumentedDelays(n, r) = {d \in half .. w : d < w}
    BY <1>2, <1>4 DEF DocumentedDelays
  <2> HIDE DEF w
  <2>4. w \in Nat /\ half \in Nat /\ 2 * half <= w
    BY <2>1
  <2> HIDE DEF half
  <2>5. ASSUME NEW d \in half .. (half + half - 1) PROVE d \in half .. w /\ d < w
    BY <2>4
  <2> QED
    BY <1>1, <2>2, <2>3, <2>5
<1> QED
  BY <1>3, <1>4

-----------------------------------------------------------------------------
(* The safety properties of every behaviour *)

\* RoundTrip returns a response or an error, never both nor neither, and it is the
\* latest answer of the base.
THEOREM Outcome == Spec => []OutcomeIsLastAnswer
  BY Invariance, InvOutcome, PTL

\* The base is called at most 1 + MaxRetries times, and RoundTrip gives up on a
\* transient answer or an error only after that many.
THEOREM Budget == Spec => []RetryBudget
  BY Invariance, InvBudget, PTL

\* Every attempt has the complete request body.
THEOREM Replay == Spec => []BodyReplayed
  BY Invariance, InvBody, PTL

\* No call waits for a connection while it occupies one, for any pool size.
THEOREM NoSelfBlock == Spec => []NoSelfBlocking
  BY Invariance, InvSelfBlocking, PTL

\* The body of a returned response is open until its caller closes it, unless the
\* context is done and the base reacts to that.
THEOREM Readable == Spec => []ReturnedBodyReadable
  BY Invariance, InvReadable, PTL

\* Only a context done during a backoff (or the panic) makes a call leave a
\* response open.
THEOREM Abandoned == Spec => []AbandonedOnlyByCancel
  BY Invariance, InvAbandoned, PTL

\* The jitter panics only when the exponential backoff left time.Duration's range.
THEOREM Panics == Spec => []PanicOnlyOnOverflow
  BY Invariance, InvPanic, PTL

\* Each backoff lasts as documented for the latest answer, as long as a
\* time.Duration can hold it.
THEOREM Delays == Spec => []DocumentedDelay
  BY Invariance, InvDelay, PTL

LEMMA StepNoResend ==
  IInv /\ [Next]_vars =>
    \A c \in Calls : sent'[c] > sent[c] /\ last[c] # NoResponse
                        => Transient(last[c].status)
<1> SUFFICES ASSUME IInv, [Next]_vars, NEW c \in Calls,
                    sent'[c] > sent[c], last[c] # NoResponse
             PROVE  Transient(last[c].status)
  OBVIOUS
<1>1. sent[c] \in Nat
  BY DEF IInv, TypeOK
<1>2. sent' # sent
  BY <1>1
<1>3. PICK d \in Calls : Send(d)
  BY <1>2 DEF Next, Local, Terminated, vars, history, BufferBody, BodyReadFails,
     GiveUp, FirstAttempt, StartBackoff, JitterPanics, TimerFires,
     BackoffCancelled, Respond, Fail, Connect, Release, CloseBody, Cancel
<1>4. d = c /\ pc[c] = "prepare"
  BY <1>1, <1>3 DEF Send, Goto, IInv, TypeOK
<1> QED
  BY <1>4 DEF IInv, LoopInv, Untried, Retrying, Carried

\* An accepted or refused request is never sent again.
THEOREM FinalIsFinal == Spec => NoResendAfterFinal
  BY Invariance, StepNoResend, PTL DEF Spec, NoResendAfterFinal

-----------------------------------------------------------------------------
(* RoundTrip implements RetryContract *)

LEMMA ContractInit == Init => Contract!Init
<1> SUFFICES ASSUME Init PROVE Contract!Init
  OBVIOUS
<1>1. Allowance \in Nat \ {0}
  BY TypeInit, LimitType
<1>2. ASSUME NEW c \in Calls PROVE Latest(c) = "none" /\ Verdict(c) = "open"
  BY DEF Init, Latest, Verdict, Returned
<1> QED
  BY <1>1, <1>2 DEF Contract!Init, Init, Latests, Verdicts

\* What the abstract state is before and after a step of call c.
Framed(c) ==
    /\ Allowance' = Allowance
    /\ Latests[c] = Latest(c) /\ Verdicts[c] = Verdict(c)
    /\ Latests' = [Latests EXCEPT ![c] = Latest(c)']
    /\ Verdicts' = [Verdicts EXCEPT ![c] = Verdict(c)']
    /\ Latest(c)' = Latest(c) => Latests' = Latests
    /\ Verdict(c)' = Verdict(c) => Verdicts' = Verdicts

LEMMA ContractFrame ==
  ASSUME NEW c \in Calls, maxRetries' = maxRetries,
         \A d \in Calls : d # c => /\ pc'[d] = pc[d] /\ resp'[d] = resp[d]
                                  /\ err'[d] = err[d] /\ last'[d] = last[d]
  PROVE  Framed(c)
<1>1. ASSUME NEW d \in Calls, d # c
      PROVE  Latest(d)' = Latest(d) /\ Verdict(d)' = Verdict(d)
  BY <1>1 DEF Latest, Verdict, Returned
<1> QED
  BY <1>1 DEF Framed, Allowance, Latests, Verdicts

LEMMA ContractStutter ==
  ASSUME NEW c \in Calls, maxRetries' = maxRetries, sent' = sent,
         \A d \in Calls : d # c => /\ pc'[d] = pc[d] /\ resp'[d] = resp[d]
                                  /\ err'[d] = err[d] /\ last'[d] = last[d],
         Verdict(c)' = Verdict(c), Latest(c)' = Latest(c)
  PROVE  UNCHANGED Contract!vars
<1>1. ASSUME NEW d \in Calls PROVE Latest(d)' = Latest(d) /\ Verdict(d)' = Verdict(d)
  <2>1. CASE d = c
    BY <2>1
  <2>2. CASE d # c
    BY <2>2 DEF Latest, Verdict, Returned
  <2> QED
    BY <2>1, <2>2
<1> QED
  BY <1>1 DEF Contract!vars, Allowance, Latests, Verdicts

LEMMA ContractStep ==
  IInv /\ NeverPanics' /\ [Next]_vars => [Contract!Next]_(Contract!vars)
<1> SUFFICES ASSUME IInv, NeverPanics', [Next]_vars
             PROVE  Contract!Next \/ UNCHANGED Contract!vars
  OBVIOUS
<1> USE DEF Goto, locals, outside, history, Returned
<1>0. TypeOK /\ limit \in Nat /\ Allowance = limit + 1
  BY LimitType DEF IInv
<1>1. ASSUME NEW c \in Calls, BufferBody(c)
      PROVE  Contract!Next \/ UNCHANGED Contract!vars
  <2>1. Verdict(c)' = Verdict(c) /\ Latest(c)' = Latest(c)
    BY <1>0, <1>1 DEF BufferBody, Verdict, Latest, TypeOK
  <2> QED
    BY <1>0, <1>1, <2>1, ContractStutter DEF BufferBody, TypeOK
<1>2. ASSUME NEW c \in Calls, BodyReadFails(c)
      PROVE  Contract!Next \/ UNCHANGED Contract!vars
  <2>1. /\ Verdict(c) = "open" /\ Verdict(c)' = "aborted"
        /\ Latest(c) # "awaited" /\ Latest(c)' = Latest(c)
    BY <1>0, <1>2 DEF BodyReadFails, Verdict, Latest, TypeOK
  <2>2. sent[c] < Allowance
    BY <1>0, <1>2 DEF BodyReadFails, IInv, LoopInv, Untried, Retrying, TypeOK
  <2>3. Framed(c)
    BY <1>0, <1>2, ContractFrame DEF BodyReadFails, TypeOK
  <2>4. Contract!Aborted(c)
    BY <1>2, <2>1, <2>2, <2>3 DEF BodyReadFails, Contract!Aborted, Framed
  <2> QED
    BY <2>4 DEF Contract!Next
<1>3. ASSUME NEW c \in Calls, GiveUp(c)
      PROVE  Contract!Next \/ UNCHANGED Contract!vars
  <2>1. Verdict(c) = "open" /\ Latest(c) # "awaited" /\ Latest(c)' = Latest(c)
    BY <1>0, <1>3 DEF GiveUp, Verdict, Latest, TypeOK
  <2>2. sent[c] = Allowance /\ Retrying(c)
    BY <1>0, <1>3 DEF GiveUp, IInv, LoopInv, Untried, Retrying, TypeOK
  <2>3. Verdict(c)' = IF Latest(c) = "none" THEN "last error" ELSE "last response"
    BY <1>0, <1>3, <2>2 DEF GiveUp, Verdict, Latest, Retrying, Carried, TypeOK
  <2>4. Framed(c)
    BY <1>0, <1>3, ContractFrame DEF GiveUp, TypeOK
  <2>5. Contract!Exhausted(c)
    BY <1>3, <2>1, <2>2, <2>3, <2>4 DEF GiveUp, Contract!Exhausted, Framed
  <2> QED
    BY <2>5 DEF Contract!Next
<1>4. ASSUME NEW c \in Calls, FirstAttempt(c)
      PROVE  Contract!Next \/ UNCHANGED Contract!vars
  <2>1. Verdict(c)' = Verdict(c) /\ Latest(c)' = Latest(c)
    BY <1>0, <1>4 DEF FirstAttempt, Verdict, Latest, TypeOK
  <2> QED
    BY <1>0, <1>4, <2>1, ContractStutter DEF FirstAttempt, TypeOK
<1>5. ASSUME NEW c \in Calls, StartBackoff(c)
      PROVE  Contract!Next \/ UNCHANGED Contract!vars
  <2>1. Verdict(c)' = Verdict(c) /\ Latest(c)' = Latest(c)
    BY <1>0, <1>5 DEF StartBackoff, Verdict, Latest, TypeOK
  <2> QED
    BY <1>0, <1>5, <2>1, ContractStutter DEF StartBackoff, TypeOK
<1>6. ASSUME NEW c \in Calls, TimerFires(c)
      PROVE  Contract!Next \/ UNCHANGED Contract!vars
  <2>1. Verdict(c)' = Verdict(c) /\ Latest(c)' = Latest(c)
    BY <1>0, <1>6 DEF TimerFires, Verdict, Latest, TypeOK
  <2> QED
    BY <1>0, <1>6, <2>1, ContractStutter DEF TimerFires, TypeOK
<1>7. ASSUME NEW c \in Calls, BackoffCancelled(c)
      PROVE  Contract!Next \/ UNCHANGED Contract!vars
  <2>1. /\ Verdict(c) = "open" /\ Verdict(c)' = "aborted"
        /\ Latest(c) # "awaited" /\ Latest(c)' = Latest(c)
    BY <1>0, <1>7 DEF BackoffCancelled, Verdict, Latest, TypeOK
  <2>2. sent[c] < Allowance
    BY <1>0, <1>7 DEF BackoffCancelled, IInv, LoopInv, Untried, Retrying, TypeOK
  <2>3. Framed(c)
    BY <1>0, <1>7, ContractFrame DEF BackoffCancelled, TypeOK
  <2>4. Contract!Aborted(c)
    BY <1>7, <2>1, <2>2, <2>3 DEF BackoffCancelled, Contract!Aborted, Framed
  <2> QED
    BY <2>4 DEF Contract!Next
<1>8. ASSUME NEW c \in Calls, Send(c)
      PROVE  Contract!Next \/ UNCHANGED Contract!vars
  <2>1. /\ Verdict(c) = "open" /\ Verdict(c)' = "open"
        /\ Latest(c) # "awaited" /\ Latest(c)' = "awaited"
    BY <1>0, <1>8 DEF Send, Verdict, Latest, TypeOK
  <2>2. sent[c] < Allowance
    BY <1>0, <1>8 DEF Send, IInv, LoopInv, Untried, Retrying, TypeOK
  <2>3. Framed(c)
    BY <1>0, <1>8, ContractFrame DEF Send, TypeOK
  <2>4. Contract!Try(c)
    BY <1>8, <2>1, <2>2, <2>3 DEF Send, Contract!Try, Framed
  <2> QED
    BY <2>4 DEF Contract!Next
<1>9. ASSUME NEW c \in Calls, NEW r \in Responses, Respond(c, r)
      PROVE  Contract!Next \/ UNCHANGED Contract!vars
  <2>1. Verdict(c) = "open" /\ r # NoResponse
    BY <1>0, <1>9 DEF Respond, Verdict, TypeOK
  <2>2. Latest(c) = "awaited"
    BY <1>0, <1>9 DEF Respond, Latest
  <2>3. CASE Transient(r.status)
    <3>1. Verdict(c)' = "open" /\ Latest(c)' = "transient"
      BY <1>0, <1>9, <2>1, <2>3, RetriedIsTransient DEF Respond, Verdict, Latest, TypeOK
    <3>2. Framed(c)
      BY <1>0, <1>9, ContractFrame DEF Respond, TypeOK
    <3>3. Contract!Retryable(c)
      BY <1>9, <2>1, <2>2, <3>1, <3>2 DEF Respond, Contract!Retryable, Framed
    <3> QED
      BY <3>3 DEF Contract!Next
  <2>4. CASE ~ Transient(r.status)
    <3>1. Verdict(c)' = "final" /\ Latest(c)' = "final"
      BY <1>0, <1>9, <2>1, <2>4, RetriedIsTransient DEF Respond, Verdict, Latest, TypeOK
    <3>2. Framed(c)
      BY <1>0, <1>9, ContractFrame DEF Respond, TypeOK
    <3>3. Contract!Final(c)
      BY <1>9, <2>1, <2>2, <3>1, <3>2 DEF Respond, Contract!Final, Framed
    <3> QED
      BY <3>3 DEF Contract!Next
  <2> QED
    BY <2>3, <2>4
<1>10. ASSUME NEW c \in Calls, Fail(c)
      PROVE  Contract!Next \/ UNCHANGED Contract!vars
  <2>1. Verdict(c) = "open" /\ Verdict(c)' = "open" /\ Latest(c)' = "none"
    BY <1>0, <1>10 DEF Fail, Verdict, Latest, TypeOK
  <2>2. Latest(c) = "awaited"
    BY <1>0, <1>10 DEF Fail, Latest
  <2>3. Framed(c)
    BY <1>0, <1>10, ContractFrame DEF Fail, TypeOK
  <2>4. Contract!Retryable(c)
    BY <1>10, <2>1, <2>2, <2>3 DEF Fail, Contract!Retryable, Framed
  <2> QED
    BY <2>4 DEF Contract!Next
<1>11. ASSUME NEW c \in Calls, Connect(c)
      PROVE  Contract!Next \/ UNCHANGED Contract!vars
  <2>1. Verdict(c)' = Verdict(c) /\ Latest(c)' = Latest(c)
    BY <1>0, <1>11 DEF Connect, Verdict, Latest, TypeOK
  <2> QED
    BY <1>0, <1>11, <2>1, ContractStutter DEF Connect, TypeOK
<1>12. ASSUME NEW c \in Calls, Release(c)
      PROVE  Contract!Next \/ UNCHANGED Contract!vars
  <2>1. Verdict(c)' = Verdict(c) /\ Latest(c)' = Latest(c)
    BY <1>0, <1>12 DEF Release, Verdict, Latest, TypeOK
  <2> QED
    BY <1>0, <1>12, <2>1, ContractStutter DEF Release, TypeOK
<1>13. ASSUME NEW c \in Calls, CloseBody(c)
      PROVE  Contract!Next \/ UNCHANGED Contract!vars
  <2>1. Verdict(c)' = Verdict(c) /\ Latest(c)' = Latest(c)
    BY <1>0, <1>13 DEF CloseBody, Verdict, Latest, TypeOK
  <2> QED
    BY <1>0, <1>13, <2>1, ContractStutter DEF CloseBody, TypeOK
<1>14. ASSUME NEW c \in Calls, Cancel(c)
      PROVE  Contract!Next \/ UNCHANGED Contract!vars
  <2>1. Verdict(c)' = Verdict(c) /\ Latest(c)' = Latest(c)
    BY <1>0, <1>14 DEF Cancel, Verdict, Latest, TypeOK
  <2> QED
    BY <1>0, <1>14, <2>1, ContractStutter DEF Cancel, TypeOK
<1>15. ASSUME NEW c \in Calls, JitterPanics(c) PROVE FALSE
  BY <1>0, <1>15 DEF JitterPanics, NeverPanics, TypeOK
<1>16. CASE UNCHANGED vars
  BY <1>16 DEF vars, Contract!vars, Latests, Verdicts, Latest, Verdict, Allowance
<1> QED
  BY <1>1, <1>2, <1>3, <1>4, <1>5, <1>6, <1>7, <1>8, <1>9, <1>10, <1>11, <1>12, <1>13, <1>14, <1>15, <1>16
     DEF Next, Local, Terminated

\* Short of the panic, RoundTrip is a retried request as its contract says.
THEOREM Implements == Spec /\ []NeverPanics => ContractSpec
  BY Invariance, ContractInit, ContractStep, PTL
     DEF Spec, ContractSpec, Contract!Spec
=============================================================================
