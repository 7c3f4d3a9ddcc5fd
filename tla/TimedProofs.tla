------------------------------ MODULE TimedProofs ------------------------------
(* Proofs about a call in time, for any timeout, retries, limiter and Duration. *)
EXTENDS TimedProperties, TLAPS, SequenceTheorems, FiniteSetTheorems, FunctionTheorems

USE DurationAssumption, TimedAssumption

-----------------------------------------------------------------------------
(* Delays *)

LEMMA WholeSeconds ==
  ASSUME NEW x \in Nat, NEW q \in Int, q = (x + Second - 1) \div Second
  PROVE  q * Second >= x /\ q * Second <= x + Second - 1
  OBVIOUS

LEMMA WrapType == ASSUME NEW x \in Int PROVE Wrap(x) \in Int
  BY DEF Wrap

\* The backoff after an attempt without an answer takes some time, also where
\* its exponential overflows: rand.Int64N would have panicked otherwise.
LEMMA BackoffTakesTime ==
  ASSUME NEW n \in Nat, n > 0, NEW r, ~ Advised(r), NEW d \in retryDelay(n, r)
  PROVE  d \in Nat /\ d > 0
<1> DEFINE w == Wrap(2 ^ (n - 1) * Second)
           half == w \div 2
<1>1. w \in Int
  BY WrapType
<1>2. d \in half .. (half + half - 1)
  BY DEF retryDelay
<1> HIDE DEF w
<1>3. half \in Int
  BY <1>1
<1> QED
  BY <1>2, <1>3

LEMMA DelayType ==
  ASSUME NEW n \in Nat, n > 0, NEW r, Advised(r) => r.after \in Int,
         NEW d \in retryDelay(n, r)
  PROVE  d \in Int
<1>1. CASE Advised(r)
  BY <1>1, WrapType DEF retryDelay
<1>2. CASE ~ Advised(r)
  BY <1>2, BackoffTakesTime
<1> QED
  BY <1>1, <1>2
-----------------------------------------------------------------------------
(* The inductive invariant *)

LEMMA TimedInvInit == Init => TimedInv
  BY DEF Init, TimedInv, TypeOK, limit, EndsByDeadline, LateIsLast, InHand

LEMMA LimitType == ASSUME TypeOK PROVE limit \in Nat
  BY DEF TypeOK, limit

\* What the next iteration leaves behind, whatever the answer was.
LEMMA ContinueType ==
  ASSUME TimedInv, stage = "flight", NEW r, Advised(r) => r.after \in Int, Continue(r)
  PROVE  /\ attempt' = attempt + 1 /\ attempt' \in 1 .. limit + 1
         /\ wake' \in Int
         /\ stage' \in {"failed", "spent", "wait"} /\ resp' = r
         /\ stage' = "wait" => attempt' <= limit
         /\ stage' = "spent" => attempt' = limit + 1
         /\ stage' = "wait" /\ ~ Advised(r) => wake' > now
<1>1. attempt \in Nat /\ now \in Nat /\ limit \in Int /\ attempt <= limit /\ wake \in Int
  BY LimitType DEF TimedInv, TypeOK
<1>2. attempt' = attempt + 1
  BY DEF Continue
<1> QED
  BY <1>1, <1>2, DelayType, BackoffTakesTime DEF Continue, EndsBefore
\* An attempt without an answer that counts: the network failed.
LEMMA FailInv == ASSUME TimedInv, Fail PROVE TimedInv'
<1> USE DEF TimedInv, TypeOK, settings, history
<1>1. stage = "flight" /\ UNCHANGED <<now, timeout, maxRetries, opens, sends, throttled>>
  BY DEF Fail
<1>2. /\ attempt' = attempt + 1 /\ attempt' \in 1 .. limit + 1
      /\ wake' \in Int
      /\ stage' \in {"failed", "spent", "wait"} /\ resp' = NoResponse
      /\ stage' = "wait" => attempt' <= limit
      /\ stage' = "spent" => attempt' = limit + 1
      /\ stage' = "wait" => wake' > now
  BY ContinueType DEF Fail, Advised
<1>3. limit' = limit
  BY <1>1 DEF limit
<1> QED
  BY <1>1, <1>2, <1>3 DEF EndsByDeadline, LateIsLast, InHand

\* An answer: it belongs to an attempt that left before the deadline.
LEMMA RespondInv ==
  ASSUME TimedInv, NEW r, r # NoResponse, Advised(r) => r.after \in Int, Alive, Respond(r),
         throttled' \in throttled .. throttled + 1
  PROVE  TimedInv'
<1> USE DEF TimedInv, TypeOK, settings
<1>1. stage = "flight" /\ UNCHANGED <<now, timeout, maxRetries, opens, sends>>
  BY DEF Respond
<1>2. /\ attempt' \in 0 .. limit + 1 /\ wake' \in Int
      /\ stage' \in {"failed", "spent", "read", "wait"} /\ resp' = r
      /\ stage' = "wait" => attempt' <= limit /\ attempt' = attempt + 1
      /\ stage' = "spent" => attempt' = limit + 1 /\ attempt' = attempt + 1
      /\ stage' \in {"spent", "wait"} => shouldRetry(r.status)
  <2>1. CASE shouldRetry(r.status)
    BY <1>1, <2>1, ContinueType DEF Respond
  <2>2. CASE ~ shouldRetry(r.status)
    BY <2>2 DEF Respond
  <2> QED
    BY <2>1, <2>2
<1>3. limit' = limit
  BY <1>1 DEF limit
<1>4. LateIsLast'
  <2>1. ASSUME NEW i \in DOMAIN sends, timeout > 0 /\ sends[i] >= timeout PROVE FALSE
    <3>1. i = Len(sends)
      BY <2>1 DEF LateIsLast
    <3> QED
      BY <2>1, <3>1 DEF Alive
  <2> QED
    BY <2>1, <1>1 DEF LateIsLast
<1>5. throttled' \in 0 .. Len(sends')
  BY <1>1
<1>6. stage' \in {"spent", "wait"} => Len(sends') = attempt'
  BY <1>1, <1>2
<1>7. InHand'
  BY <1>2 DEF InHand
<1> QED
  BY <1>1, <1>2, <1>3, <1>4, <1>5, <1>6, <1>7 DEF EndsByDeadline

LEMMA SendInv == ASSUME TimedInv, Send PROVE TimedInv'
<1> USE DEF TimedInv, TypeOK, settings
<1>1. /\ stage = "send" /\ stage' = "flight" /\ sends' = Append(sends, now)
      /\ UNCHANGED <<now, timeout, maxRetries, opens, attempt, wake, throttled>>
  BY DEF Send
<1>2. limit' = limit /\ limit \in Nat
  BY <1>1, LimitType DEF limit
<1>3. now \in 0 .. now /\ sends \in Seq(0 .. now)
  OBVIOUS
<1>4. sends' \in Seq(0 .. now) /\ Len(sends') = Len(sends) + 1
  BY <1>1, <1>3
<1>5. LateIsLast'
  <2>1. ASSUME NEW i \in DOMAIN sends', timeout > 0 /\ sends'[i] >= timeout
        PROVE  i = Len(sends')
    <3>1. CASE i \in DOMAIN sends
      BY <1>1, <1>3, <2>1, <3>1 DEF LateIsLast
    <3>2. CASE i \notin DOMAIN sends
      BY <1>1, <1>3, <1>4, <2>1, <3>2
    <3> QED
      BY <3>1, <3>2
  <2> QED
    BY <1>1, <2>1 DEF LateIsLast
<1> QED
  BY <1>1, <1>2, <1>4, <1>5 DEF EndsByDeadline, InHand

\* At the deadline no case of the select but the context is ready after a late
\* request, and before one the timer leads to the next attempt.
LEMMA SelectInv == ASSUME TimedInv, Select PROVE TimedInv'
<1> USE DEF TimedInv, TypeOK, settings, history
<1>1. /\ stage = "wait"
      /\ UNCHANGED <<now, timeout, maxRetries, opens, attempt, resp, wake, sends, throttled>>
      /\ \/ now >= wake /\ stage' = "send"
         \/ stage' = "failed"
  BY DEF Select, Ready
<1>2. limit' = limit
  BY <1>1 DEF limit
<1> QED
  BY <1>1, <1>2 DEF EndsByDeadline, LateIsLast, InHand

\* The tries are used up.
LEMMA GiveUpInv == ASSUME TimedInv, GiveUp PROVE TimedInv'
<1> USE DEF TimedInv, TypeOK, settings, history
<1>1. /\ stage = "spent" /\ stage' = IF resp = NoResponse THEN "failed" ELSE "read"
      /\ UNCHANGED <<now, timeout, maxRetries, opens, attempt, resp, wake, sends, throttled>>
  BY DEF GiveUp
<1>2. limit' = limit
  BY <1>1 DEF limit
<1> QED
  BY <1>1, <1>2 DEF EndsByDeadline, LateIsLast, InHand

LEMMA ReadBodyInv == ASSUME TimedInv, ReadBody PROVE TimedInv'
<1> USE DEF TimedInv, TypeOK, settings, history
<1>1. /\ stage = "read" /\ stage' \in {"done", "failed"}
      /\ UNCHANGED <<now, timeout, maxRetries, opens, attempt, resp, wake, sends, throttled>>
  BY DEF ReadBody
<1>2. limit' = limit
  BY <1>1 DEF limit
<1> QED
  BY <1>1, <1>2 DEF EndsByDeadline, LateIsLast, InHand

\* Time goes on only before the deadline, and no late request is under way then.
LEMMA TickInv == ASSUME TimedInv, Tick PROVE TimedInv'
<1> USE DEF TimedInv, TypeOK, settings, history
<1>1. /\ now' = now + 1 /\ now < Horizon
      /\ UNCHANGED <<timeout, maxRetries, opens, stage, attempt, resp, wake, sends, throttled>>
  BY DEF Tick
<1>2. limit' = limit
  BY <1>1 DEF limit
<1>3. ~ Expired
  <2>1. Expired => "ctx" \in Ready
    BY DEF Ready
  <2> QED
    BY <2>1 DEF Tick, Waiting
<1>4. sends \in Seq(0 .. now + 1)
  <2>1. 0 .. now \subseteq 0 .. now + 1
    OBVIOUS
  <2> QED
    BY <2>1, SeqMonotonic
<1>5. EndsByDeadline'
  BY <1>1, <1>3 DEF EndsByDeadline, Expired
<1>6. \A i \in DOMAIN sends : timeout > 0 => sends[i] < timeout
  BY <1>3 DEF Expired
<1> QED
  BY <1>1, <1>2, <1>4, <1>5, <1>6 DEF LateIsLast, InHand
LEMMA TimedInvStep == TimedInv /\ [Next]_vars => TimedInv'
<1> SUFFICES ASSUME TimedInv, [Next]_vars PROVE TimedInv'
  OBVIOUS
<1>1. ASSUME Throttle PROVE TimedInv'
  <2> DEFINE r == [status |-> 429, after |-> (opens - now + Second - 1) \div Second]
  <2>1. r.after \in Int /\ r # NoResponse
    BY DEF TimedInv, TypeOK
  <2>2. Alive /\ Respond(r) /\ throttled' \in throttled .. throttled + 1
    BY <1>1 DEF Throttle, TimedInv, TypeOK
  <2> QED
    BY <2>1, <2>2, RespondInv
<1>2. ASSUME Serve PROVE TimedInv'
  <2>1. PICK status \in {200, 503} : Respond([status |-> status, after |-> NoRetryAfter])
    BY <1>2 DEF Serve
  <2>2. Alive /\ throttled' \in throttled .. throttled + 1
    BY <1>2 DEF Serve, TimedInv, TypeOK
  <2>3. /\ ~ Advised([status |-> status, after |-> NoRetryAfter])
        /\ [status |-> status, after |-> NoRetryAfter] # NoResponse
    BY DEF Advised
  <2> QED
    BY <2>1, <2>2, <2>3, RespondInv
<1>3. CASE UNCHANGED vars
  BY <1>3 DEF vars, settings, history, TimedInv, TypeOK, limit, EndsByDeadline, LateIsLast, InHand
<1> QED
  BY <1>1, <1>2, <1>3, SendInv, FailInv, SelectInv, GiveUpInv, ReadBodyInv, TickInv DEF Next

\* Where a call is determines what it has sent, and what may still be sent.
THEOREM TimedInvariance == Spec => []TimedInv
  BY TimedInvInit, TimedInvStep, PTL DEF Spec

\* Every reachable state is well typed, and no try exceeds the budget.
THEOREM TimedTypes == Spec => []TypeOK
<1>1. TimedInv => TypeOK
  BY DEF TimedInv
<1> QED
  BY <1>1, TimedInvariance, PTL

\* However many attempts and waits a call is made of, and whatever the server
\* advises, it takes no longer than its timeout.
THEOREM Deadline == Spec => []EndsByDeadline
<1>1. TimedInv => EndsByDeadline
  BY DEF TimedInv
<1> QED
  BY <1>1, TimedInvariance, PTL

\* One request may leave at or after the deadline, as the select may prefer the
\* timer; a second one never does.
THEOREM LateOnce == Spec => []OneSendAfterDeadline
<1>1. TimedInv => OneSendAfterDeadline
  BY DEF TimedInv, LateIsLast, OneSendAfterDeadline
<1> QED
  BY <1>1, TimedInvariance, PTL

-----------------------------------------------------------------------------
(* The limiter *)

\* time.Duration holds the waits the limiter asks for.
WindowsFit == \A w \in Windows : w + Second <= MaxDuration

\* The whole seconds of Retry-After last until the limiter opens.
LEMMA ThrottleWaits ==
  ASSUME TimedInv, WindowsFit, Throttle, stage' = "wait"
  PROVE  wake' >= opens
<1> DEFINE q == (opens - now + Second - 1) \div Second
           r == [status |-> 429, after |-> q]
<1>1. now \in Nat /\ opens \in Nat /\ now < opens /\ attempt \in Nat
  BY DEF TimedInv, TypeOK, Throttle
<1>2. q \in Int
  BY <1>1
<1>3. q * Second >= opens - now /\ q * Second <= opens - now + Second - 1
  BY <1>1, <1>2, WholeSeconds
<1>4. opens + Second <= MaxDuration
  BY DEF WindowsFit, TimedInv, TypeOK
<1>5. Respond(r)
  BY DEF Throttle
<1> HIDE DEF q
<1>6. Advised(r) /\ shouldRetry(r.status)
  BY <1>2 DEF Advised, shouldRetry
<1>7. Wrap(q * Second) = q * Second
  BY <1>1, <1>2, <1>3, <1>4 DEF Wrap
<1>8. retryDelay(attempt + 1, r) = {q * Second}
  BY <1>6, <1>7 DEF retryDelay
<1>9. wake' = now + q * Second
  BY <1>5, <1>6, <1>8 DEF Respond, Continue
<1> QED
  BY <1>1, <1>2, <1>3, <1>9

LEMMA WaitsStep ==
  WindowsFit /\ TimedInv /\ WaitsForLimiter /\ [Next]_vars => WaitsForLimiter'
<1> SUFFICES ASSUME WindowsFit, TimedInv, WaitsForLimiter, [Next]_vars PROVE WaitsForLimiter'
  OBVIOUS
<1> USE DEF WaitsForLimiter, settings, history
<1>1. throttled \in Nat /\ now \in Nat /\ opens \in Nat /\ wake \in Int
  BY DEF TimedInv, TypeOK
<1>2. CASE Throttle
  <2>1. stage = "flight" /\ now < opens /\ throttled' = throttled + 1 /\ opens' = opens
    BY <1>2 DEF Throttle, Respond
  <2>2. stage' \in {"wait", "spent", "read", "failed"}
    BY <1>2 DEF Throttle, Respond, Continue
  <2> QED
    BY <1>1, <1>2, <2>1, <2>2, ThrottleWaits
<1>3. CASE Serve
  BY <1>1, <1>3 DEF Serve, Respond, Continue
<1>4. CASE Fail
  BY <1>1, <1>4 DEF Fail, Continue
<1>5. CASE Send
  BY <1>1, <1>5 DEF Send
<1>6. CASE Select
  BY <1>1, <1>6 DEF Select, Ready
<1>7. CASE ReadBody
  BY <1>1, <1>7 DEF ReadBody
<1>8. CASE Tick
  BY <1>1, <1>8 DEF Tick
<1>9. CASE GiveUp
  BY <1>1, <1>9 DEF GiveUp
<1>10. CASE UNCHANGED vars
  BY <1>10 DEF vars
<1> QED
  BY <1>2, <1>3, <1>4, <1>5, <1>6, <1>7, <1>8, <1>9, <1>10 DEF Next

\* A limiter whose advice a Duration can hold throttles a call at most once.
THEOREM Throttled == WindowsFit /\ Spec => []NotThrottledTwice
<1>1. Init => WaitsForLimiter
  BY DEF Init, WaitsForLimiter
<1>2. TimedInv /\ WaitsForLimiter => NotThrottledTwice
  BY DEF TimedInv, TypeOK, WaitsForLimiter, NotThrottledTwice
<1>3. WindowsFit => WindowsFit'
  BY DEF WindowsFit
<1> QED
  BY <1>1, <1>2, <1>3, WaitsStep, TimedInvariance, PTL DEF Spec

-----------------------------------------------------------------------------
(* The backoff *)

\* There are twice as many sets of naturals up to n + 1 as there are up to n.
LEMMA PowerDoubles ==
  ASSUME NEW n \in Nat
  PROVE  2 ^ n \in Nat \ {0} /\ 2 ^ (n + 1) = 2 * 2 ^ n
<1> DEFINE A == SUBSET (1 .. n)
           B == {a \cup {n + 1} : a \in A}
           f == [a \in A |-> a \cup {n + 1}]
<1>1. ASSUME NEW m \in Nat
      PROVE  /\ IsFiniteSet(SUBSET (1 .. m)) /\ Cardinality(SUBSET (1 .. m)) = 2 ^ m
             /\ 2 ^ m \in Nat \ {0}
  <2>1. 1 \in Int /\ m \in Int
    OBVIOUS
  <2>2. IsFiniteSet(1 .. m) /\ Cardinality(1 .. m) = IF 1 > m THEN 0 ELSE m - 1 + 1
    BY <2>1, FS_Interval
  <2>3. Cardinality(1 .. m) = m
    BY <2>2
  <2>4. PICK T : T = 1 .. m
    OBVIOUS
  <2>5. IsFiniteSet(SUBSET T) /\ Cardinality(SUBSET T) = 2 ^ Cardinality(T)
    BY <2>2, <2>4, FS_SUBSET
  <2>6. Cardinality(SUBSET T) \in Nat
    BY <2>5, FS_CardinalityType
  <2>7. Cardinality(SUBSET T) # 0
    <3>1. SUBSET T # {}
      OBVIOUS
    <3> QED
      BY <2>5, <3>1, FS_EmptySet
  <2> QED
    BY <2>3, <2>4, <2>5, <2>6, <2>7
<1>2. IsFiniteSet(A) /\ Cardinality(A) = 2 ^ n /\ 2 ^ n \in Nat \ {0}
  BY <1>1
<1>3. \A a \in A : n + 1 \notin a
  OBVIOUS
<1>4. f \in Bijection(A, B)
  <2>1. f \in [A -> B] /\ \A b \in B : \E a \in A : f[a] = b
    OBVIOUS
  <2>2. ASSUME NEW a \in A, NEW b \in A, f[a] = f[b] PROVE a = b
    <3>1. a = (a \cup {n + 1}) \ {n + 1} /\ b = (b \cup {n + 1}) \ {n + 1}
      BY <1>3
    <3> QED
      BY <2>2, <3>1
  <2> HIDE DEF A, B, f
  <2> QED
    BY <2>1, <2>2 DEF Bijection, Injection, Surjection, IsInjective
<1>5. IsFiniteSet(B) /\ Cardinality(B) = 2 ^ n
  <2> HIDE DEF A, B, f
  <2>1. ExistsBijection(A, B)
    BY <1>4 DEF ExistsBijection
  <2> QED
    BY <1>2, <2>1, FS_Bijection
<1>6. A \cap B = {}
  BY <1>3
<1>7. SUBSET (1 .. n + 1) = A \cup B
  <2>1. ASSUME NEW a \in A
        PROVE  a \in SUBSET (1 .. n + 1) /\ a \cup {n + 1} \in SUBSET (1 .. n + 1)
    OBVIOUS
  <2>2. ASSUME NEW c \in SUBSET (1 .. n + 1) PROVE c \in A \cup B
    <3>1. c \ {n + 1} \in A
      OBVIOUS
    <3>2. CASE n + 1 \in c
      <4>1. c = (c \ {n + 1}) \cup {n + 1}
        BY <3>2
      <4> QED
        BY <3>1, <4>1
    <3>3. CASE n + 1 \notin c
      <4>1. c = c \ {n + 1}
        BY <3>3
      <4> QED
        BY <3>1, <4>1
    <3> QED
      BY <3>2, <3>3
  <2>3. ASSUME NEW c \in A \cup B PROVE c \in SUBSET (1 .. n + 1)
    BY <2>1
  <2> HIDE DEF A, B
  <2> QED
    BY <2>2, <2>3
<1>8. Cardinality(A \cup B) = 2 ^ n + 2 ^ n - Cardinality({})
  <2> HIDE DEF A, B
  <2> QED
    BY <1>2, <1>5, <1>6, FS_Union
<1>9. Cardinality(SUBSET (1 .. n + 1)) = 2 ^ (n + 1)
  <2>1. n + 1 \in Nat
    OBVIOUS
  <2> HIDE DEF A, B
  <2> QED
    BY <1>1, <2>1
<1>10. Cardinality({}) = 0
  BY FS_EmptySet
<1> HIDE DEF A, B
<1>11. 2 ^ (n + 1) = 2 ^ n + 2 ^ n - 0
  BY <1>7, <1>8, <1>9, <1>10
<1>12. PICK p \in Nat \ {0} : p = 2 ^ n
  BY <1>2
<1>13. 2 ^ (n + 1) = 2 * p
  BY <1>11, <1>12
<1> QED
  BY <1>12, <1>13

\* time.Duration holds the exponentials of all retries, and halves them exactly.
BackoffFits ==
    /\ Second % 2 = 0
    /\ \A m \in RetrySettings : \A n \in 1 .. m : 2 ^ (n - 1) * Second <= MaxDuration

\* Half an exponential at least is waited for before a retry without advice.
LEMMA BackoffHalves ==
  ASSUME BackoffFits, TypeOK, NEW n \in 1 .. limit, NEW r, ~ Advised(r), NEW d \in retryDelay(n, r)
  PROVE  2 * d >= 2 ^ (n - 1) * Second
<1>1. PICK p \in Nat : p = 2 ^ (n - 1)
  <2>1. n - 1 \in Nat
    BY LimitType
  <2> QED
    BY <2>1, PowerDoubles
<1>2. limit = maxRetries /\ maxRetries \in RetrySettings
  BY DEF TypeOK, limit
<1>3. p * Second <= MaxDuration
  BY <1>1, <1>2 DEF BackoffFits
<1>4. PICK w \in Nat : w = p * Second
  OBVIOUS
<1>5. Wrap(w) = w
  BY <1>3, <1>4 DEF Wrap
<1>6. w % 2 = 0
  <2>1. PICK h \in Nat : Second = 2 * h
    <3>1. Second % 2 = 0
      BY DEF BackoffFits
    <3>2. Second = 2 * (Second \div 2) /\ Second \div 2 \in Nat
      BY <3>1
    <3> QED
      BY <3>2
  <2>2. w = 2 * (p * h) /\ p * h \in Nat
    BY <1>4, <2>1
  <2> QED
    BY <2>2
<1>7. d \in w \div 2 .. (w \div 2 + w \div 2 - 1)
  BY <1>1, <1>4, <1>5 DEF retryDelay
<1>8. 2 * d >= w
  BY <1>6, <1>7
<1> QED
  BY <1>1, <1>4, <1>8

\* The halves add up: what has been waited for, and half the next exponential.
LEMMA Doubled ==
  ASSUME NEW n \in Nat, n > 0, NEW s \in Int, NEW t \in Int, NEW d \in Int,
         2 * (t - s) >= (2 ^ (n - 1) - 1) * Second, 2 * d >= 2 ^ (n - 1) * Second
  PROVE  2 * (t + d - s) >= (2 ^ n - 1) * Second
<1>1. PICK p \in Nat : p = 2 ^ (n - 1)
  BY PowerDoubles
<1>2. 2 ^ n = 2 * p
  <2>1. n - 1 \in Nat /\ (n - 1) + 1 = n
    OBVIOUS
  <2> QED
    BY <1>1, <2>1, PowerDoubles
<1>3. (p - 1) * Second = p * Second - Second /\ (2 * p - 1) * Second = 2 * (p * Second) - Second
  OBVIOUS
<1>4. PICK w \in Nat : w = p * Second
  OBVIOUS
<1>5. 2 * (t - s) >= w - Second /\ 2 * d >= w
  BY <1>1, <1>3, <1>4
<1>6. 2 * (t + d - s) >= 2 * w - Second
  BY <1>5
<1> QED
  BY <1>2, <1>3, <1>4, <1>6

\* An attempt that is not answered, or answered without advice.
LEMMA ContinueAddsUp ==
  ASSUME BackoffFits, TimedInv, KeepsAddingUp, throttled = 0, stage = "flight",
         NEW r, ~ Advised(r), Continue(r), stage' = "wait", sends' = sends
  PROVE  2 * (wake' - sends[1]) >= (2 ^ attempt' - 1) * Second
<1>1. /\ attempt \in Nat /\ now \in Nat /\ limit \in Nat /\ Len(sends) = attempt + 1
      /\ sends \in Seq(0 .. now) /\ TypeOK
  BY LimitType DEF TimedInv, TypeOK
<1>2. attempt' = attempt + 1 /\ attempt' \in 1 .. limit
  BY <1>1 DEF Continue, EndsBefore
<1>3. PICK d \in retryDelay(attempt', r) : wake' = now + d
  BY DEF Continue
<1>4. 2 * d >= 2 ^ (attempt' - 1) * Second
  BY <1>1, <1>2, <1>3, BackoffHalves
<1>5. d \in Int
  BY <1>2, <1>3, BackoffTakesTime
<1>6. attempt' \in DOMAIN sends /\ 1 \in DOMAIN sends
  BY <1>1, <1>2
<1>7. PICK s \in Int, t \in Int : s = sends[1] /\ t = sends[attempt'] /\ t <= now
  BY <1>1, <1>6
<1>8. 2 * (t - s) >= (2 ^ (attempt' - 1) - 1) * Second
  BY <1>6, <1>7 DEF KeepsAddingUp, SpacedOut
<1>9. 2 * (t + d - s) >= (2 ^ attempt' - 1) * Second
  BY <1>1, <1>2, <1>4, <1>5, <1>8, Doubled
<1>10. PICK b \in Int : b = (2 ^ attempt' - 1) * Second
  BY <1>1, <1>2, PowerDoubles
<1>11. now \in Int /\ 2 * (t + d - s) >= b
  BY <1>1, <1>9, <1>10
<1>12. 2 * (now + d - s) >= b
  BY <1>5, <1>7, <1>11
<1>13. wake' - sends[1] = now + d - s
  BY <1>3, <1>5, <1>7, <1>11
<1> QED
  BY <1>10, <1>12, <1>13

LEMMA SendAddsUp ==
  ASSUME TimedInv, KeepsAddingUp, throttled = 0, Send
  PROVE  \A k \in DOMAIN sends' : 2 * (sends'[k] - sends'[1]) >= (2 ^ (k - 1) - 1) * Second
<1>1. /\ stage = "send" /\ sends' = Append(sends, now) /\ Len(sends) = attempt
      /\ sends \in Seq(0 .. now) /\ now \in Nat /\ attempt \in Nat
  BY DEF Send, TimedInv, TypeOK
<1>2. /\ DOMAIN sends' = 1 .. attempt + 1 /\ DOMAIN sends = 1 .. attempt
      /\ sends'[attempt + 1] = now /\ \A k \in 1 .. attempt : sends'[k] = sends[k]
  <2>1. now \in 0 .. now
    BY <1>1
  <2> QED
    BY <1>1, <2>1
<1>3. ASSUME NEW k \in 1 .. attempt
      PROVE  2 * (sends'[k] - sends'[1]) >= (2 ^ (k - 1) - 1) * Second
  <2>1. sends'[k] = sends[k] /\ sends'[1] = sends[1]
    BY <1>1, <1>2
  <2>2. 2 * (sends[k] - sends[1]) >= (2 ^ (k - 1) - 1) * Second
    BY <1>2 DEF KeepsAddingUp, SpacedOut
  <2> QED
    BY <2>1, <2>2
<1>4. 2 * (sends'[attempt + 1] - sends'[1]) >= (2 ^ attempt - 1) * Second
  <2>1. CASE attempt = 0
    <3>1. sends'[attempt + 1] = now /\ sends'[1] = now
      BY <1>2, <2>1
    <3>2. (2 ^ 0 - 1) * Second = 0
      <4>1. 2 ^ 0 = 1
        OBVIOUS
      <4> QED
        BY <4>1
    <3> QED
      BY <1>1, <2>1, <3>1, <3>2
  <2>2. CASE attempt > 0
    <3>1. sends'[attempt + 1] = now /\ sends'[1] = sends[1]
      BY <1>1, <1>2, <2>2
    <3> QED
      BY <1>1, <2>2, <3>1 DEF KeepsAddingUp, SpacedOut
  <2> QED
    BY <1>1, <2>1, <2>2
<1>5. \A k \in 1 .. attempt + 1 : k \in 1 .. attempt \/ k = attempt + 1
  BY <1>1
<1>6. ASSUME NEW k \in 1 .. attempt + 1
      PROVE  2 * (sends'[k] - sends'[1]) >= (2 ^ (k - 1) - 1) * Second
  <2>1. CASE k = attempt + 1
    <3>1. k - 1 = attempt
      BY <1>1, <2>1
    <3> QED
      BY <1>4, <2>1, <3>1
  <2>2. CASE k \in 1 .. attempt
    BY <1>3, <2>2
  <2> QED
    BY <1>5, <2>1, <2>2
<1> QED
  BY <1>2, <1>6

LEMMA AddsUpStep ==
  BackoffFits /\ TimedInv /\ KeepsAddingUp /\ [Next]_vars => KeepsAddingUp'
<1> SUFFICES ASSUME BackoffFits, TimedInv, KeepsAddingUp, [Next]_vars, throttled' = 0
             PROVE  /\ \A k \in DOMAIN sends' : SpacedOut(sends[k], k - 1)'
                    /\ stage' = "wait" => SpacedOut(wake, attempt)'
                    /\ stage' = "send" /\ attempt' > 0 => SpacedOut(now, attempt)'
  BY DEF KeepsAddingUp
<1> USE DEF settings, history
<1>1. throttled = 0 /\ attempt \in Nat /\ now \in Nat /\ wake \in Int /\ Len(sends) \in Nat
  BY DEF TimedInv, TypeOK, Next, vars, Throttle, Serve, Fail, Send, Select, GiveUp, ReadBody, Tick
<1>2. \A k \in DOMAIN sends : SpacedOut(sends[k], k - 1)
  BY <1>1 DEF KeepsAddingUp
<1>3. ASSUME NEW r, ~ Advised(r), Continue(r), stage = "flight", sends' = sends
      PROVE  /\ \A k \in DOMAIN sends' : SpacedOut(sends[k], k - 1)'
             /\ stage' = "wait" => SpacedOut(wake, attempt)'
             /\ stage' # "send"
  <2>1. \A k \in DOMAIN sends' : SpacedOut(sends[k], k - 1)'
    BY <1>2, <1>3 DEF SpacedOut
  <2>2. ASSUME stage' = "wait" PROVE 2 * (wake' - sends[1]) >= (2 ^ attempt' - 1) * Second
    BY <1>1, <1>3, <2>2, ContinueAddsUp
  <2> QED
    BY <1>3, <2>1, <2>2 DEF Continue, SpacedOut
<1>4. CASE Throttle
  BY <1>1, <1>4 DEF Throttle
<1>5. CASE Serve
  <2>1. PICK status \in {200, 503} : Respond([status |-> status, after |-> NoRetryAfter])
    BY <1>5 DEF Serve
  <2>2. ~ Advised([status |-> status, after |-> NoRetryAfter])
    BY DEF Advised
  <2>3. sends' = sends /\ stage = "flight"
    BY <2>1 DEF Respond
  <2>4. CASE shouldRetry(status)
    BY <1>3, <2>1, <2>2, <2>3, <2>4 DEF Respond
  <2>5. CASE ~ shouldRetry(status)
    BY <1>2, <2>1, <2>3, <2>5 DEF Respond, SpacedOut
  <2> QED
    BY <2>4, <2>5
<1>6. CASE Fail
  <2>1. ~ Advised(NoResponse)
    BY DEF Advised
  <2> QED
    BY <1>3, <1>6, <2>1 DEF Fail
<1>7. CASE Send
  <2>1. \A k \in DOMAIN sends' : 2 * (sends'[k] - sends'[1]) >= (2 ^ (k - 1) - 1) * Second
    BY <1>1, <1>7, SendAddsUp
  <2>2. stage' = "flight"
    BY <1>7 DEF Send
  <2> QED
    BY <2>1, <2>2 DEF SpacedOut
<1>8. CASE Select
  <2>1. /\ stage = "wait" /\ sends' = sends /\ attempt' = attempt /\ now' = now
        /\ (stage' = "send" /\ now >= wake) \/ stage' = "failed"
    BY <1>8 DEF Select, Ready
  <2>2. SpacedOut(wake, attempt)
    BY <1>1, <2>1 DEF KeepsAddingUp
  <2>3. ASSUME attempt > 0, now >= wake PROVE SpacedOut(now, attempt)
    <3>1. attempt \in DOMAIN sends /\ 1 \in DOMAIN sends /\ sends \in Seq(0 .. now)
      BY <1>1, <2>1, <2>3 DEF TimedInv, TypeOK
    <3>2. PICK s \in Int : s = sends[1]
      BY <1>1, <3>1
    <3>3. 2 ^ attempt \in Nat
      BY <1>1, PowerDoubles
    <3>4. PICK b \in Int : b = (2 ^ attempt - 1) * Second
      BY <3>3
    <3>5. 2 * (wake - s) >= b
      BY <2>2, <3>2, <3>3, <3>4 DEF SpacedOut
    <3>6. 2 * (now - s) >= b
      BY <1>1, <2>3, <3>5
    <3> QED
      BY <3>2, <3>3, <3>4, <3>6 DEF SpacedOut
  <2> QED
    BY <1>2, <2>1, <2>3 DEF SpacedOut
<1>9. CASE ReadBody
  BY <1>2, <1>9 DEF ReadBody, SpacedOut
<1>10. CASE Tick
  <2>1. /\ now' = now + 1 /\ sends' = sends /\ attempt' = attempt /\ stage' = stage
        /\ wake' = wake /\ throttled' = throttled
    BY <1>10 DEF Tick
  <2>2. ASSUME stage = "send", attempt > 0 PROVE SpacedOut(now, attempt)'
    <3>1. 1 \in DOMAIN sends /\ sends \in Seq(0 .. now)
      BY <1>1, <2>2 DEF TimedInv, TypeOK
    <3>2. PICK s \in Int : s = sends[1]
      BY <1>1, <3>1
    <3>3. 2 ^ attempt \in Nat
      BY <1>1, PowerDoubles
    <3>4. PICK b \in Int : b = (2 ^ attempt - 1) * Second
      BY <3>3
    <3>5. 2 * (now - s) >= b
      BY <1>1, <2>2, <3>2, <3>3, <3>4 DEF KeepsAddingUp, SpacedOut
    <3>6. 2 * (now' - s) >= b
      BY <1>1, <2>1, <3>5
    <3> QED
      BY <2>1, <3>2, <3>3, <3>4, <3>6 DEF SpacedOut
  <2> QED
    BY <1>1, <1>2, <2>1, <2>2 DEF KeepsAddingUp, SpacedOut
<1>11. CASE UNCHANGED vars
  BY <1>1, <1>11 DEF vars, KeepsAddingUp, SpacedOut
<1>12. CASE GiveUp
  BY <1>2, <1>12 DEF GiveUp, SpacedOut
<1> QED
  BY <1>4, <1>5, <1>6, <1>7, <1>8, <1>9, <1>10, <1>11, <1>12 DEF Next

\* If a Duration can hold the exponentials of all the retries a client may be
\* configured with, the waits before them add up as documented.
THEOREM Backoff == BackoffFits /\ Spec => []BackoffAddsUp
<1>1. Init => KeepsAddingUp
  BY DEF Init, KeepsAddingUp
<1>2. KeepsAddingUp => BackoffAddsUp
  BY DEF KeepsAddingUp, SpacedOut, BackoffAddsUp
<1>3. BackoffFits => BackoffFits'
  BY DEF BackoffFits
<1> QED
  BY <1>1, <1>2, <1>3, AddsUpStep, TimedInvariance, PTL DEF Spec

-----------------------------------------------------------------------------
(* The contract *)

\* The jitter does not panic before a retry whose exponential fits.
LEMMA NoPanic ==
  ASSUME BackoffFits, TypeOK, NEW n \in 1 .. limit, NEW r
  PROVE  retryDelay(n, r) # {}
<1>1. CASE Advised(r)
  BY <1>1 DEF retryDelay
<1>2. CASE ~ Advised(r)
  <2>1. PICK p \in Nat \ {0} : p = 2 ^ (n - 1)
    <3>1. n - 1 \in Nat
      BY LimitType
    <3> QED
      BY <3>1, PowerDoubles
  <2>2. limit = maxRetries /\ maxRetries \in RetrySettings
    BY DEF TypeOK, limit
  <2>3. p * Second <= MaxDuration
    BY <2>1, <2>2 DEF BackoffFits
  <2>4. PICK w \in Nat : w = p * Second
    OBVIOUS
  <2>5. w >= 2
    BY <2>4
  <2>6. Wrap(w) = w
    BY <2>3, <2>4 DEF Wrap
  <2>7. retryDelay(n, r) = w \div 2 .. (w \div 2 + w \div 2 - 1)
    BY <1>2, <2>1, <2>4, <2>6 DEF retryDelay
  <2>8. w \div 2 \in w \div 2 .. (w \div 2 + w \div 2 - 1)
    BY <2>5
  <2> QED
    BY <2>7, <2>8
<1> QED
  BY <1>1, <1>2

\* An answer or an error that is retried is one the contract may retry after.
LEMMA ContinueRefines ==
  ASSUME BackoffFits, TimedInv, stage = "flight", NEW r, r = NoResponse \/ shouldRetry(r.status),
         Advised(r) => r.after \in Int, Continue(r), UNCHANGED <<maxRetries, sends>>
  PROVE  Contract!Retryable("call")
<1>1. /\ attempt' = attempt + 1 /\ attempt' \in 1 .. limit + 1
      /\ stage' \in {"failed", "spent", "wait"} /\ resp' = r
  BY ContinueType
<1>2. limit \in Nat /\ limit' = limit /\ TypeOK
  BY LimitType DEF limit, TimedInv
<1>3. stage' # "failed"
  <2>1. CASE attempt' \in 1 .. limit
    BY <1>2, <2>1, NoPanic DEF Continue, EndsBefore
  <2>2. CASE attempt' > limit
    BY <2>2 DEF Continue, EndsBefore
  <2> QED
    BY <1>1, <1>2, <2>1, <2>2
<1>4. LatestAnswer = "awaited" /\ LatestAnswer' \in {"none", "transient"}
  BY <1>1, <1>3 DEF LatestAnswer
<1>5. Outcome = "open" /\ Outcome' = "open"
  BY <1>1, <1>3 DEF Outcome
<1> QED
  BY <1>2, <1>4, <1>5 DEF Contract!Retryable

LEMMA RespondRefines ==
  ASSUME BackoffFits, TimedInv, NEW r, r # NoResponse, Advised(r) => r.after \in Int, Respond(r)
  PROVE  Contract!Next
<1> USE DEF settings
<1>1. CASE shouldRetry(r.status)
  BY <1>1, ContinueRefines DEF Respond, Contract!Next
<1>2. CASE ~ shouldRetry(r.status)
  <2>1. /\ stage = "flight" /\ stage' = "read" /\ resp' = r
        /\ UNCHANGED <<maxRetries, attempt, sends>>
    BY <1>2 DEF Respond
  <2>2. limit' = limit
    BY <2>1 DEF limit
  <2>3. /\ LatestAnswer = "awaited" /\ LatestAnswer' = "final"
        /\ Outcome = "open" /\ Outcome' = "final"
    BY <1>2, <2>1 DEF LatestAnswer, Outcome
  <2>4. Contract!Final("call")
    BY <2>1, <2>2, <2>3 DEF Contract!Final
  <2> QED
    BY <2>4 DEF Contract!Next
<1> QED
  BY <1>1, <1>2

LEMMA SendRefines == ASSUME TimedInv, Send PROVE Contract!Next
<1>1. /\ stage = "send" /\ stage' = "flight" /\ sends' = Append(sends, now)
      /\ UNCHANGED <<maxRetries, attempt, resp>>
  BY DEF Send, settings
<1>2. limit' = limit /\ limit \in Nat
  BY <1>1, LimitType DEF limit, TimedInv
<1>3. Len(sends') = Len(sends) + 1 /\ Len(sends) < limit + 1 /\ Len(sends) \in Nat
  <2>1. now \in 0 .. now /\ sends \in Seq(0 .. now) /\ Len(sends) = attempt /\ attempt <= limit
    BY <1>1 DEF TimedInv, TypeOK
  <2> QED
    BY <1>1, <1>2, <2>1
<1>4. LatestAnswer # "awaited" /\ LatestAnswer' = "awaited"
  BY <1>1 DEF LatestAnswer
<1>5. Outcome = "open" /\ Outcome' = "open"
  BY <1>1 DEF Outcome
<1>6. Contract!Try("call")
  BY <1>2, <1>3, <1>4, <1>5 DEF Contract!Try
<1> QED
  BY <1>6 DEF Contract!Next

\* The context ends a backoff, or the timer leads to the next attempt.
LEMMA SelectRefines == ASSUME TimedInv, Select PROVE Contract!Next \/ UNCHANGED Contract!vars
<1>1. /\ stage = "wait" /\ stage' \in {"send", "failed"}
      /\ UNCHANGED <<maxRetries, attempt, resp, sends>>
  BY DEF Select, settings, history
<1>2. limit' = limit /\ limit \in Nat /\ attempt \in Nat
  BY <1>1, LimitType DEF limit, TimedInv, TypeOK
<1>3. Len(sends) < limit + 1 /\ attempt <= limit /\ (resp = NoResponse \/ shouldRetry(resp.status))
  BY <1>1, <1>2 DEF TimedInv, InHand
<1>4. LatestAnswer # "awaited" /\ LatestAnswer' = LatestAnswer /\ Outcome = "open"
  BY <1>1 DEF LatestAnswer, Outcome
<1>5. CASE stage' = "send"
  <2>1. Outcome' = "open"
    BY <1>5 DEF Outcome
  <2> QED
    BY <1>1, <1>2, <1>4, <2>1 DEF Contract!vars
<1>6. CASE stage' = "failed"
  <2>1. Outcome' = "aborted"
    BY <1>1, <1>2, <1>3, <1>6 DEF Outcome
  <2>2. Contract!Aborted("call")
    BY <1>1, <1>2, <1>3, <1>4, <2>1 DEF Contract!Aborted
  <2> QED
    BY <2>2 DEF Contract!Next
<1> QED
  BY <1>1, <1>5, <1>6

LEMMA GiveUpRefines == ASSUME TimedInv, GiveUp PROVE Contract!Next
<1>1. /\ stage = "spent" /\ stage' = IF resp = NoResponse THEN "failed" ELSE "read"
      /\ UNCHANGED <<maxRetries, attempt, resp, sends>>
  BY DEF GiveUp, settings, history
<1>2. limit' = limit /\ limit \in Nat
  BY <1>1, LimitType DEF limit, TimedInv
<1>3. /\ Len(sends) = limit + 1 /\ attempt = limit + 1
      /\ resp = NoResponse \/ shouldRetry(resp.status)
  BY <1>1 DEF TimedInv, InHand
<1>4. LatestAnswer' = LatestAnswer /\ LatestAnswer = IF resp = NoResponse THEN "none" ELSE "transient"
  BY <1>1, <1>3 DEF LatestAnswer
<1>5. /\ Outcome = "open"
      /\ Outcome' = IF resp = NoResponse THEN "last error" ELSE "last response"
  <2>1. ~ (attempt <= limit) /\ stage' \in {"failed", "read"}
    BY <1>1, <1>2, <1>3
  <2> QED
    BY <1>1, <1>2, <1>3, <2>1 DEF Outcome
<1>6. Contract!Exhausted("call")
  BY <1>1, <1>2, <1>3, <1>4, <1>5 DEF Contract!Exhausted
<1> QED
  BY <1>6 DEF Contract!Next

LEMMA ContractStep ==
  BackoffFits /\ TimedInv /\ [Next]_vars => [Contract!Next]_(Contract!vars)
<1> SUFFICES ASSUME BackoffFits, TimedInv, [Next]_vars
             PROVE  Contract!Next \/ UNCHANGED Contract!vars
  OBVIOUS
<1> USE DEF settings, history
<1>1. CASE Throttle
  <2> DEFINE r == [status |-> 429, after |-> (opens - now + Second - 1) \div Second]
  <2>1. r.after \in Int /\ r # NoResponse /\ Respond(r)
    BY <1>1 DEF Throttle, TimedInv, TypeOK
  <2> HIDE DEF r
  <2> QED
    BY <2>1, RespondRefines
<1>2. CASE Serve
  <2>1. PICK status \in {200, 503} : Respond([status |-> status, after |-> NoRetryAfter])
    BY <1>2 DEF Serve
  <2>2. /\ ~ Advised([status |-> status, after |-> NoRetryAfter])
        /\ [status |-> status, after |-> NoRetryAfter] # NoResponse
    BY DEF Advised
  <2> QED
    BY <2>1, <2>2, RespondRefines
<1>3. CASE Fail
  <2>1. ~ Advised(NoResponse)
    BY DEF Advised
  <2>2. Contract!Retryable("call")
    BY <1>3, <2>1, ContinueRefines DEF Fail
  <2> QED
    BY <2>2 DEF Contract!Next
<1>4. ASSUME UNCHANGED <<maxRetries, attempt, resp, sends>>,
             stage' = stage \/ (stage = "read" /\ stage' \in {"done", "failed"})
      PROVE  UNCHANGED Contract!vars
  <2>1. limit' = limit
    BY <1>4 DEF limit
  <2>2. LatestAnswer' = LatestAnswer
    BY <1>4 DEF LatestAnswer
  <2>3. Outcome' = Outcome
    BY <1>4, <2>1 DEF Outcome
  <2> QED
    BY <1>4, <2>1, <2>2, <2>3 DEF Contract!vars
<1>5. CASE ReadBody
  BY <1>4, <1>5 DEF ReadBody
<1>6. CASE Tick
  BY <1>4, <1>6 DEF Tick
<1>7. CASE UNCHANGED vars
  BY <1>4, <1>7 DEF vars
<1> QED
  BY <1>1, <1>2, <1>3, <1>5, <1>6, <1>7, SendRefines, SelectRefines, GiveUpRefines DEF Next

\* The loop against the clock keeps the contract of a retried request, as
\* RoundTrip does, as long as the jitter cannot panic.
THEOREM TimedImplements == BackoffFits /\ Spec => TimedContract
<1>1. Init => Contract!Init
  <2> SUFFICES ASSUME Init PROVE Contract!Init
    OBVIOUS
  <2>1. limit \in Nat /\ Len(sends) = 0 /\ LatestAnswer = "none" /\ Outcome = "open"
    BY DEF Init, limit, LatestAnswer, Outcome
  <2> QED
    BY <2>1 DEF Contract!Init
<1>2. BackoffFits => BackoffFits'
  BY DEF BackoffFits
<1> QED
  BY <1>1, <1>2, ContractStep, TimedInvariance, PTL DEF Spec, TimedContract, Contract!Spec
=============================================================================
