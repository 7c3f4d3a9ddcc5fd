------------------------------- MODULE ApiProofs -------------------------------
(* Proofs about typed calls, for any base URL, options and number of calls. *)
EXTENDS TableProofs

-----------------------------------------------------------------------------
(* URLs *)

Below(base, n, path) == SubSeq(base, 1, n) \o path

\* The URL of a request is the operation's path below the base URL, whatever
\* slashes that ends with.
LEMMA UrlBelowBase ==
  ASSUME NEW S, NEW base \in Seq(S), NEW o, NEW slash
  PROVE  \E n \in 0 .. Len(base) :
            /\ n = 0 \/ base[n] # slash
            /\ \A i \in n + 1 .. Len(base) : base[i] = slash
            /\ slash = "" => UrlOf(base, o) = Below(base, n, RequestOf(o).path)
<1>1. PICK n \in 0 .. Len(base) :
         /\ n = 0 \/ base[n] # slash
         /\ \A i \in n + 1 .. Len(base) : base[i] = slash
         /\ IF Others(base, slash) = {} THEN n = 0 ELSE n = Max(Others(base, slash))
  BY LastOther
<1>2. PICK t : t = SubSeq(base, 1, n)
  OBVIOUS
<1>3. t \in Seq(S) /\ Len(t) = n /\ \A i \in 1 .. n : t[i] = base[i]
  BY <1>2, Slice
<1>4. n = 0 => t = << >>
  BY <1>3
<1>5. ASSUME slash = "" PROVE TrimSlashes(base) = t
  BY <1>1, <1>2, <1>4, <1>5 DEF TrimSlashes, Others
<1>6. t # << >> => t[Len(t)] # slash
  <2>1. t # << >> => n \in 1 .. n
    BY <1>4
  <2> QED
    BY <1>1, <1>3, <2>1
<1>7. ASSUME slash = "" PROVE EnsureSlash(t) = Append(t, slash)
  BY <1>6, <1>7 DEF EnsureSlash
<1>8. SubSeq(Append(t, slash), 1, Len(Append(t, slash)) - 1) = t
  <2>1. S \subseteq S \cup {slash}
    OBVIOUS
  <2>2. t \in Seq(S \cup {slash})
    BY <1>3, <2>1, SeqMonotonic
  <2> QED
    BY <2>2, SliceOfAppend
<1>9. slash = "" => UrlOf(base, o) = t \o RequestOf(o).path
  BY <1>5, <1>7, <1>8 DEF UrlOf, Resolve
<1>10. slash = "" => UrlOf(base, o) = Below(base, n, RequestOf(o).path)
  BY <1>2, <1>9 DEF Below
<1> QED
  BY <1>1, <1>10
-----------------------------------------------------------------------------
(* Configuration *)

\* The fold over the options, as a function from the sets of their indices.
Folded(opts, after) ==
    after = [s \in SUBSET DOMAIN opts |->
                IF s = {} THEN Default ELSE applyOption(after[s \ {Max(s)}], opts[Max(s)])]

\* The last of the options with these indices that sets the field.
Setting(opts, s, f) == {i \in s : opts[i].field = f}
LastOf(opts, s, f) ==
    IF Setting(opts, s, f) = {} THEN Default[f] ELSE opts[Max(Setting(opts, s, f))].value
LastsOf(opts, s) == [f \in DOMAIN Default |-> LastOf(opts, s, f)]

LEMMA ConfiguredFolds ==
  ASSUME NEW opts
  PROVE  configured(opts) = (CHOOSE after : Folded(opts, after))[DOMAIN opts]
  BY DEF configured, Folded, FoldLeft, MapThenFoldSet

\* An option sets its field, whatever was set before.
LEMMA LastOfMore ==
  ASSUME NEW R, NEW opts \in Seq(R), NEW s \in SUBSET DOMAIN opts, s # {}
  PROVE  /\ Max(s) \in s /\ \A i \in s : Max(s) >= i
         /\ LastsOf(opts, s) = applyOption(LastsOf(opts, s \ {Max(s)}), opts[Max(s)])
<1>1. DOMAIN opts = 1 .. Len(opts) /\ Len(opts) \in Nat
  OBVIOUS
<1>2. Max(s) \in s /\ \A i \in s : Max(s) >= i
  BY <1>1, MaxIndex
<1>3. PICK m \in s : m = Max(s)
  BY <1>2
<1>4. ASSUME NEW f, opts[m].field = f PROVE LastOf(opts, s, f) = opts[m].value
  <2>1. Setting(opts, s, f) \in SUBSET (1 .. Len(opts)) /\ m \in Setting(opts, s, f)
    BY <1>1, <1>4 DEF Setting
  <2>2. Max(Setting(opts, s, f)) \in Setting(opts, s, f) /\ Max(Setting(opts, s, f)) >= m
    BY <1>1, <2>1, MaxIndex
  <2>3. Max(Setting(opts, s, f)) \in s /\ m >= Max(Setting(opts, s, f))
    BY <1>2, <1>3, <2>2 DEF Setting
  <2>4. Max(Setting(opts, s, f)) = m
    BY <1>1, <2>2, <2>3
  <2> QED
    BY <2>1, <2>4 DEF LastOf
<1>5. ASSUME NEW f, opts[m].field # f PROVE LastOf(opts, s, f) = LastOf(opts, s \ {m}, f)
  <2>1. Setting(opts, s, f) = Setting(opts, s \ {m}, f)
    BY <1>5 DEF Setting
  <2> QED
    BY <2>1 DEF LastOf
<1>6. LastsOf(opts, s) = applyOption(LastsOf(opts, s \ {m}), opts[m])
  BY <1>4, <1>5 DEF LastsOf, applyOption
<1> QED
  BY <1>2, <1>3, <1>6

\* The last settings are a fold of the options, and there is no other.
LEMMA LastsFold ==
  ASSUME NEW R, NEW opts \in Seq(R)
  PROVE  Folded(opts, [s \in SUBSET DOMAIN opts |-> LastsOf(opts, s)])
<1> DEFINE lasts == [s \in SUBSET DOMAIN opts |-> LastsOf(opts, s)]
<1>1. LastsOf(opts, {}) = Default
  BY DEF LastsOf, LastOf, Setting, Default
<1>2. ASSUME NEW s \in SUBSET DOMAIN opts, s # {}
      PROVE  lasts[s] = applyOption(lasts[s \ {Max(s)}], opts[Max(s)])
  BY <1>2, LastOfMore
<1>3. \A s \in SUBSET DOMAIN opts :
         lasts[s] = IF s = {} THEN Default ELSE applyOption(lasts[s \ {Max(s)}], opts[Max(s)])
  BY <1>1, <1>2
<1> QED
  BY <1>3 DEF Folded

LEMMA FoldsAreLasts ==
  ASSUME NEW R, NEW opts \in Seq(R), NEW after, Folded(opts, after)
  PROVE  \A s \in SUBSET DOMAIN opts : after[s] = LastsOf(opts, s)
<1> DEFINE T == {k \in 0 .. Len(opts) : \E s \in SUBSET (1 .. k) : after[s] # LastsOf(opts, s)}
<1>1. DOMAIN opts = 1 .. Len(opts) /\ Len(opts) \in Nat
  OBVIOUS
<1>2. SUFFICES ASSUME T # {} PROVE FALSE
  <2>1. Len(opts) \notin T => \A s \in SUBSET DOMAIN opts : after[s] = LastsOf(opts, s)
    BY <1>1
  <2> QED
    BY <2>1
<1>3. PICK k \in T : \A j \in T : k <= j
  <2>1. T \in SUBSET Nat
    BY <1>1
  <2> HIDE DEF T
  <2> QED
    BY <1>2, <2>1, LeastNumber
<1>4. PICK s \in SUBSET (1 .. k) : after[s] # LastsOf(opts, s)
  OBVIOUS
<1>5. k \in 0 .. Len(opts) /\ s \in SUBSET DOMAIN opts
  BY <1>1
<1>6. s # {}
  <2>1. LastsOf(opts, {}) = Default
    BY DEF LastsOf, LastOf, Setting, Default
  <2>2. after[{}] = Default
    BY DEF Folded
  <2> QED
    BY <1>4, <2>1, <2>2
<1>7. /\ Max(s) \in s /\ \A i \in s : Max(s) >= i
      /\ LastsOf(opts, s) = applyOption(LastsOf(opts, s \ {Max(s)}), opts[Max(s)])
  BY <1>5, <1>6, LastOfMore
<1>8. after[s] = applyOption(after[s \ {Max(s)}], opts[Max(s)])
  BY <1>5, <1>6 DEF Folded
<1>9. PICK m \in s : m = Max(s) /\ \A i \in s : m >= i
  BY <1>7
<1>10. s \ {m} \in SUBSET (1 .. k - 1) /\ k - 1 \in 0 .. Len(opts)
  <2>1. Len(opts) \in Nat /\ k \in Nat /\ m \in 1 .. k /\ k <= Len(opts)
    BY <1>1, <1>4, <1>5
  <2>2. ASSUME NEW i \in s \ {m} PROVE i \in 1 .. k - 1
    <3>1. i \in 1 .. k /\ i # m /\ m >= i
      BY <1>4, <1>9
    <3> QED
      BY <2>1, <3>1
  <2> QED
    BY <2>1, <2>2
<1>11. k - 1 \notin T
  <2> HIDE DEF T
  <2>1. k - 1 \in T => k <= k - 1
    BY <1>3
  <2> QED
    BY <1>5, <2>1
<1>12. after[s \ {m}] = LastsOf(opts, s \ {m})
  BY <1>10, <1>11
<1> QED
  BY <1>4, <1>7, <1>8, <1>9, <1>12

\* New gives every field of the config its last setting.
LEMMA LastOptionWins ==
  ASSUME NEW R, NEW opts \in Seq(R), NEW f \in DOMAIN Default
  PROVE  configured(opts)[f] = LastOf(opts, DOMAIN opts, f)
<1>1. \E after : Folded(opts, after)
  BY LastsFold
<1>2. PICK after : after = CHOOSE g : Folded(opts, g)
  OBVIOUS
<1>3. Folded(opts, after)
  BY <1>1, <1>2
<1>4. after[DOMAIN opts] = LastsOf(opts, DOMAIN opts)
  BY <1>3, FoldsAreLasts
<1>5. configured(opts) = LastsOf(opts, DOMAIN opts)
  BY <1>2, <1>4, ConfiguredFolds
<1> QED
  BY <1>5 DEF LastsOf

-----------------------------------------------------------------------------
(* The inductive invariant *)

USE ApiAssumption

Unrequested == <<client, op, params>>

LEMMA ApiInvInit == Init => ApiInv
<1> SUFFICES ASSUME Init PROVE ApiInv
  OBVIOUS
<1>1. TypeOK
  BY DEF Init, TypeOK, Results, Unanswered, Bodies
<1> QED
  BY <1>1 DEF Init, ApiInv, StageInv, Parsed, Transport!Init

\* A step of one call leaves the others as they were.
OthersAlone(c) ==
    \A d \in Calls \ {c} :
        /\ stage'[d] = stage[d] /\ request'[d] = request[d] /\ reply'[d] = reply[d]
        /\ result'[d] = result[d] /\ tries'[d] = tries[d] /\ answer'[d] = answer[d]
        /\ d \in open' => d \in open

LEMMA CallStep ==
  ASSUME ApiInv, UNCHANGED Unrequested, NEW c \in Calls, OthersAlone(c),
         TypeOK', DOMAIN request' = Calls, tries' \in [Calls -> Nat], DOMAIN answer' = Calls,
         StageInv(c)', Parsed(c)'
  PROVE  ApiInv'
<1> USE DEF ApiInv
<1>1. UNCHANGED <<baseURL, options, op, params>>
  BY DEF Unrequested, client
<1>2. ASSUME NEW d \in Calls, d # c PROVE StageInv(d)' /\ Parsed(d)'
  BY <1>1, <1>2 DEF OthersAlone, StageInv, Parsed, Built, Field
<1> QED
  BY <1>1, <1>2

\* A step that fails changes the error of its call's result, and nothing else of it.
LEMMA Failed ==
  ASSUME result \in [Calls -> Results], NEW c \in Calls, NEW e \in Errors
  PROVE  /\ [result EXCEPT ![c].err = e] \in [Calls -> Results]
         /\ [result EXCEPT ![c].err = e][c].err = e
<1> USE DEF Results
<1>1. [result[c] EXCEPT !.err = e] \in Results /\ [result[c] EXCEPT !.err = e].err = e
  OBVIOUS
<1> HIDE DEF Results
<1> QED
  BY <1>1

\* The request is made of the operation, the base URL and the parameters.
LEMMA BuildInv == ASSUME ApiInv, NEW c \in Calls, Build(c) PROVE ApiInv'
<1> USE DEF ApiInv, Build, Goto, asked, client, transport
<1>1. TypeOK'
  BY DEF TypeOK
<1>2. /\ UNCHANGED Unrequested /\ OthersAlone(c)
      /\ DOMAIN request' = Calls /\ DOMAIN answer' = Calls /\ tries' \in [Calls -> Nat]
  BY DEF TypeOK, Unrequested, OthersAlone
<1>3. StageInv(c)'
  BY DEF TypeOK, StageInv, Built
<1>4. Parsed(c)'
  BY DEF TypeOK, Parsed, Field
<1> QED
  BY <1>1, <1>2, <1>3, <1>4, CallStep

LEMMA BuildFailsInv == ASSUME ApiInv, NEW c \in Calls, BuildFails(c) PROVE ApiInv'
<1> USE DEF ApiInv, BuildFails, Error, Goto, asked, client, transport
<1>1. TypeOK'
  BY Failed DEF TypeOK, Errors
<1>2. /\ UNCHANGED Unrequested /\ OthersAlone(c)
      /\ DOMAIN request' = Calls /\ DOMAIN answer' = Calls /\ tries' \in [Calls -> Nat]
  BY DEF TypeOK, Unrequested, OthersAlone
<1>3. StageInv(c)'
  BY DEF TypeOK, StageInv, Built
<1>4. Parsed(c)'
  BY Failed DEF TypeOK, Parsed, Errors
<1> QED
  BY <1>1, <1>2, <1>3, <1>4, CallStep

\* The editors set the token and the User-Agent and leave the rest.
LEMMA ApplyEditorsInv == ASSUME ApiInv, NEW c \in Calls, ApplyEditors(c) PROVE ApiInv'
<1> USE DEF ApiInv, ApplyEditors, Goto, asked, client, transport
<1>1. TypeOK'
  <2>1. PICK t \in Minted : token' = [token EXCEPT ![c] = t]
    OBVIOUS
  <2>2. t \in {NoToken} \cup 0 .. epoch
    BY DEF Minted, TypeOK
  <2> HIDE DEF Minted
  <2>3. token' \in [Calls -> {NoToken} \cup 0 .. epoch]
    BY <2>1, <2>2 DEF TypeOK
  <2> QED
    BY <2>3 DEF TypeOK
<1>2. /\ UNCHANGED Unrequested /\ OthersAlone(c)
      /\ DOMAIN request' = Calls /\ DOMAIN answer' = Calls /\ tries' \in [Calls -> Nat]
  BY DEF TypeOK, Unrequested, OthersAlone
<1>3. StageInv(c)'
  <2>1. Built(c) /\ tries[c] = 0 /\ c \notin open /\ stage[c] = "edit" /\ answer[c] # "awaited"
    BY DEF TypeOK, StageInv
  <2>2. request'[c] = [request[c] EXCEPT !.agent = Agent]
    OBVIOUS
  <2>3. request'[c] = [method |-> RequestOf(op[c]).method, url |-> UrlOf(baseURL, op[c]),
                       query |-> params[c], agent |-> Agent]
    BY <2>1, <2>2 DEF Built
  <2>4. Built(c)'
    BY <2>3 DEF Built
  <2> QED
    BY <2>1, <2>4 DEF TypeOK, StageInv
<1>4. Parsed(c)'
  BY DEF TypeOK, Parsed, Field
<1> QED
  BY <1>1, <1>2, <1>3, <1>4, CallStep

LEMMA EditorFailsInv == ASSUME ApiInv, NEW c \in Calls, EditorFails(c) PROVE ApiInv'
<1>0. PICK e \in {"token source", "editor"} : Error(c, "edit", e)
  BY DEF EditorFails
<1> USE DEF ApiInv, EditorFails, Goto, asked, client, transport
<1>1. TypeOK'
  <2>1. e \in Errors
    BY DEF Errors
  <2>2. result' = [result EXCEPT ![c].err = e] /\ result \in [Calls -> Results]
    BY <1>0 DEF TypeOK, Error
  <2> HIDE DEF ApiInv
  <2>3. result' \in [Calls -> Results]
    BY <2>1, <2>2, Failed
  <2> USE DEF ApiInv
  <2>4. stage' \in [Calls -> {"idle", "edit", "do", "parse", "done"}]
    BY <1>0 DEF TypeOK, Error
  <2> QED
    BY <1>0, <2>3, <2>4 DEF TypeOK, Error
<1>2. /\ UNCHANGED Unrequested /\ OthersAlone(c)
      /\ DOMAIN request' = Calls /\ DOMAIN answer' = Calls /\ tries' \in [Calls -> Nat]
  BY <1>0 DEF TypeOK, Unrequested, OthersAlone, Error
<1>3. StageInv(c)'
  BY <1>0 DEF TypeOK, StageInv, Built, Error
<1>4. Parsed(c)'
  <2>1. result' = [result EXCEPT ![c].err = e] /\ result \in [Calls -> Results]
    BY <1>0 DEF TypeOK, Error
  <2>2. e \in Errors
    BY DEF Errors
  <2>3. result'[c].err = e
    BY <2>1, <2>2, Failed
  <2>4. e # "nil"
    OBVIOUS
  <2> QED
    BY <2>3, <2>4 DEF Parsed
<1> QED
  BY <1>1, <1>2, <1>3, <1>4, CallStep

LEMMA AttemptInv == ASSUME ApiInv, NEW c \in Calls, Attempt(c) PROVE ApiInv'
<1> USE DEF ApiInv, Attempt, Transport!Try, Goto, asked, client, transport
<1>1. TypeOK'
  BY DEF TypeOK
<1>2. /\ UNCHANGED Unrequested /\ OthersAlone(c)
      /\ DOMAIN request' = Calls /\ DOMAIN answer' = Calls /\ tries' \in [Calls -> Nat]
  BY DEF TypeOK, Unrequested, OthersAlone
<1>3. StageInv(c)'
  BY DEF TypeOK, StageInv, Built
<1>4. Parsed(c)'
  BY DEF TypeOK, Parsed, Field
<1> QED
  BY <1>1, <1>2, <1>3, <1>4, CallStep

\* An answer is to an attempt, which was sent.
LEMMA AnswerInv == ASSUME ApiInv, NEW c \in Calls, NEW s \in Statuses, Answer(c, s) PROVE ApiInv'
<1> USE DEF ApiInv, Answer, Transport!Retryable, Transport!Final, Goto, asked, client, transport
<1>1. TypeOK'
  <2>1. reply' \in [Calls -> {NoReply} \cup Statuses] /\ tries' = tries /\ tries[c] > 0
    BY DEF TypeOK, StageInv
  <2>2. \A d \in Calls : reply'[d] # NoReply => tries'[d] > 0
    BY <2>1 DEF TypeOK
  <2>3. stage' \in [Calls -> {"idle", "edit", "do", "parse", "done"}] /\ open' \subseteq Calls
    BY DEF TypeOK
  <2> QED
    BY <2>1, <2>2, <2>3 DEF TypeOK
<1>2. /\ UNCHANGED Unrequested /\ OthersAlone(c)
      /\ DOMAIN request' = Calls /\ DOMAIN answer' = Calls /\ tries' \in [Calls -> Nat]
  BY DEF TypeOK, Unrequested, OthersAlone
<1>3. StageInv(c)'
  BY DEF TypeOK, StageInv, Built
<1>4. Parsed(c)'
  BY DEF TypeOK, Parsed, Field
<1> QED
  BY <1>1, <1>2, <1>3, <1>4, CallStep

LEMMA LostInv == ASSUME ApiInv, NEW c \in Calls, Lost(c) PROVE ApiInv'
<1> USE DEF ApiInv, Lost, Transport!Retryable, Goto, asked, client, transport
<1>1. TypeOK'
  BY DEF TypeOK
<1>2. /\ UNCHANGED Unrequested /\ OthersAlone(c)
      /\ DOMAIN request' = Calls /\ DOMAIN answer' = Calls /\ tries' \in [Calls -> Nat]
  BY DEF TypeOK, Unrequested, OthersAlone
<1>3. StageInv(c)'
  BY DEF TypeOK, StageInv, Built
<1>4. Parsed(c)'
  BY DEF TypeOK, Parsed, Field
<1> QED
  BY <1>1, <1>2, <1>3, <1>4, CallStep

LEMMA ExhaustInv == ASSUME ApiInv, NEW c \in Calls, Exhaust(c) PROVE ApiInv'
<1> USE DEF ApiInv, Exhaust, Error, Transport!Exhausted, Goto, asked, client, transport
<1>1. TypeOK'
  <2>1. stage' \in [Calls -> {"idle", "edit", "do", "parse", "done"}] /\ open' \subseteq Calls
    BY DEF TypeOK
  <2>2. result' \in [Calls -> Results]
    <3>1. result' = result \/ result' = [result EXCEPT ![c].err = "transport"]
      OBVIOUS
    <3>2. [result EXCEPT ![c].err = "transport"] \in [Calls -> Results]
      BY Failed DEF TypeOK, Errors
    <3> QED
      BY <3>1, <3>2 DEF TypeOK
  <2> QED
    BY <2>1, <2>2 DEF TypeOK
<1>2. /\ UNCHANGED Unrequested /\ OthersAlone(c)
      /\ DOMAIN request' = Calls /\ DOMAIN answer' = Calls /\ tries' \in [Calls -> Nat]
  BY DEF TypeOK, Unrequested, OthersAlone
<1>3. StageInv(c)'
  BY DEF TypeOK, StageInv, Built
<1>4. Parsed(c)'
  <2>1. stage' = [stage EXCEPT ![c] = "parse"] \/ result' = [result EXCEPT ![c].err = "transport"]
    OBVIOUS
  <2>2. [result EXCEPT ![c].err = "transport"][c].err = "transport"
    BY Failed DEF TypeOK, Errors
  <2>3. CASE stage' = [stage EXCEPT ![c] = "parse"]
    BY <2>3 DEF TypeOK, Parsed
  <2>4. CASE result' = [result EXCEPT ![c].err = "transport"]
    BY <2>2, <2>4 DEF Parsed
  <2> QED
    BY <2>1, <2>3, <2>4
<1> QED
  BY <1>1, <1>2, <1>3, <1>4, CallStep

LEMMA ContextEndsInv == ASSUME ApiInv, NEW c \in Calls, ContextEnds(c) PROVE ApiInv'
<1> USE DEF ApiInv, ContextEnds, Error, Transport!Aborted, Goto, asked, client, transport
<1>1. TypeOK'
  BY Failed DEF TypeOK, Errors
<1>2. /\ UNCHANGED Unrequested /\ OthersAlone(c)
      /\ DOMAIN request' = Calls /\ DOMAIN answer' = Calls /\ tries' \in [Calls -> Nat]
  BY DEF TypeOK, Unrequested, OthersAlone
<1>3. StageInv(c)'
  BY DEF TypeOK, StageInv, Built
<1>4. Parsed(c)'
  BY Failed DEF TypeOK, Parsed, Errors
<1> QED
  BY <1>1, <1>2, <1>3, <1>4, CallStep

LEMMA ReadFailsInv == ASSUME ApiInv, NEW c \in Calls, ReadFails(c) PROVE ApiInv'
<1> USE DEF ApiInv, ReadFails, Error, Closed, Goto, asked, client, transport
<1>1. TypeOK'
  BY Failed DEF TypeOK, Errors
<1>2. /\ UNCHANGED Unrequested /\ OthersAlone(c)
      /\ DOMAIN request' = Calls /\ DOMAIN answer' = Calls /\ tries' \in [Calls -> Nat]
  BY DEF TypeOK, Unrequested, OthersAlone
<1>3. StageInv(c)'
  BY DEF TypeOK, StageInv, Built
<1>4. Parsed(c)'
  BY Failed DEF TypeOK, Parsed, Errors
<1> QED
  BY <1>1, <1>2, <1>3, <1>4, CallStep

LEMMA DecodeFailsInv == ASSUME ApiInv, NEW c \in Calls, DecodeFails(c) PROVE ApiInv'
<1> USE DEF ApiInv, DecodeFails, Error, Closed, Goto, asked, client, transport
<1>1. TypeOK'
  BY Failed DEF TypeOK, Errors
<1>2. /\ UNCHANGED Unrequested /\ OthersAlone(c)
      /\ DOMAIN request' = Calls /\ DOMAIN answer' = Calls /\ tries' \in [Calls -> Nat]
  BY DEF TypeOK, Unrequested, OthersAlone
<1>3. StageInv(c)'
  BY DEF TypeOK, StageInv, Built
<1>4. Parsed(c)'
  BY Failed DEF TypeOK, Parsed, Errors
<1> QED
  BY <1>1, <1>2, <1>3, <1>4, CallStep

\* The result is what was read of the latest answer.
LEMMA DecodeInv == ASSUME ApiInv, NEW c \in Calls, NEW b \in Bodies, Decode(c, b) PROVE ApiInv'
<1> USE DEF ApiInv, Decode, Results, Closed, Goto, asked, client, transport
<1>1. TypeOK'
  <2>1. reply[c] \in Statuses
    BY DEF TypeOK, StageInv
  <2>2. Field(c, b) \in Statuses \cup {0}
    BY <2>1 DEF Field
  <2>3. [err |-> "nil", status |-> reply[c], field |-> Field(c, b), body |-> b] \in Results
    BY <2>1, <2>2
  <2>4. result' \in [Calls -> Results]
    BY <2>3 DEF TypeOK
  <2>5. stage' \in [Calls -> {"idle", "edit", "do", "parse", "done"}] /\ open' \subseteq Calls
    BY DEF TypeOK
  <2> QED
    BY <2>4, <2>5 DEF TypeOK
<1>2. /\ UNCHANGED Unrequested /\ OthersAlone(c)
      /\ DOMAIN request' = Calls /\ DOMAIN answer' = Calls /\ tries' \in [Calls -> Nat]
  BY DEF TypeOK, Unrequested, OthersAlone
<1>3. StageInv(c)'
  BY DEF TypeOK, StageInv, Built
<1>4. Parsed(c)'
  <2>1. result'[c] = [err |-> "nil", status |-> reply[c], field |-> Field(c, b), body |-> b]
    BY DEF TypeOK
  <2>2. reply' = reply /\ op' = op /\ reply[c] # NoReply
    BY DEF StageInv
  <2>3. Field(c, b)' = Field(c, b)
    BY <2>2 DEF Field
  <2> QED
    BY <2>1, <2>2, <2>3 DEF Parsed, Field
<1> QED
  BY <1>1, <1>2, <1>3, <1>4, CallStep

\* A rotation only makes tokens older.
LEMMA RotateInv == ASSUME ApiInv, Rotate PROVE ApiInv'
<1> USE DEF ApiInv, Rotate, asked, client, transport
<1>1. TypeOK'
  <2>1. epoch \in 0 .. MaxEpoch /\ epoch' = epoch + 1 /\ epoch' \in 0 .. MaxEpoch
    BY DEF TypeOK
  <2>2. 0 .. epoch \subseteq 0 .. epoch'
    BY <2>1
  <2>3. token' \in [Calls -> {NoToken} \cup 0 .. epoch']
    BY <2>2 DEF TypeOK
  <2> QED
    BY <2>1, <2>3 DEF TypeOK
<1> QED
  BY <1>1 DEF StageInv, Parsed, Built, Field

LEMMA UnchangedInv == ASSUME ApiInv, UNCHANGED vars PROVE ApiInv'
  BY DEF ApiInv, TypeOK, StageInv, Parsed, Built, Field, vars, asked, client, transport

LEMMA ApiInvStep == ApiInv /\ [Next]_vars => ApiInv'
<1> SUFFICES ASSUME ApiInv, [Next]_vars PROVE ApiInv'
  OBVIOUS
<1>1. ASSUME NEW c \in Calls, Build(c) \/ BuildFails(c) \/ ApplyEditors(c) \/ EditorFails(c)
      PROVE  ApiInv'
  BY <1>1, BuildInv, BuildFailsInv, ApplyEditorsInv, EditorFailsInv
<1>2. ASSUME NEW c \in Calls, Attempt(c) \/ Lost(c) \/ Exhaust(c) \/ ContextEnds(c)
      PROVE  ApiInv'
  BY <1>2, AttemptInv, LostInv, ExhaustInv, ContextEndsInv
<1>3. ASSUME NEW c \in Calls, NEW s \in Statuses, Answer(c, s) PROVE ApiInv'
  BY <1>3, AnswerInv
<1>4. ASSUME NEW c \in Calls, ReadFails(c) \/ DecodeFails(c) PROVE ApiInv'
  BY <1>4, ReadFailsInv, DecodeFailsInv
<1>5. ASSUME NEW c \in Calls, NEW body \in Bodies, Decode(c, body) PROVE ApiInv'
  BY <1>5, DecodeInv
<1>6. CASE Rotate
  BY <1>6, RotateInv
<1>7. CASE Terminated \/ UNCHANGED vars
  BY <1>7, UnchangedInv DEF Terminated
<1> QED
  BY <1>1, <1>2, <1>3, <1>4, <1>5, <1>6, <1>7 DEF Next

-----------------------------------------------------------------------------
(* The theorems *)

\* Where a call is determines its request, its tries and what it holds open,
\* and what a call returns without an error is the latest answer, decoded.
THEOREM ApiInvariance == Spec => []ApiInv
<1>1. Init => ApiInv
  BY ApiInvInit
<1>2. ApiInv /\ [Next]_vars => ApiInv'
  BY ApiInvStep
<1> QED
  BY <1>1, <1>2, PTL DEF Spec

\* Type correctness: a typed call never holds a token of the future, nor an
\* answer to a request that was not sent.
THEOREM ApiTypes == Spec => []TypeOK
<1>1. ApiInv => TypeOK
  BY DEF ApiInv
<1> QED
  BY <1>1, ApiInvariance, PTL

\* No finished call keeps its response body open, on whatever path it ended.
THEOREM Closes == Spec => []BodiesClosed
<1>1. ApiInv => BodiesClosed
  BY DEF ApiInv, StageInv, BodiesClosed
<1> QED
  BY <1>1, ApiInvariance, PTL

\* Every refusal a call ends with is told by its status and a type, also one
\* whose body is not the envelope.
THEOREM Identifies == Spec => []RefusalsIdentified
<1>1. ApiInv => RefusalsIdentified
  BY DEF ApiInv, Parsed, RefusalsIdentified, ParseAPIError
<1> QED
  BY <1>1, ApiInvariance, PTL

\* Every request goes to its operation's method, path and query, below any base
\* URL, with any slashes.
THEOREM Reaches == Spec => []RequestReachesItsOperation
<1>1. ApiInv => RequestReachesItsOperation
  <2> SUFFICES ASSUME ApiInv, NEW c \in Calls, tries[c] > 0
               PROVE  /\ request[c].method = SpecMethod[op[c].verb]
                      /\ request[c].query = params[c] \cap SpecQuery(op[c])
                      /\ \E n \in 0 .. Len(baseURL) :
                            /\ n = 0 \/ baseURL[n] # ""
                            /\ \A i \in n + 1 .. Len(baseURL) : baseURL[i] = ""
                            /\ request[c].url = SubSeq(baseURL, 1, n) \o SpecPath(op[c])
    BY DEF RequestReachesItsOperation
  <2>1. op[c] \in Asked /\ baseURL \in Seq(STRING) /\ params[c] \subseteq QueryOf(op[c])
    BY DEF ApiInv, TypeOK
  <2>2. Built(c)
    BY DEF ApiInv, StageInv
  <2>3. /\ request[c].method = RequestOf(op[c]).method /\ request[c].query = params[c]
        /\ request[c].url = UrlOf(baseURL, op[c])
    BY <2>2 DEF Built
  <2>4. /\ RequestOf(op[c]).path = SpecPath(op[c])
        /\ RequestOf(op[c]).method = SpecMethod[op[c].verb] /\ QueryOf(op[c]) = SpecQuery(op[c])
    BY <2>1, ApiAssumption, TablesFollowSpec DEF Agrees
  <2>5. params[c] = params[c] \cap SpecQuery(op[c])
    BY <2>1, <2>4
  <2>6. PICK base, o, slash : base = baseURL /\ o = op[c] /\ slash = ""
    OBVIOUS
  <2>7. PICK S : base \in Seq(S)
    BY <2>1, <2>6
  <2>8. PICK n \in 0 .. Len(base) :
           /\ n = 0 \/ base[n] # slash
           /\ \A i \in n + 1 .. Len(base) : base[i] = slash
           /\ slash = "" => UrlOf(base, o) = Below(base, n, RequestOf(o).path)
    BY <2>7, UrlBelowBase
  <2>9. request[c].url = SubSeq(baseURL, 1, n) \o SpecPath(op[c])
    BY <2>3, <2>4, <2>6, <2>8 DEF Below
  <2> QED
    BY <2>3, <2>4, <2>5, <2>6, <2>8, <2>9
<1> QED
  BY <1>1, ApiInvariance, PTL

\* A caller sees the status of the last answer, with a JSON body the API
\* specification declares in the field of that status and no other in any.
THEOREM Decodes == Spec => []TypedFieldsFollowSpec
<1>1. ApiInv => TypedFieldsFollowSpec
  <2>1. ASSUME NEW o \in Asked PROVE FieldsOf(o) = SpecBodies(o)
    BY ApiAssumption, TablesFollowSpec DEF Agrees
  <2> QED
    BY <2>1 DEF ApiInv, TypeOK, Parsed, Field, TypedFieldsFollowSpec
<1> QED
  BY <1>1, ApiInvariance, PTL

-----------------------------------------------------------------------------
(* How a call ends *)

LEMMA OutcomeInit == Init => OutcomeInv
<1> SUFFICES ASSUME Init PROVE OutcomeInv
  OBVIOUS
<1>1. ApiInv /\ budget \in Nat \ {0} /\ budget = (IF cfg.maxRetries < 0 THEN 0 ELSE cfg.maxRetries) + 1
  BY ApiInvInit DEF Init, Transport!Init
<1>2. ASSUME NEW c \in Calls PROVE AsMinted(c)
  BY DEF Init, AsMinted
<1>3. ASSUME NEW c \in Calls PROVE GaveUp(c)
  <2>1. stage[c] = "idle" /\ result[c] = Unanswered /\ tries[c] = 0
    BY DEF Init, Transport!Init
  <2>2. result[c].err = "nil"
    BY <2>1 DEF Unanswered
  <2> QED
    BY <1>1, <2>1, <2>2 DEF GaveUp
<1>4. ASSUME NEW c \in Calls PROVE Sent(c)
  <2>1. stage[c] = "idle" /\ tries[c] = 0 /\ result[c] = Unanswered
    BY DEF Init, Transport!Init
  <2>2. result[c].err = "nil" /\ ~ (tries[c] > 0)
    BY <2>1 DEF Unanswered
  <2> QED
    BY <2>1, <2>2 DEF Sent
<1> QED
  BY <1>1, <1>2, <1>3, <1>4 DEF OutcomeInv

\* A client keeps its configuration.
LEMMA ConfigKept == [Next]_vars => cfg' = cfg /\ budget' = budget
<1>1. [Next]_vars => UNCHANGED <<options, budget>>
  BY DEF Next, Build, BuildFails, ApplyEditors, EditorFails, Attempt, Answer, Lost, Exhaust,
         ContextEnds, ReadFails, Decode, DecodeFails, Rotate, Terminated, vars, client, transport,
         Transport!Try, Transport!Retryable, Transport!Final, Transport!Exhausted,
         Transport!Aborted
<1> QED
  BY <1>1 DEF cfg

\* What the steps do to a token, the answers and the epoch.
LEMMA AsMintedStep ==
  ASSUME OutcomeInv, [Next]_vars, NEW d \in Calls
  PROVE  AsMinted(d)'
<1>0. cfg' = cfg
  BY ConfigKept
<1>1. /\ epoch \in 0 .. MaxEpoch /\ token \in [Calls -> {NoToken} \cup 0 .. epoch]
      /\ began \in [Calls -> 0 .. MaxEpoch] /\ reply \in [Calls -> {NoReply} \cup Statuses]
      /\ DOMAIN stage = Calls
  BY DEF OutcomeInv, ApiInv, TypeOK
<1>2. AsMinted(d)
  BY DEF OutcomeInv
<1>3. /\ stage[d] \in {"idle", "edit"} => tries[d] = 0
      /\ reply[d] # NoReply => tries[d] > 0
      /\ answer[d] = "awaited" => tries[d] > 0
  BY DEF OutcomeInv, ApiInv, StageInv, TypeOK
<1> USE DEF asked, client, transport, Goto, Error
<1>4. ASSUME NEW c \in Calls, Build(c) PROVE AsMinted(d)'
  BY <1>0, <1>1, <1>2, <1>3, <1>4 DEF Build, AsMinted
<1>5. ASSUME NEW c \in Calls, ApplyEditors(c) PROVE AsMinted(d)'
  <2>1. PICK t \in Minted : token' = [token EXCEPT ![c] = t]
    BY <1>5 DEF ApplyEditors
  <2>2. t \in {NoToken} \cup 0 .. epoch /\ (cfg.tokenSource = "refreshing" => t \in {epoch, NoToken})
    BY <1>1, <2>1 DEF Minted
  <2>3. UNCHANGED <<options, epoch, began, reply>> /\ stage[c] = "edit" /\ stage' = [stage EXCEPT ![c] = "do"]
    BY <1>5 DEF ApplyEditors
  <2>4. CASE c = d
    BY <1>0, <1>1, <1>2, <1>3, <2>1, <2>2, <2>3, <2>4 DEF AsMinted
  <2>5. CASE c # d
    BY <1>0, <1>1, <1>2, <2>1, <2>3, <2>5 DEF AsMinted
  <2> QED
    BY <2>4, <2>5
<1>6. ASSUME NEW c \in Calls, NEW s \in Statuses, Answer(c, s) PROVE AsMinted(d)'
  <2>1. UNCHANGED <<options, epoch, began, token>> /\ reply' = [reply EXCEPT ![c] = s]
    BY <1>6 DEF Answer
  <2>2. /\ stage[c] = "do"
        /\ \A e \in Calls : stage'[e] \in {"idle", "edit"} => stage[e] \in {"idle", "edit"}
    BY <1>1, <1>6 DEF Answer
  <2>3. s = 401 => token[c] # epoch
    BY <1>6 DEF Answer, Served, Transient
  <2> QED
    BY <1>0, <1>1, <1>2, <2>1, <2>2, <2>3 DEF AsMinted
<1>7. ASSUME NEW c \in Calls, Lost(c) PROVE AsMinted(d)'
  BY <1>0, <1>1, <1>2, <1>7 DEF Lost, AsMinted
<1>8. CASE Rotate
  BY <1>0, <1>1, <1>2, <1>8 DEF Rotate, AsMinted
<1>9. ASSUME UNCHANGED <<options, epoch, token, reply, began>>,
             stage'[d] \in {"idle", "edit"} => stage[d] \in {"idle", "edit"}
      PROVE  AsMinted(d)'
  BY <1>0, <1>2, <1>9 DEF AsMinted
<1>10. ASSUME NEW c \in Calls,
              \/ BuildFails(c) \/ EditorFails(c) \/ Attempt(c) \/ Exhaust(c) \/ ContextEnds(c)
              \/ ReadFails(c) \/ DecodeFails(c) \/ \E body \in Bodies : Decode(c, body)
       PROVE  AsMinted(d)'
  <2>1. UNCHANGED <<options, epoch, token, reply, began>>
    BY <1>10 DEF BuildFails, EditorFails, Attempt, Exhaust, ContextEnds, ReadFails, DecodeFails, Decode
  <2>2. UNCHANGED stage \/ \E next \in {"parse", "done"} : stage' = [stage EXCEPT ![c] = next]
    BY <1>10 DEF BuildFails, EditorFails, Attempt, Exhaust, ContextEnds, ReadFails, DecodeFails, Decode
  <2> QED
    BY <1>1, <1>9, <2>1, <2>2
<1>11. CASE Terminated \/ UNCHANGED vars
  BY <1>9, <1>11 DEF Terminated, vars
<1> QED
  BY <1>4, <1>5, <1>6, <1>7, <1>8, <1>10, <1>11 DEF Next

\* What the steps do to the tries, the stage and the error of a call.
LEMMA GaveUpStep ==
  ASSUME OutcomeInv, [Next]_vars, NEW d \in Calls
  PROVE  GaveUp(d)'
<1>1. /\ budget \in Nat \ {0} /\ budget' = budget /\ tries \in [Calls -> Nat]
      /\ reply \in [Calls -> {NoReply} \cup Statuses] /\ result \in [Calls -> Results]
      /\ DOMAIN stage = Calls /\ DOMAIN answer = Calls
  BY ConfigKept DEF OutcomeInv, ApiInv, TypeOK
<1>2. GaveUp(d)
  BY DEF OutcomeInv
<1>3. ASSUME UNCHANGED <<tries, reply, result>>,
             stage'[d] # "done" => stage[d] # "done",
             stage'[d] \in {"parse", "done"} => stage[d] \in {"parse", "done"}
      PROVE  GaveUp(d)'
  BY <1>1, <1>2, <1>3 DEF GaveUp
<1> USE DEF asked, client, transport
<1>4. ASSUME NEW c \in Calls, NEW e \in Errors, NEW from, Error(c, from, e), UNCHANGED <<tries, reply>>,
             e = "transport" => tries[c] = budget
      PROVE  GaveUp(d)'
  <2>1. /\ result' = [result EXCEPT ![c].err = e] /\ result'[c].err = e
        /\ stage' = [stage EXCEPT ![c] = "done"]
    BY <1>1, <1>4, Failed DEF Error, Goto
  <2>2. e # "nil"
    BY DEF Errors
  <2>3. CASE c = d
    BY <1>1, <1>2, <1>4, <2>1, <2>2, <2>3 DEF GaveUp
  <2>4. CASE c # d
    BY <1>1, <1>2, <1>4, <2>1, <2>4 DEF GaveUp
  <2> QED
    BY <2>3, <2>4
<1>5. ASSUME NEW c \in Calls, Build(c) \/ ApplyEditors(c) PROVE GaveUp(d)'
  BY <1>1, <1>3, <1>5 DEF Build, ApplyEditors, Goto
<1>6. ASSUME NEW c \in Calls, BuildFails(c) \/ EditorFails(c) \/ ContextEnds(c) PROVE GaveUp(d)'
  <2>1. PICK e \in {"build", "token source", "editor", "context"},
            from \in {"idle", "edit", "do"} : Error(c, from, e)
    BY <1>6 DEF BuildFails, EditorFails, ContextEnds
  <2>2. UNCHANGED <<tries, reply>>
    BY <1>6 DEF BuildFails, EditorFails, ContextEnds, Transport!Aborted
  <2>3. e \in Errors /\ e # "transport"
    BY DEF Errors
  <2> QED
    BY <1>4, <2>1, <2>2, <2>3
<1>7. ASSUME NEW c \in Calls, ReadFails(c) \/ DecodeFails(c) PROVE GaveUp(d)'
  <2>1. PICK e \in {"read", "decode"} : Error(c, "parse", e)
    BY <1>7 DEF ReadFails, DecodeFails
  <2>2. UNCHANGED <<tries, reply>>
    BY <1>7 DEF ReadFails, DecodeFails
  <2>3. e \in Errors /\ e # "transport"
    BY DEF Errors
  <2> QED
    BY <1>4, <2>1, <2>2, <2>3
<1>8. ASSUME NEW c \in Calls, Attempt(c) PROVE GaveUp(d)'
  <2>1. /\ UNCHANGED <<stage, reply, result>> /\ stage[c] = "do"
        /\ tries' = [tries EXCEPT ![c] = @ + 1] /\ tries[c] < budget
    BY <1>8 DEF Attempt, Transport!Try
  <2>2. result[c].err = "nil" \/ c # d
    BY <1>2, <2>1 DEF GaveUp, Unanswered
  <2> QED
    BY <1>1, <1>2, <2>1, <2>2 DEF GaveUp
<1>9. ASSUME NEW c \in Calls, NEW s \in Statuses, Answer(c, s) PROVE GaveUp(d)'
  <2>1. UNCHANGED <<tries, result>> /\ reply' = [reply EXCEPT ![c] = s] /\ stage[c] = "do"
    BY <1>9 DEF Answer, Goto, Transport!Retryable, Transport!Final
  <2>2. CASE stage' = stage
    BY <1>1, <1>2, <2>1, <2>2 DEF GaveUp
  <2>3. CASE stage' # stage
    <3>1. ~ Transient(s) /\ stage' = [stage EXCEPT ![c] = "parse"]
      BY <1>9, <2>3 DEF Answer, Goto
    <3>2. result[c].err = "nil" \/ c # d
      BY <1>2, <2>1 DEF GaveUp, Unanswered
    <3> QED
      BY <1>1, <1>2, <2>1, <3>1, <3>2 DEF GaveUp
  <2> QED
    BY <2>2, <2>3
<1>10. ASSUME NEW c \in Calls, Lost(c) PROVE GaveUp(d)'
  <2>1. /\ UNCHANGED <<stage, tries, result>> /\ reply' = [reply EXCEPT ![c] = NoReply]
        /\ stage[c] = "do"
    BY <1>10 DEF Lost, Transport!Retryable
  <2> QED
    BY <1>1, <1>2, <2>1 DEF GaveUp
<1>11. ASSUME NEW c \in Calls, Exhaust(c) PROVE GaveUp(d)'
  <2>1. tries[c] = budget /\ UNCHANGED <<tries, reply>>
    BY <1>11 DEF Exhaust, Transport!Exhausted
  <2>2. CASE Error(c, "do", "transport")
    BY <1>4, <2>1, <2>2 DEF Errors
  <2>3. CASE ~ Error(c, "do", "transport")
    <3>1. UNCHANGED result /\ stage[c] = "do" /\ stage' = [stage EXCEPT ![c] = "parse"]
      BY <1>11, <2>3 DEF Exhaust, Goto
    <3> QED
      BY <1>1, <1>2, <2>1, <3>1 DEF GaveUp
  <2> QED
    BY <2>2, <2>3
<1>12. ASSUME NEW c \in Calls, NEW body \in Bodies, Decode(c, body) PROVE GaveUp(d)'
  <2>1. /\ UNCHANGED <<tries, reply>> /\ stage[c] = "parse" /\ stage' = [stage EXCEPT ![c] = "done"]
    BY <1>12 DEF Decode, Goto
  <2>2. CASE c = d
    <3>1. result[c].err = "nil" /\ result'[c].err = "nil"
      BY <1>1, <1>2, <1>12, <2>1, <2>2 DEF Decode, GaveUp, Unanswered
    <3> QED
      BY <1>1, <1>2, <2>1, <2>2, <3>1 DEF GaveUp
  <2>3. CASE c # d
    <3>1. result'[d] = result[d]
      BY <1>1, <1>12, <2>3 DEF Decode
    <3> QED
      BY <1>1, <1>2, <2>1, <2>3, <3>1 DEF GaveUp
  <2> QED
    BY <2>2, <2>3
<1>13. CASE Rotate \/ Terminated \/ UNCHANGED vars
  BY <1>3, <1>13 DEF Rotate, Terminated, vars
<1> QED
  BY <1>5, <1>6, <1>7, <1>8, <1>9, <1>10, <1>11, <1>12, <1>13 DEF Next

\* What the steps do to the token, the User-Agent and the error of a call.
LEMMA SentStep ==
  ASSUME OutcomeInv, [Next]_vars, NEW d \in Calls
  PROVE  Sent(d)'
<1>1. /\ cfg' = cfg /\ Agent' = Agent /\ tries \in [Calls -> Nat] /\ result \in [Calls -> Results]
      /\ DOMAIN stage = Calls /\ DOMAIN token = Calls /\ DOMAIN request = Calls
  BY ConfigKept DEF OutcomeInv, ApiInv, TypeOK, Agent
<1>2. Sent(d) /\ (stage[d] # "done" => result[d].err = "nil")
  BY DEF OutcomeInv, GaveUp, Unanswered
<1>3. stage[d] \in {"idle", "edit"} => tries[d] = 0
  BY DEF OutcomeInv, ApiInv, StageInv
<1>4. ASSUME UNCHANGED <<request, token, tries>>, result'[d] = result[d],
             stage'[d] \in {"do", "parse"} => stage[d] \in {"do", "parse"},
             stage[d] = "done" => stage'[d] = "done"
      PROVE  Sent(d)'
  BY <1>1, <1>2, <1>4 DEF Sent
<1> USE DEF asked, client, transport
<1>5. ASSUME NEW c \in Calls, NEW e \in Errors, NEW from, Error(c, from, e),
             UNCHANGED <<request, token, tries>>,
             e \in {"build", "token source", "editor"} => from \in {"idle", "edit"}
      PROVE  Sent(d)'
  <2>1. /\ result' = [result EXCEPT ![c].err = e] /\ result'[c].err = e
        /\ stage[c] = from /\ stage' = [stage EXCEPT ![c] = "done"]
    BY <1>1, <1>5, Failed DEF Error, Goto
  <2>2. CASE c = d
    BY <1>1, <1>2, <1>3, <1>5, <2>1, <2>2 DEF Sent
  <2>3. CASE c # d
    BY <1>1, <1>4, <1>5, <2>1, <2>3
  <2> QED
    BY <2>2, <2>3
<1>6. ASSUME NEW c \in Calls, Build(c) PROVE Sent(d)'
  <2>1. /\ stage[c] = "idle" /\ stage' = [stage EXCEPT ![c] = "edit"] /\ UNCHANGED <<token, tries, result>>
        /\ \A x \in Calls \ {c} : request'[x] = request[x]
    BY <1>1, <1>6 DEF Build, Goto
  <2>2. CASE c = d
    <3>1. tries'[d] = 0 /\ result'[d].err = "nil" /\ stage'[d] = "edit"
      BY <1>1, <1>2, <1>3, <2>1, <2>2
    <3> QED
      BY <3>1 DEF Sent
  <2>3. CASE c # d
    BY <1>1, <1>2, <2>1, <2>3 DEF Sent
  <2> QED
    BY <2>2, <2>3
<1>7. ASSUME NEW c \in Calls, ApplyEditors(c) PROVE Sent(d)'
  <2>1. /\ stage[c] = "edit" /\ stage' = [stage EXCEPT ![c] = "do"] /\ UNCHANGED <<tries, result>>
        /\ request' = [request EXCEPT ![c].agent = Agent]
    BY <1>7 DEF ApplyEditors, Goto
  <2>2. PICK t \in Minted : token' = [token EXCEPT ![c] = t]
    BY <1>7 DEF ApplyEditors
  <2>3. cfg.tokenSource = "static" => t = 0
    BY <2>2 DEF Minted
  <2>4. CASE c = d
    <3>1. Built(c)
      BY <1>7 DEF ApplyEditors, Goto, OutcomeInv, ApiInv, StageInv
    <3>2. PICK r : r = request[c]
      OBVIOUS
    <3>3. [r EXCEPT !.agent = Agent].agent = Agent
      BY <3>1, <3>2 DEF Built
    <3>4. request'[c].agent = Agent
      BY <1>1, <2>1, <3>2, <3>3
    <3> QED
      BY <1>1, <1>2, <2>1, <2>2, <2>3, <2>4, <3>4 DEF Sent
  <2>5. CASE c # d
    BY <1>1, <1>2, <2>1, <2>2, <2>5 DEF Sent
  <2> QED
    BY <2>4, <2>5
<1>8. ASSUME NEW c \in Calls, BuildFails(c) PROVE Sent(d)'
  BY <1>5, <1>8 DEF BuildFails, Errors
<1>9. ASSUME NEW c \in Calls, EditorFails(c) PROVE Sent(d)'
  <2>1. PICK e \in {"token source", "editor"} : Error(c, "edit", e)
    BY <1>9 DEF EditorFails
  <2> QED
    BY <1>5, <1>9, <2>1 DEF EditorFails, Errors
<1>10. ASSUME NEW c \in Calls, Attempt(c) PROVE Sent(d)'
  <2>1. /\ stage[c] = "do" /\ UNCHANGED <<stage, request, token, result>>
        /\ tries' = [tries EXCEPT ![c] = @ + 1]
    BY <1>10 DEF Attempt, Transport!Try
  <2> QED
    BY <1>1, <1>2, <2>1 DEF Sent
<1>11. ASSUME NEW c \in Calls, NEW s \in Statuses, Answer(c, s) PROVE Sent(d)'
  <2>1. /\ UNCHANGED <<request, token, tries, result>>
        /\ stage' = stage \/ (stage[c] = "do" /\ stage' = [stage EXCEPT ![c] = "parse"])
    BY <1>11 DEF Answer, Goto, Transport!Retryable, Transport!Final
  <2> QED
    BY <1>1, <1>4, <2>1
<1>12. ASSUME NEW c \in Calls, Lost(c) PROVE Sent(d)'
  BY <1>4, <1>12 DEF Lost, Transport!Retryable
<1>13. ASSUME NEW c \in Calls, Exhaust(c) PROVE Sent(d)'
  <2>1. UNCHANGED <<request, token, tries>>
    BY <1>13 DEF Exhaust, Transport!Exhausted
  <2>2. CASE Error(c, "do", "transport")
    BY <1>5, <2>1, <2>2 DEF Errors
  <2>3. CASE ~ Error(c, "do", "transport")
    <3>1. UNCHANGED result /\ stage[c] = "do" /\ stage' = [stage EXCEPT ![c] = "parse"]
      BY <1>13, <2>3 DEF Exhaust, Goto
    <3> QED
      BY <1>1, <1>4, <2>1, <3>1
  <2> QED
    BY <2>2, <2>3
<1>14. ASSUME NEW c \in Calls, ContextEnds(c) \/ ReadFails(c) \/ DecodeFails(c) PROVE Sent(d)'
  <2>1. PICK e \in {"context", "read", "decode"}, from \in {"do", "parse"} : Error(c, from, e)
    BY <1>14 DEF ContextEnds, ReadFails, DecodeFails
  <2>2. UNCHANGED <<request, token, tries>>
    BY <1>14 DEF ContextEnds, ReadFails, DecodeFails, Transport!Aborted
  <2>3. e \in Errors /\ e \notin {"build", "token source", "editor"}
    BY DEF Errors
  <2> QED
    BY <1>5, <2>1, <2>2, <2>3
<1>15. ASSUME NEW c \in Calls, NEW b \in Bodies, Decode(c, b) PROVE Sent(d)'
  <2>1. /\ UNCHANGED <<request, token, tries>> /\ stage[c] = "parse"
        /\ stage' = [stage EXCEPT ![c] = "done"]
        /\ result' = [result EXCEPT ![c] = [err |-> "nil", status |-> reply[c],
                                           field |-> Field(c, b), body |-> b]]
    BY <1>15 DEF Decode, Goto
  <2>2. CASE c = d
    <3>1. result'[d].err = "nil"
      BY <1>1, <2>1, <2>2
    <3> QED
      BY <1>1, <1>2, <2>1, <2>2, <3>1 DEF Sent
  <2>3. CASE c # d
    BY <1>1, <1>4, <2>1, <2>3
  <2> QED
    BY <2>2, <2>3
<1>16. CASE Rotate \/ Terminated \/ UNCHANGED vars
  BY <1>4, <1>16 DEF Rotate, Terminated, vars
<1> QED
  BY <1>6, <1>7, <1>8, <1>9, <1>10, <1>11, <1>12, <1>13, <1>14, <1>15, <1>16 DEF Next

\* ApiInv, with the age of a call's token when it is refused and the budget
\* that is spent when it gives up.
THEOREM OutcomeInvariance == Spec => []OutcomeInv
<1>1. ASSUME OutcomeInv, [Next]_vars PROVE OutcomeInv'
  <2>1. ApiInv' /\ budget' = budget /\ cfg' = cfg
    BY <1>1, ApiInvStep, ConfigKept DEF OutcomeInv
  <2>2. \A c \in Calls : AsMinted(c)' /\ GaveUp(c)' /\ Sent(c)'
    BY <1>1, AsMintedStep, GaveUpStep, SentStep
  <2> QED
    BY <1>1, <2>1, <2>2 DEF OutcomeInv
<1> QED
  BY <1>1, OutcomeInit, PTL DEF Spec

\* The client is configured as its last options say.
LastOptionsCount ==
    /\ cfg.maxRetries = LastSet("maxRetries", 3) /\ cfg.maxRetries \in Int
    /\ cfg.tokenSource = LastSet("tokenSource", "nil")
    /\ cfg.userAgent = LastSet("userAgent", "")

LEMMA LastOptionsApply ==
  ASSUME TypeOK
  PROVE  LastOptionsCount
<1>1. options \in Seq(Settings)
  BY DEF TypeOK
<1>2. DOMAIN Default = {"maxRetries", "tokenSource", "userAgent"}
  BY DEF Default
<1>3. \A f \in DOMAIN Default : cfg[f] = LastOf(options, DOMAIN options, f)
  BY <1>1, LastOptionWins DEF cfg
<1>4. \A f \in DOMAIN Default : LastOf(options, DOMAIN options, f) = LastSet(f, Default[f])
  BY DEF LastOf, Setting, LastSet
<1>5. /\ cfg.maxRetries = LastSet("maxRetries", 3) /\ cfg.tokenSource = LastSet("tokenSource", "nil")
      /\ cfg.userAgent = LastSet("userAgent", "")
  BY <1>2, <1>3, <1>4 DEF Default
<1>6. LastSet("maxRetries", 3) \in Int
  <2> DEFINE set == {i \in DOMAIN options : options[i].field = "maxRetries"}
  <2>1. CASE set = {}
    BY <2>1 DEF LastSet
  <2>2. CASE set # {}
    <3>1. Len(options) \in Nat /\ DOMAIN options = 1 .. Len(options)
      BY <1>1
    <3>2. set \in SUBSET (1 .. Len(options))
      BY <3>1
    <3> HIDE DEF set
    <3>3. Max(set) \in set
      BY <2>2, <3>1, <3>2, MaxIndex
    <3> USE DEF set
    <3>4. PICK m \in DOMAIN options : m = Max(set) /\ options[m].field = "maxRetries"
      BY <3>3
    <3>5. options[m] \in Settings
      BY <1>1, <3>4
    <3>6. options[m].value \in Int
      BY <3>4, <3>5 DEF Settings
    <3> QED
      BY <2>2, <3>4, <3>6 DEF LastSet
  <2> QED
    BY <2>1, <2>2
<1> QED
  BY <1>5, <1>6 DEF LastOptionsCount

\* A call whose source mints the valid token is refused only if that token was
\* replaced after the call began.
THEOREM Refused == Spec => []UnauthorizedMeansRotated
<1>1. LastOptionsCount /\ OutcomeInv => UnauthorizedMeansRotated
  <2> SUFFICES ASSUME LastOptionsCount, OutcomeInv, NEW c \in Calls,
                      cfg.tokenSource = "refreshing", token[c] # NoToken, reply[c] = 401
               PROVE  began[c] < epoch
    <3>1. LastOptionsCount => cfg.tokenSource = LastSet("tokenSource", "nil")
      BY DEF LastOptionsCount
    <3> QED
      BY <3>1 DEF UnauthorizedMeansRotated
  <2>1. AsMinted(c) /\ token[c] \in {NoToken} \cup 0 .. epoch /\ began[c] \in Nat /\ epoch \in Nat
    BY DEF OutcomeInv, ApiInv, TypeOK
  <2> QED
    BY <2>1 DEF AsMinted
<1>2. OutcomeInv => LastOptionsCount
  BY LastOptionsApply DEF OutcomeInv, ApiInv
<1> QED
  BY <1>1, <1>2, OutcomeInvariance, PTL

\* A transient status or the transport's error is a call's result only when
\* the configured retries are spent, and no call makes more.
THEOREM GivesUp == Spec => []GivesUpAsConfigured
<1>1. LastOptionsCount /\ OutcomeInv => GivesUpAsConfigured
  <2> SUFFICES ASSUME LastOptionsCount, OutcomeInv PROVE GivesUpAsConfigured
    OBVIOUS
  <2>1. DocumentedRetries + 1 = budget
    <3>1. PICK n \in Int : n = cfg.maxRetries
      BY DEF LastOptionsCount
    <3>2. Max({0, n}) = IF n < 0 THEN 0 ELSE n
      BY DEF Max
    <3>3. DocumentedRetries = Max({0, n})
      BY <3>1 DEF LastOptionsCount, DocumentedRetries
    <3>4. budget = (IF n < 0 THEN 0 ELSE n) + 1
      BY <3>1 DEF OutcomeInv
    <3> QED
      BY <3>2, <3>3, <3>4
  <2>2. ASSUME NEW c \in Calls
        PROVE  /\ tries[c] <= budget
               /\ result[c].err = "transport" => tries[c] = budget
    BY DEF OutcomeInv, GaveUp
  <2>3. ASSUME NEW c \in Calls, result[c].err = "nil", Transient(result[c].status)
        PROVE  tries[c] = budget
    <3>1. stage[c] = "done"
      <4>1. CASE result[c] = Unanswered
        BY <2>3, <4>1 DEF Unanswered, Transient
      <4>2. CASE result[c] # Unanswered
        BY <4>2 DEF OutcomeInv, GaveUp
      <4> QED
        BY <4>1, <4>2
    <3>2. result[c].status = reply[c]
      BY <2>3, <3>1 DEF OutcomeInv, ApiInv, Parsed
    <3> QED
      BY <2>3, <3>1, <3>2 DEF OutcomeInv, GaveUp
  <2>4. ASSUME NEW c \in Calls,
               \/ result[c].err = "transport"
               \/ result[c].err = "nil" /\ Transient(result[c].status)
        PROVE  tries[c] = DocumentedRetries + 1
    <3>1. CASE result[c].err = "transport"
      BY <2>1, <2>2, <3>1
    <3>2. CASE result[c].err = "nil" /\ Transient(result[c].status)
      BY <2>1, <2>3, <3>2
    <3> QED
      BY <2>4, <3>1, <3>2
  <2>5. ASSUME NEW c \in Calls PROVE tries[c] <= DocumentedRetries + 1
    BY <2>1, <2>2
  <2> QED
    BY <2>4, <2>5 DEF GivesUpAsConfigured
<1>2. OutcomeInv => LastOptionsCount
  BY LastOptionsApply DEF OutcomeInv, ApiInv
<1> QED
  BY <1>1, <1>2, OutcomeInvariance, PTL

\* Nothing reaches the network after a failed editor, or without the token and
\* the User-Agent the client was last configured with.
THEOREM Credentials == Spec => []SentWithCredentials
<1>1. LastOptionsCount /\ OutcomeInv => SentWithCredentials
  <2> SUFFICES ASSUME LastOptionsCount, OutcomeInv, NEW c \in Calls, tries[c] > 0
               PROVE  /\ result[c].err \notin {"build", "token source", "editor"}
                      /\ LastSet("tokenSource", "nil") = "static" => token[c] = 0
                      /\ request[c].agent = IF LastSet("userAgent", "") = "" THEN <<"larm-go">>
                                            ELSE <<"larm-go", LastSet("userAgent", "")>>
    BY DEF SentWithCredentials
  <2>1. Sent(c) /\ tries[c] # 0
    BY DEF OutcomeInv
  <2>2. request[c].agent = Agent /\ (cfg.tokenSource = "static" => token[c] = 0)
    BY <2>1 DEF Sent
  <2>3. result[c].err \notin {"build", "token source", "editor"}
    BY <2>1 DEF Sent
  <2> QED
    BY <2>2, <2>3 DEF LastOptionsCount, Agent
<1>2. OutcomeInv => LastOptionsCount
  BY LastOptionsApply DEF OutcomeInv, ApiInv
<1> QED
  BY <1>1, <1>2, OutcomeInvariance, PTL
=============================================================================
