----------------------------- MODULE UnionProofs -----------------------------
(* Proofs about status-page entries, for any number of variables and operations. *)
EXTENDS UnionProperties, SequenceLemmas, FiniteSetTheorems, FunctionTheorems

USE UnionAssumption

-----------------------------------------------------------------------------
(* Objects *)

\* No kind of entry has a field named like the discriminator.
LEMMA Declared ==
  /\ "type" \notin AllFields /\ {"id", "name", "note"} \subseteq AllFields
  /\ \A a \in DOMAIN Required, k \in Kinds :
        /\ Required[a][k] \subseteq AllFields /\ Optional[a][k] \subseteq AllFields
        /\ Fields(a, k) \subseteq AllFields
<1>1. DOMAIN Required = {"Tree", "Structure"}
  BY DEF Required
<1>2. \A a \in DOMAIN Required, k \in Kinds : Fields(a, k) \subseteq AllFields
  BY DEF AllFields
<1>3. \A a \in DOMAIN Required, k \in Kinds : "type" \notin Fields(a, k)
  BY <1>1 DEF Fields, Required, Optional, Kinds
<1>4. "type" \notin AllFields
  BY <1>3 DEF AllFields
<1>5. {"id", "name"} \subseteq Fields("Tree", "group")
  BY DEF Fields, Required
<1>6. {"id", "name", "note"} \subseteq AllFields
  BY <1>1, <1>2, <1>5 DEF AllFields, Kinds
<1> QED
  BY <1>2, <1>4, <1>6 DEF Fields

LEMMA ObjectsRead ==
  ASSUME NEW v, IsObject(v)
  PROVE  v \notin {NoText, Null, Torn}
<1>1. /\ v = [f \in DOMAIN v |-> v[f]] /\ DOMAIN v \in SUBSET (AllFields \cup {"type"})
      /\ \A f \in DOMAIN v : v[f] \in Values \cup Kinds \cup {"unknown"}
  BY DEF IsObject
<1>2. v \in [DOMAIN v -> Values \cup Kinds \cup {"unknown"}]
  BY <1>1
<1> QED
  BY <1>1, <1>2

\* What is written is an object of that kind, with the fields that are put.
LEMMA EncodeWrites ==
  ASSUME NEW e \in Entries, api[e] \in DOMAIN Required, NEW k \in Kinds, NEW S, count \in Nat
  PROVE  LET v == Encode(api[e], k, S, count + 1)
         IN  IsObject(v) /\ Puts(v, Write(e, k, S))
<1> DEFINE D == Required[api[e]][k] \cup (Optional[api[e]][k] \cap S)
           v == Encode(api[e], k, S, count + 1)
<1>1. D \subseteq AllFields /\ "type" \notin D
  BY Declared
<1>2. v = [f \in D \cup {"type"} |-> IF f = "type" THEN k ELSE IF f \in S THEN count + 1 ELSE Zero]
  BY DEF Encode
<1>3. Write(e, k, S) = [kind |-> k, put |-> [f \in D |-> IF f \in S THEN count + 1 ELSE Zero]]
  BY DEF Write
<1> HIDE DEF D, v
<1>4. /\ DOMAIN v = D \cup {"type"} /\ v["type"] = k
      /\ \A f \in D : v[f] = IF f \in S THEN count + 1 ELSE Zero
  BY <1>1, <1>2
<1>5. \A f \in D : v[f] \in Values
  BY <1>4 DEF Values
<1>6. IsObject(v)
  BY <1>1, <1>2, <1>4, <1>5 DEF IsObject
<1>7. Puts(v, Write(e, k, S))
  BY <1>1, <1>3, <1>4 DEF Puts
<1> QED
  BY <1>6, <1>7 DEF v

LEMMA OverlayIsObject ==
  ASSUME NEW t, NEW v, IsObject(t), IsObject(v)
  PROVE  IsObject(Overlay(t, v))
  BY DEF IsObject, Overlay

\* A received or carried object is a write of everything in it.
LEMMA DecodeWrites ==
  ASSUME NEW v, IsObject(v)
  PROVE  Puts(v, Decoded(v))
<1>1. v # Null
  BY ObjectsRead
<1>2. Decoded(v) = [kind |-> v.type, put |-> Restrict(v, DOMAIN v \ {"type"})]
  BY <1>1 DEF Decoded
<1> QED
  BY <1>2 DEF Puts, Restrict

-----------------------------------------------------------------------------
(* Reading what was written *)

LEMMA ReadsFirst ==
  ASSUME NEW v, NEW w, IsObject(v), Puts(v, w)
  PROVE  Reads(v, <<w>>)
<1>1. /\ <<w>> # << >> /\ Range(<<w>>) = {w} /\ Last(<<w>>) = w
      /\ <<w>>[1] = w /\ w.kind # "null"
  BY DEF Range, Last, Puts, IsObject, Kinds
<1>2. DOMAIN v = {"type"} \cup UNION {DOMAIN x.put : x \in Range(<<w>>)}
  <2>1. UNION {DOMAIN x.put : x \in Range(<<w>>)} = DOMAIN w.put
    BY <1>1
  <2> QED
    BY <2>1 DEF Puts, IsObject
<1>3. ASSUME NEW f \in DOMAIN v \ {"type"}
      PROVE  v[f] = <<w>>[Max(Writers(<<w>>, f))].put[f]
  <2>1. Writers(<<w>>, f) = {1}
    BY DEF Writers, Puts
  <2>2. Max({1}) = 1
    BY DEF Max
  <2>3. <<w>>[1] = w
    OBVIOUS
  <2>4. <<w>>[Max(Writers(<<w>>, f))] = w
    BY <2>1, <2>2, <2>3
  <2>5. w.put[f] = v[f]
    BY DEF Puts
  <2> QED
    BY <2>4, <2>5
<1> QED
  BY <1>1, <1>2, <1>3, ObjectsRead DEF Reads, Puts

\* What decoded null is null, and no merge changes that.
LEMMA ReadsNull ==
  /\ <<Decoded(Null)>> \in Seq(Range(<<Decoded(Null)>>)) /\ Reads(Null, <<Decoded(Null)>>)
  /\ \A R, w : \A l \in Seq(R) : l # << >> /\ Reads(Null, l) => Reads(Null, Append(l, w))
<1>1. /\ \A w : <<w>> # << >> /\ <<w>>[1] = w /\ <<w>> \in Seq({w}) /\ Range(<<w>>) = {w}
      /\ Decoded(Null).kind = "null"
  BY DEF Range, Decoded
<1>2. ASSUME NEW R, NEW l \in Seq(R), NEW w, l # << >>, Reads(Null, l)
      PROVE  Reads(Null, Append(l, w))
  <2>1. Append(l, w) # << >> /\ Append(l, w)[1] = l[1]
    BY <1>2
  <2> QED
    BY <1>2, <2>1 DEF Reads
<1> QED
  BY <1>1, <1>2 DEF Reads

\* A patch is the latest write of what it puts, and of nothing else.
LEMMA ReadsMore ==
  ASSUME NEW R, NEW l \in Seq(R), l # << >>, NEW t, IsObject(t), Reads(t, l),
         NEW v, NEW w, IsObject(v), Puts(v, w)
  PROVE  Reads(Overlay(t, v), Append(l, w))
<1> DEFINE m == Append(l, w)
           u == Overlay(t, v)
<1>1. /\ Len(l) \in Nat /\ DOMAIN l = 1 .. Len(l) /\ DOMAIN m = 1 .. Len(l) + 1
      /\ m # << >> /\ Len(m) = Len(l) + 1 /\ m[Len(l) + 1] = w /\ m[1] = l[1]
      /\ \A i \in 1 .. Len(l) : m[i] = l[i]
  OBVIOUS
<1>0. t # Null /\ l[1].kind # "null"
  BY ObjectsRead DEF Reads
<1>2. Range(m) = Range(l) \cup {w}
  BY <1>1 DEF Range
<1>3. Last(m) = w
  BY <1>1 DEF Last
<1>4. u = [f \in DOMAIN t \cup DOMAIN v |-> IF f \in DOMAIN v THEN v[f] ELSE t[f]]
  BY DEF Overlay
<1>5. IsObject(u)
  BY OverlayIsObject
<1> HIDE DEF m, u
<1>6. DOMAIN t = {"type"} \cup UNION {DOMAIN x.put : x \in Range(l)}
  BY <1>0 DEF Reads
<1>7. DOMAIN u = {"type"} \cup UNION {DOMAIN x.put : x \in Range(m)}
  BY <1>2, <1>4, <1>6 DEF Puts
<1>8. ASSUME NEW f \in DOMAIN u \ {"type"}
      PROVE  u[f] = m[Max(Writers(m, f))].put[f]
  <2>1. CASE f \in DOMAIN v
    <3>1. Writers(m, f) \in SUBSET (1 .. Len(l) + 1) /\ Len(l) + 1 \in Writers(m, f)
      BY <1>1, <1>8, <2>1 DEF Writers, Puts
    <3>2. /\ Max(Writers(m, f)) \in 1 .. Len(l) + 1
          /\ Max(Writers(m, f)) >= Len(l) + 1
      <4>1. PICK n \in Nat : n = Len(l) + 1
        BY <1>1
      <4>2. PICK T \in SUBSET (1 .. n) : T = Writers(m, f)
        BY <3>1, <4>1
      <4> QED
        BY <3>1, <4>1, <4>2, MaxIndex
    <3>3. Max(Writers(m, f)) = Len(l) + 1
      BY <1>1, <3>2
    <3> QED
      BY <1>1, <1>4, <1>8, <2>1, <3>3 DEF Puts
  <2>2. CASE f \notin DOMAIN v
    <3>1. f \in DOMAIN t \ {"type"} /\ u[f] = t[f]
      BY <1>4, <1>8, <2>2
    <3>2. Writers(m, f) = Writers(l, f)
      BY <1>1, <1>8, <2>2 DEF Writers, Puts
    <3>3. t[f] = l[Max(Writers(l, f))].put[f]
      BY <1>0, <3>1 DEF Reads
    <3>4. \E x \in Range(l) : f \in DOMAIN x.put
      BY <1>6, <3>1
    <3>5. Writers(l, f) # {} /\ Writers(l, f) \in SUBSET (1 .. Len(l))
      BY <1>1, <3>4 DEF Writers, Range
    <3>6. Max(Writers(l, f)) \in 1 .. Len(l)
      BY <1>1, <3>5, MaxIndex
    <3> QED
      BY <1>1, <3>1, <3>2, <3>3, <3>6
  <2> QED
    BY <2>1, <2>2
<1>9. "type" \in DOMAIN u /\ u["type"] = w.kind
  BY <1>4 DEF IsObject, Puts
<1> QED
  BY <1>0, <1>1, <1>3, <1>5, <1>7, <1>8, <1>9, ObjectsRead DEF Reads, m, u

-----------------------------------------------------------------------------
(* Arrays *)

\* There are as many arrays as variables, so one is free of all others.
LEMMA FreeArray ==
  ASSUME buf \in [Entries -> 1 .. Cardinality(Entries)], NEW e \in Entries
  PROVE  \E b \in 1 .. Cardinality(Entries) : \A x \in Entries \ {e} : buf[x] # b
<1> DEFINE n == Cardinality(Entries)
           g == [b \in 1 .. n |-> CHOOSE x \in Entries \ {e} : buf[x] = b]
<1>1. n \in Nat /\ IsFiniteSet(Entries \ {e}) /\ Cardinality(Entries \ {e}) = n - 1
  BY FS_CardinalityType, FS_RemoveElement
<1>2. IsFiniteSet(1 .. n) /\ Cardinality(1 .. n) = n
  <2>1. Cardinality(1 .. n) = IF 1 > n THEN 0 ELSE n - 1 + 1
    BY <1>1, FS_Interval
  <2> QED
    BY <1>1, <2>1, FS_Interval
<1> HIDE DEF n
<1>3. ASSUME \A b \in 1 .. n : \E x \in Entries \ {e} : buf[x] = b
      PROVE  FALSE
  <2>1. \A b \in 1 .. n : g[b] \in Entries \ {e} /\ buf[g[b]] = b
    BY <1>3
  <2>2. g \in [1 .. n -> Entries \ {e}]
    BY <2>1
  <2>3. Cardinality(Entries \ {e}) < Cardinality(1 .. n)
    BY <1>1, <1>2
  <2> HIDE DEF g
  <2>4. \E b, c \in 1 .. n : b # c /\ g[b] = g[c]
    BY <1>1, <1>2, <2>2, <2>3, FS_PigeonHole
  <2> QED
    BY <2>1, <2>4
<1> QED
  BY <1>3 DEF n

LEMMA OwnArrays ==
  \E b \in [Entries -> 1 .. Cardinality(Entries)] : IsInjective(b)
<1> DEFINE n == Cardinality(Entries)
<1>1. ExistsBijection(1 .. n, Entries)
  BY FS_CardinalityType
<1>2. PICK f \in Bijection(1 .. n, Entries) : TRUE
  BY <1>1 DEF ExistsBijection
<1> DEFINE b == [e \in Entries |-> CHOOSE i \in 1 .. n : f[i] = e]
<1>3. \A e \in Entries : \E i \in 1 .. n : f[i] = e
  BY <1>2 DEF Bijection, Surjection
<1>4. \A e \in Entries : b[e] \in 1 .. n /\ f[b[e]] = e
  BY <1>3
<1>5. b \in [Entries -> 1 .. n] /\ IsInjective(b)
  BY <1>4 DEF IsInjective
<1> QED
  BY <1>5

LEMMA StoreFresh ==
  ASSUME TypeOK, NEW e \in Entries, NEW v, Store(e, v)
  PROVE  /\ buf' \in [Entries -> 1 .. Cardinality(Entries)]
         /\ \A x \in Entries \ {e} : buf'[x] = buf[x] /\ buf'[x] # buf'[e]
<1> DEFINE b == CHOOSE b \in 1 .. Cardinality(Entries) : \A x \in Entries \ {e} : buf[x] # b
<1>1. buf \in [Entries -> 1 .. Cardinality(Entries)]
  BY DEF TypeOK
<1>2. b \in 1 .. Cardinality(Entries) /\ \A x \in Entries \ {e} : buf[x] # b
  BY <1>1, FreeArray
<1>3. buf' = [buf EXCEPT ![e] = b]
  BY DEF Store
<1> HIDE DEF b
<1> QED
  BY <1>1, <1>2, <1>3

-----------------------------------------------------------------------------
(* The inductive invariant *)

LEMMA UnionInit == Init => UnionInv
<1> SUFFICES ASSUME Init PROVE UnionInv
  OBVIOUS
<1>1. buf \in [Entries -> 1 .. Cardinality(Entries)] /\ IsInjective(buf)
  BY OwnArrays DEF Init
<1>2. DOMAIN text = Entries /\ \A e \in Entries : ~ HasObject(e) /\ ~ Readable(e)
  BY DEF Init, HasObject, Readable
<1>3. TypeOK
  BY <1>1, <1>2 DEF Init, TypeOK
<1>4. \A e \in Entries : Reads(text[e], log[e])
  BY DEF Init, Reads
<1>5. DOMAIN log = Entries /\ \A e \in Entries : log[e] \in Seq(Range(log[e]))
  BY DEF Init
<1>6. SharedBytesAgree
  BY <1>2 DEF SharedBytesAgree
<1> QED
  BY <1>2, <1>3, <1>4, <1>5, <1>6 DEF UnionInv, Init

LEMMA Typed ==
  ASSUME UnionInv, Count, UNCHANGED api, disturbed' \subseteq Entries, trailing' \subseteq Entries,
         buf' \in [Entries -> 1 .. Cardinality(Entries)],
         \A e \in Entries : HasObject(e)' => IsObject(text'[e])
  PROVE  TypeOK'
<1>1. api \in Apis /\ count \in 0 .. MaxOperations /\ count' \in 0 .. MaxOperations
  BY DEF UnionInv, TypeOK, Count
<1>2. ASSUME NEW e \in Entries, HasObject(e)'
      PROVE  /\ DOMAIN text'[e] \subseteq AllFields \cup {"type"}
             /\ "type" \in DOMAIN text'[e]
             /\ text'[e]["type"] \in Kinds \cup {"unknown"}
             /\ \A f \in DOMAIN text'[e] \ {"type"} : text'[e][f] \in Values
  BY <1>2 DEF IsObject
<1> QED
  BY <1>1, <1>2 DEF TypeOK

\* A write to an array of one's own reaches no other entry.
LEMMA Overwritten ==
  ASSUME UnionInv, Count, UNCHANGED api, NEW e \in Entries, NEW v, NEW l, Store(e, v),
         log' = [log EXCEPT ![e] = l], l \in Seq(Range(l)),
         v \notin {NoText, Null, Torn} => IsObject(v),
         \/ disturbed' = disturbed \ {e} /\ Reads(v, l)
         \/ disturbed' = disturbed /\ (e \notin disturbed => Reads(v, l))
  PROVE  UnionInv'
<1>1. /\ DOMAIN text = Entries /\ DOMAIN log = Entries /\ disturbed \subseteq Entries
      /\ text' = [text EXCEPT ![e] = v] /\ DOMAIN text' = Entries
      /\ trailing' = trailing \ {e} /\ trailing' \subseteq disturbed'
  BY DEF UnionInv, TypeOK, Store
<1>2. /\ buf' \in [Entries -> 1 .. Cardinality(Entries)]
      /\ \A x \in Entries \ {e} : buf'[x] = buf[x] /\ buf'[x] # buf'[e]
  BY StoreFresh DEF UnionInv
<1>3. \A x \in Entries : HasObject(x)' => IsObject(text'[x])
  BY <1>1 DEF UnionInv, HasObject
<1>4. TypeOK'
  BY <1>1, <1>2, <1>3, Typed
<1>5. DOMAIN log' = Entries /\ \A x \in Entries : log'[x] \in Seq(Range(log'[x]))
  BY <1>1 DEF UnionInv
<1>6. \A x \in Entries \ disturbed' : Reads(text'[x], log'[x])
  BY <1>1 DEF UnionInv
<1>7. SharedBytesAgree'
  <2> SUFFICES ASSUME NEW x \in Entries \ disturbed', NEW y \in Entries \ disturbed',
                      buf'[x] = buf'[y], Readable(x)', Readable(y)'
               PROVE  log'[x] = log'[y]
    BY DEF SharedBytesAgree
  <2>1. x = e <=> y = e
    BY <1>2
  <2>2. CASE x # e /\ y # e
    BY <1>1, <1>2, <2>2 DEF UnionInv, SharedBytesAgree, Readable
  <2> QED
    BY <2>1, <2>2
<1> QED
  BY <1>1, <1>3, <1>4, <1>5, <1>6, <1>7 DEF UnionInv

\* Where a decode writes over bytes that others read, they are disturbed.
LEMMA WrittenOver ==
  ASSUME UnionInv, Count, UNCHANGED api, NEW e \in Entries, NEW v, NEW w, StoreInPlace(e, v),
         log' = [log EXCEPT ![e] = <<w>>], v # Null => IsObject(v), Reads(v, <<w>>), Sharers(e) # {},
         disturbed' = (disturbed \ {e}) \cup Sharers(e)
  PROVE  UnionInv'
<1>1. /\ DOMAIN text = Entries /\ DOMAIN log = Entries /\ disturbed \subseteq Entries
      /\ buf \in [Entries -> 1 .. Cardinality(Entries)] /\ buf' = buf
      /\ trailing \subseteq disturbed
  BY DEF UnionInv, TypeOK, StoreInPlace
<1>2. Sharers(e) \subseteq Entries \ {e}
      /\ \A x \in Entries \ {e} : buf[x] = buf[e] /\ text[x] # NoText => x \in Sharers(e)
  BY DEF Sharers
<1>3. /\ DOMAIN text' = Entries /\ text'[e] = v
      /\ \A x \in Sharers(e) : text'[x] \in {v, Torn}
      /\ \A x \in Entries \ (Sharers(e) \cup {e}) : text'[x] = text[x]
      /\ trailing' \subseteq (trailing \ {e}) \cup Sharers(e)
      /\ \A x \in Entries \ (Sharers(e) \cup {e}) : x \in trailing' <=> x \in trailing
  <2>1. PICK short \in SUBSET Sharers(e), long \in SUBSET Sharers(e) :
           /\ text' = [x \in Entries |->
                 IF x \in short THEN Torn
                 ELSE IF x \in Sharers(e) \cup {e} THEN v ELSE text[x]]
           /\ trailing' = (trailing \ (Sharers(e) \cup {e})) \cup long
    BY DEF StoreInPlace
  <2> QED
    BY <1>2, <2>1
<1>4. \A x \in Entries : HasObject(x)' => IsObject(text'[x])
  BY <1>3 DEF UnionInv, HasObject
<1>5. disturbed' \subseteq Entries /\ trailing' \subseteq disturbed'
  BY <1>1, <1>2, <1>3
<1>6. TypeOK'
  BY <1>1, <1>4, <1>5, Typed
<1>7. <<w>> \in Seq(Range(<<w>>))
  BY DEF Range
<1>8. DOMAIN log' = Entries /\ \A x \in Entries : log'[x] \in Seq(Range(log'[x]))
  BY <1>1, <1>7 DEF UnionInv
<1>9. \A x \in Entries \ disturbed' : Reads(text'[x], log'[x])
  BY <1>1, <1>3 DEF UnionInv
<1>10. SharedBytesAgree'
  <2> SUFFICES ASSUME NEW x \in Entries \ disturbed', NEW y \in Entries \ disturbed',
                      buf[x] = buf[y], Readable(x)', Readable(y)'
               PROVE  log'[x] = log'[y]
    BY <1>1 DEF SharedBytesAgree
  <2>1. CASE x # e /\ y # e
    BY <1>1, <1>3, <2>1 DEF UnionInv, SharedBytesAgree, Readable
  <2>2. x = e <=> y = e
    BY <1>2, <1>3 DEF Readable
  <2> QED
    BY <2>1, <2>2
<1> QED
  BY <1>3, <1>4, <1>5, <1>6, <1>8, <1>9, <1>10 DEF UnionInv

\* A copy reads the same bytes and has the same history.
LEMMA AssignInv ==
  ASSUME UnionInv, NEW e \in Entries, NEW x \in Entries, Assign(e, x)
  PROVE  UnionInv'
<1>1. /\ DOMAIN text = Entries /\ DOMAIN log = Entries /\ disturbed \subseteq Entries
      /\ buf \in [Entries -> 1 .. Cardinality(Entries)] /\ Count /\ UNCHANGED api
      /\ text' = [text EXCEPT ![e] = text[x]] /\ buf' = [buf EXCEPT ![e] = buf[x]]
      /\ log' = [log EXCEPT ![e] = log[x]]
      /\ disturbed' = Copied(disturbed, e, x)
      /\ trailing' = Copied(trailing, e, x) /\ trailing \subseteq disturbed
  BY DEF UnionInv, TypeOK, Assign
<1>2. /\ buf' \in [Entries -> 1 .. Cardinality(Entries)] /\ disturbed' \subseteq Entries
      /\ trailing' \subseteq disturbed'
  BY <1>1 DEF Copied
<1>3. \A y \in Entries : HasObject(y)' => IsObject(text'[y])
  BY <1>1 DEF UnionInv, HasObject
<1>4. TypeOK'
  BY <1>1, <1>2, <1>3, Typed
<1>5. DOMAIN text' = Entries /\ DOMAIN log' = Entries /\ trailing' \subseteq disturbed'
  BY <1>1, <1>2
<1>6. \A y \in Entries : log'[y] \in Seq(Range(log'[y]))
  BY <1>1 DEF UnionInv
<1>7. PICK of \in [Entries -> Entries] :
        \A y \in Entries : /\ text'[y] = text[of[y]] /\ log'[y] = log[of[y]] /\ buf'[y] = buf[of[y]]
                           /\ y \notin disturbed' => of[y] \notin disturbed
                           /\ y \notin trailing' => of[y] \notin trailing
  <2> DEFINE of == [y \in Entries |-> IF y = e THEN x ELSE y]
  <2>1. of \in [Entries -> Entries]
    OBVIOUS
  <2>2. \A y \in Entries : /\ text'[y] = text[of[y]] /\ log'[y] = log[of[y]] /\ buf'[y] = buf[of[y]]
                           /\ y \notin disturbed' => of[y] \notin disturbed
                           /\ y \notin trailing' => of[y] \notin trailing
    BY <1>1 DEF Copied
  <2> QED
    BY <2>1, <2>2
<1>8. \A y \in Entries \ disturbed' : Reads(text'[y], log'[y])
  BY <1>7 DEF UnionInv
<1>9. SharedBytesAgree'
  <2> SUFFICES ASSUME NEW y \in Entries \ disturbed', NEW d \in Entries \ disturbed',
                      buf'[y] = buf'[d], Readable(y)', Readable(d)'
               PROVE  log'[y] = log'[d]
    BY DEF SharedBytesAgree
  <2>1. /\ of[y] \in Entries \ disturbed /\ of[d] \in Entries \ disturbed
        /\ buf[of[y]] = buf[of[d]] /\ Readable(of[y]) /\ Readable(of[d])
    BY <1>7 DEF Readable
  <2>2. log[of[y]] = log[of[d]]
    BY <2>1 DEF UnionInv, SharedBytesAgree
  <2> QED
    BY <1>7, <2>2
<1> QED
  BY <1>3, <1>4, <1>5, <1>6, <1>8, <1>9 DEF UnionInv

LEMMA FromInv ==
  ASSUME UnionInv, NEW e \in Entries, NEW k \in Kinds, NEW S, From(e, k, S)
  PROVE  UnionInv'
<1>1. /\ api[e] \in DOMAIN Required /\ count \in Nat /\ count' = count + 1 /\ DOMAIN log = Entries
      /\ Count /\ UNCHANGED api
      /\ log' = [log EXCEPT ![e] = <<Write(e, k, S)>>] /\ disturbed' = disturbed \ {e}
  BY DEF UnionInv, TypeOK, From, Count, Log
<1>2. PICK v, w : v = Encode(api[e], k, S, count + 1) /\ w = Write(e, k, S)
  OBVIOUS
<1>3. IsObject(v) /\ Puts(v, w)
  BY <1>1, <1>2, EncodeWrites
<1>4. Store(e, v)
  BY <1>1, <1>2 DEF From
<1>5. Reads(v, <<w>>) /\ <<w>> \in Seq(Range(<<w>>))
  BY <1>3, ReadsFirst DEF Range
<1> QED
  BY <1>1, <1>2, <1>3, <1>4, <1>5, Overwritten

LEMMA FromFailsInv == ASSUME UnionInv, NEW e \in Entries, FromFails(e) PROVE UnionInv'
<1>1. /\ Count /\ UNCHANGED api /\ Store(e, NoText)
      /\ log' = [log EXCEPT ![e] = << >>] /\ disturbed' = disturbed \ {e}
  BY DEF FromFails, Log
<1>2. Reads(NoText, << >>) /\ << >> \in Seq(Range(<< >>))
  BY DEF Reads
<1> QED
  BY <1>1, <1>2, Overwritten

\* A merge adds to the writes; what does not parse is lost with them.
LEMMA MergeInv ==
  ASSUME UnionInv, NEW e \in Entries, NEW k \in Kinds, NEW S, Merge(e, k, S)
  PROVE  UnionInv'
<1>1. /\ api[e] \in DOMAIN Required /\ count \in Nat /\ count' = count + 1 /\ DOMAIN log = Entries
      /\ Count /\ UNCHANGED api /\ DOMAIN text = Entries
      /\ e \notin disturbed => Reads(text[e], log[e])
  BY DEF UnionInv, TypeOK, Merge, Count
<1>2. PICK v, w : v = Encode(api[e], k, S, count + 1) /\ w = Write(e, k, S)
  OBVIOUS
<1>3. IsObject(v) /\ Puts(v, w)
  BY <1>1, <1>2, EncodeWrites
<1>4. Store(e, JSONMerge(text[e], v))
  BY <1>1, <1>2 DEF Merge
<1>5. CASE text[e] = Torn
  <2>1. Store(e, NoText)
    BY <1>4, <1>5 DEF JSONMerge
  <2>2. log' = [log EXCEPT ![e] = << >>] /\ disturbed' = disturbed \ {e}
    BY <1>5 DEF Merge, Log
  <2>3. Reads(NoText, << >>) /\ << >> \in Seq(Range(<< >>))
    BY DEF Reads
  <2> QED
    BY <1>1, <2>1, <2>2, <2>3, Overwritten
<1>6. CASE text[e] # Torn
  <2>1. PICK l : l = Append(log[e], w)
    OBVIOUS
  <2>2. log' = [log EXCEPT ![e] = l] /\ disturbed' = disturbed
    BY <1>1, <1>2, <1>6, <2>1 DEF Merge
  <2>3. l \in Seq(Range(l))
    <3>1. PICK R : R = Range(log[e]) \cup {w}
      OBVIOUS
    <3>2. log[e] \in Seq(Range(log[e]))
      BY DEF UnionInv
    <3>3. Range(l) = R
      BY <2>1, <3>1, <3>2 DEF Range
    <3>4. log[e] \in Seq(R)
      BY <3>1, <3>2, SeqMonotonic
    <3>5. l \in Seq(R)
      BY <2>1, <3>1, <3>4
    <3> QED
      BY <3>3, <3>5
  <2>4. CASE text[e] = NoText
    <3>1. Store(e, v)
      BY <1>4, <2>4 DEF JSONMerge
    <3>2. e \notin disturbed => log[e] = << >>
      BY <1>1, <2>4 DEF Reads
    <3>3. e \notin disturbed => l = <<w>>
      <4>1. Append(<< >>, w) = <<w>>
        OBVIOUS
      <4> QED
        BY <2>1, <3>2, <4>1
    <3>4. e \notin disturbed => Reads(v, l)
      BY <1>3, <3>3, ReadsFirst
    <3> QED
      BY <1>1, <1>3, <2>2, <2>3, <3>1, <3>4, Overwritten
  <2>5. CASE text[e] = Null
    <3>1. Store(e, Null) /\ Null # NoText
      BY <1>4, <2>5 DEF JSONMerge
    <3>2. e \notin disturbed => log[e] # << >> /\ Reads(Null, log[e])
      BY <1>1, <2>5, <3>1 DEF Reads
    <3>3. e \notin disturbed => Reads(Null, l)
      <4>1. log[e] \in Seq(Range(log[e]))
        BY DEF UnionInv
      <4> QED
        BY <2>1, <3>2, <4>1, ReadsNull
    <3> QED
      BY <1>1, <2>2, <2>3, <3>1, <3>3, Overwritten
  <2>6. CASE text[e] \notin {NoText, Null}
    <3>1. PICK t : t = text[e]
      OBVIOUS
    <3>2. IsObject(t)
      BY <1>6, <2>6, <3>1 DEF UnionInv, HasObject
    <3>3. Store(e, Overlay(t, v))
      BY <1>4, <1>6, <2>6, <3>1 DEF JSONMerge
    <3>4. IsObject(Overlay(t, v))
      BY <1>3, <3>2, OverlayIsObject
    <3>5. e \notin disturbed => log[e] # << >>
      BY <1>1, <2>6 DEF Reads
    <3>6. log[e] \in Seq(Range(log[e]))
      BY DEF UnionInv
    <3>7. e \notin disturbed => Reads(Overlay(t, v), l)
      BY <1>1, <1>3, <2>1, <3>1, <3>2, <3>5, <3>6, ReadsMore
    <3> QED
      BY <1>1, <2>2, <2>3, <3>3, <3>4, <3>7, Overwritten
  <2> QED
    BY <2>4, <2>5, <2>6
<1> QED
  BY <1>5, <1>6

LEMMA DecodeInv ==
  ASSUME UnionInv, NEW e \in Entries, NEW v, v # Null => IsObject(v), Decode(e, v)
  PROVE  UnionInv'
<1>1. PICK w : w = Decoded(v)
  OBVIOUS
<1>2. Reads(v, <<w>>) /\ <<w>> \in Seq(Range(<<w>>))
  <2>1. CASE v = Null
    BY <1>1, <2>1, ReadsNull
  <2>2. CASE v # Null
    BY <1>1, <2>2, DecodeWrites, ReadsFirst DEF Range
  <2> QED
    BY <2>1, <2>2
<1>3. /\ Count /\ UNCHANGED api
      /\ \/ Store(e, v) /\ Log(e, <<w>>)
         \/ /\ Sharers(e) # {} /\ StoreInPlace(e, v) /\ log' = [log EXCEPT ![e] = <<w>>]
            /\ disturbed' = (disturbed \ {e}) \cup Sharers(e)
  BY <1>1 DEF Decode
<1>4. CASE Store(e, v) /\ Log(e, <<w>>)
  BY <1>2, <1>3, <1>4, Overwritten DEF Log
<1>5. CASE ~ (Store(e, v) /\ Log(e, <<w>>))
  BY <1>2, <1>3, <1>5, WrittenOver
<1> QED
  BY <1>4, <1>5

LEMMA ReceiveInv == ASSUME UnionInv, NEW e \in Entries, Receive(e) PROVE UnionInv'
<1>0. CASE Decode(e, Null)
  BY <1>0, DecodeInv
<1> SUFFICES ASSUME ~ Decode(e, Null) PROVE UnionInv'
  BY <1>0
<1>1. PICK k \in Kinds \cup {"unknown"} :
        LET known == IF k \in Kinds THEN Fields(api[e], k) ELSE {"id", "name"}
        IN  Decode(e, [f \in known \cup {"note", "type"} |-> IF f = "type" THEN k ELSE count + 1])
  BY DEF Receive
<1>2. PICK known, v :
         /\ known = IF k \in Kinds THEN Fields(api[e], k) ELSE {"id", "name"}
         /\ v = [f \in known \cup {"note", "type"} |-> IF f = "type" THEN k ELSE count + 1]
  OBVIOUS
<1>3. api[e] \in DOMAIN Required /\ count + 1 \in Nat
  BY DEF UnionInv, TypeOK
<1>4. known \cup {"note"} \subseteq AllFields /\ "type" \notin AllFields
  BY <1>2, <1>3, Declared
<1>5. \A f \in DOMAIN v \ {"type"} : v[f] \in Values
  BY <1>2, <1>3 DEF Values
<1>6. v["type"] = k
  BY <1>2
<1>7. IsObject(v)
  BY <1>2, <1>4, <1>5, <1>6 DEF IsObject
<1> QED
  BY <1>1, <1>2, <1>7, DecodeInv

LEMMA CarryInv ==
  ASSUME UnionInv, NEW e \in Entries, NEW x \in Entries, Carry(e, x)
  PROVE  UnionInv'
<1>1. Decode(e, Marshalled(x)) /\ text[x] # Torn
  BY DEF Carry
<1>2. Marshalled(x) # Null => IsObject(Marshalled(x))
  BY <1>1 DEF Marshalled, UnionInv, HasObject
<1> QED
  BY <1>1, <1>2, DecodeInv

LEMMA UnionUnchanged == ASSUME UnionInv, UNCHANGED vars PROVE UnionInv'
  BY DEF UnionInv, TypeOK, SharedBytesAgree, HasObject, Readable, vars, history

-----------------------------------------------------------------------------
(* The theorems *)

\* The invariant: an entry whose bytes no decode wrote over reads what was
\* written to it, and one that reads the same bytes has the same history.
THEOREM UnionInvariance == Spec => []UnionInv
<1>1. ASSUME UnionInv, [Next]_vars PROVE UnionInv'
  <2>1. ASSUME NEW e \in Entries, NEW k \in Kinds, NEW S \in Givens, From(e, k, S) \/ Merge(e, k, S)
        PROVE  UnionInv'
    BY <1>1, <2>1, FromInv, MergeInv
  <2>2. ASSUME NEW e \in Entries, FromFails(e) \/ Receive(e) PROVE UnionInv'
    BY <1>1, <2>2, FromFailsInv, ReceiveInv
  <2>3. ASSUME NEW e \in Entries, NEW x \in Entries, Carry(e, x) \/ Assign(e, x) PROVE UnionInv'
    BY <1>1, <2>3, CarryInv, AssignInv
  <2>4. CASE UNCHANGED vars
    BY <1>1, <2>4, UnionUnchanged
  <2> QED
    BY <1>1, <2>1, <2>2, <2>3, <2>4 DEF Next
<1> QED
  BY <1>1, UnionInit, PTL DEF Spec

\* The value of an entry is an object with a kind, null, or broken.
THEOREM UnionTypes == Spec => []TypeOK
<1>1. UnionInv => TypeOK
  BY DEF UnionInv
<1> QED
  BY <1>1, UnionInvariance, PTL

\* Every key of an entry has the value of the latest write that put it, and what
\* decoded null is null.
THEOREM LatestRead == Spec => []ReadsLatest
<1>1. ASSUME UnionInv PROVE ReadsLatest
  <2> SUFFICES ASSUME NEW e \in Entries, e \notin disturbed
               PROVE  /\ log[e] = <<>> => text[e] = NoText
                      /\ Nulled(e) => text[e] = Null /\ Readable(e)
                      /\ log[e] # <<>> /\ ~ Nulled(e) =>
                            /\ HasObject(e) /\ Readable(e)
                            /\ DOMAIN text[e] = {"type"} \cup UNION {DOMAIN w.put : w \in Range(log[e])}
                            /\ \A f \in DOMAIN text[e] \ {"type"} :
                                  text[e][f] = log[e][Max(Writers(log[e], f))].put[f]
    BY DEF ReadsLatest, Writers
  <2>1. Reads(text[e], log[e]) /\ e \notin trailing
    BY <1>1 DEF UnionInv
  <2> QED
    BY <2>1 DEF Reads, Nulled, Readable, HasObject
<1> QED
  BY <1>1, UnionInvariance, PTL

\* Whatever As reads an entry as, its Type is the kind written last, or empty if
\* the entry is null.
THEOREM KindsAreTold == Spec => []KindIsTold
<1>1. ASSUME UnionInv PROVE KindIsTold
  <2> SUFFICES ASSUME NEW e \in Entries, e \notin disturbed, log[e] # << >>
               PROVE  IF Nulled(e)
                      THEN /\ \A k \in Kinds : As(e, k).type = Zero
                           /\ ValueByDiscriminator(e) = "unknown discriminator"
                      ELSE LET kind == Last(log[e]).kind
                           IN  /\ \A k \in Kinds : As(e, k).type = kind
                               /\ kind \in Kinds => ValueByDiscriminator(e) = As(e, kind)
    BY DEF KindIsTold
  <2>1. Reads(text[e], log[e])
    BY <1>1 DEF UnionInv
  <2>2. \A k \in Kinds : As(e, k)["type"] = Unmarshal(e, "type")
    BY DEF As
  <2>3. CASE Nulled(e)
    <3>1. Unmarshal(e, "type") = Zero
      BY <2>1, <2>3 DEF Reads, Nulled, Unmarshal
    <3> QED
      BY <2>2, <2>3, <3>1 DEF ValueByDiscriminator, Discriminator
  <2>4. CASE ~ Nulled(e)
    <3>1. Unmarshal(e, "type") = Last(log[e]).kind
      BY <2>1, <2>4 DEF Reads, Nulled, Unmarshal
    <3> QED
      BY <2>2, <2>4, <3>1 DEF ValueByDiscriminator, Discriminator
  <2> QED
    BY <2>3, <2>4
<1> QED
  BY <1>1, UnionInvariance, PTL

\* From and Merge never reach a copy.
THEOREM CopiesAgree == Spec => []SharedBytesAgree
<1>1. UnionInv => SharedBytesAgree
  BY DEF UnionInv
<1> QED
  BY <1>1, UnionInvariance, PTL
=============================================================================
