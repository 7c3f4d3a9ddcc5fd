---------------------------- MODULE StatusPageUnion ----------------------------
(***************************************************************************)
(* The entries of a status page: StatusPageTreeEntry and                   *)
(* StatusPageStructureEntry of client/client.gen.go, each a raw JSON value *)
(* that As, From and Merge see as a group or as a component.  A JSON       *)
(* object is a function from its keys; a value is the number of the        *)
(* operation that gave it, or Zero for the zero value Go encodes for a     *)
(* required field nobody set.  Entries are Go variables: assigning one to  *)
(* another copies the slice, and both then read the same bytes.            *)
(***************************************************************************)
EXTENDS Naturals, SequencesExt

CONSTANTS
    Entries,        \* variables of the caller
    Apis,           \* which union type each has: the instances to look at
    Givens,         \* sets of fields a caller sets
    MaxOperations,  \* bound: operations of the callers
    NoText,         \* the nil union
    Null,           \* the bytes null
    Torn,           \* bytes that end within a JSON value
    Zero            \* "", 0, nil, the zero UUID or time

Kinds == {"group", "component"}

Required ==
    [Tree |-> [group |-> {"components", "id", "inserted_at", "name", "position", "updated_at"},
               component |-> {"id", "inserted_at", "monitors", "name", "position", "updated_at"}],
     Structure |-> [group |-> {"components", "name"}, component |-> {"name"}]]

\* Pointers, marked omitempty.
Optional ==
    [Tree |-> [group |-> {}, component |-> {"description"}],
     Structure |-> [group |-> {"id"}, component |-> {"description", "id", "monitors"}]]

Fields(a, k) == Required[a][k] \cup Optional[a][k]
AllFields == {"note"} \cup UNION {Fields(a, k) : a \in DOMAIN Required, k \in Kinds}

Values == Nat \cup {Zero}

ASSUME UnionAssumption ==
    /\ IsFiniteSet(Entries) /\ MaxOperations \in Nat
    /\ NoText # Null /\ NoText # Torn /\ Null # Torn
    /\ \A D \in SUBSET (AllFields \cup {"type"}) :
          {NoText, Null, Torn} \cap [D -> Values \cup Kinds \cup {"unknown"}] = {}
    /\ Zero \notin Kinds
    /\ Apis \subseteq [Entries -> DOMAIN Required]
    /\ Givens \subseteq SUBSET AllFields

VARIABLES
    api,        \* the Go type of each entry
    text,       \* the value its union starts with: an object, NoText, Null or Torn
    trailing,   \* entries whose bytes go on after that value
    buf,        \* the array behind its union
    count,      \* operations so far
    log,        \* history: the writes since the entry was last overwritten
    disturbed   \* history: entries whose bytes a decode into a copy has changed

history == <<log, disturbed>>
vars == <<api, text, trailing, buf, count, history>>

Init ==
    /\ api \in Apis
    /\ text = [e \in Entries |-> NoText] /\ trailing = {}
    /\ buf = CHOOSE b \in [Entries -> 1 .. Cardinality(Entries)] : IsInjective(b)
    /\ count = 0
    /\ log = [e \in Entries |-> <<>>] /\ disturbed = {}

-----------------------------------------------------------------------------
(* JSON *)

\* json.Marshal of a value of kind k in which the caller set the fields S.
\* Slips: its Type is what the caller left there; an unset pointer is encoded.
EncodeUntyped(a, k, S, n) ==
    [f \in Required[a][k] \cup (Optional[a][k] \cap S) \cup {"type"} |->
        IF f \in S THEN n ELSE Zero]
EncodeAll(a, k, S, n) ==
    [f \in Fields(a, k) \cup {"type"} |->
        IF f = "type" THEN k ELSE IF f \in S THEN n ELSE Zero]
Encode(a, k, S, n) ==
    [f \in Required[a][k] \cup (Optional[a][k] \cap S) \cup {"type"} |->
        IF f = "type" THEN k ELSE IF f \in S THEN n ELSE Zero]

\* Times of the tree may be outside the years JSON has.
MarshalFails(a) == a = "Tree"

\* runtime.JSONMerge: the patch wins, key by key.  A nil value is an empty
\* object, but null is no object and stays as it is, without an error; bytes that
\* do not start with a value give nil and an error.  What follows is not read.
Overlay(x, y) == [f \in DOMAIN x \cup DOMAIN y |-> IF f \in DOMAIN y THEN y[f] ELSE x[f]]
JSONMerge(data, patch) ==
    CASE data = NoText -> patch
      [] data = Null   -> Null
      [] data = Torn   -> NoText
      [] OTHER         -> Overlay(data, patch)

\* json.Unmarshal takes one value and nothing after it.
Readable(e) == text[e] \notin {NoText, Torn} /\ e \notin trailing

\* It leaves what the value does not set, and null sets nothing.
Unmarshal(e, f) ==
    IF text[e] # Null /\ f \in DOMAIN text[e] THEN text[e][f] ELSE Zero

\* Keys of another kind are dropped, and the discriminator is read like any other
\* field.  Slip: it is taken for granted.
AsTrusting(e, k) ==
    [f \in Fields(api[e], k) \cup {"type"} |-> IF f = "type" THEN k ELSE Unmarshal(e, f)]
As(e, k) == [f \in Fields(api[e], k) \cup {"type"} |-> Unmarshal(e, f)]

Discriminator(e) == Unmarshal(e, "type")
ValueByDiscriminator(e) ==
    IF Discriminator(e) \in Kinds THEN As(e, Discriminator(e)) ELSE "unknown discriminator"

-----------------------------------------------------------------------------
(* Operations of the caller *)

Count == count < MaxOperations /\ count' = count + 1
Sharers(e) == IF text[e] = NoText THEN {}
              ELSE {x \in Entries \ {e} : buf[x] = buf[e] /\ text[x] # NoText}

Write(e, k, S) ==
    [kind |-> k, put |-> [f \in Required[api[e]][k] \cup (Optional[api[e]][k] \cap S) |->
                             IF f \in S THEN count + 1 ELSE Zero]]

\* UnmarshalJSON appends to the slice's array from its start: those who share it
\* read the start of value if they are short, and old bytes after it if they are
\* long.  No object is as short as null.
StoreInPlace(e, value) ==
    /\ \E short \in SUBSET Sharers(e), long \in SUBSET Sharers(e) :
          LET nulls == {x \in Sharers(e) \ trailing : text[x] = Null}
          IN  /\ short \cap long = {}
              /\ IF value = Null
                 THEN /\ short = {} /\ long \cap nulls = {}
                      /\ {x \in Sharers(e) : text[x] # Torn} \subseteq nulls \cup long
                 ELSE nulls \subseteq short
              /\ text' = [x \in Entries |->
                     IF x \in short THEN Torn
                     ELSE IF x \in Sharers(e) \cup {e} THEN value ELSE text[x]]
              /\ trailing' = (trailing \ (Sharers(e) \cup {e})) \cup long
    /\ UNCHANGED buf

\* The union gets a new slice.
Store(e, value) ==
    /\ text' = [text EXCEPT ![e] = value]
    /\ trailing' = trailing \ {e}
    /\ buf' = [buf EXCEPT ![e] = CHOOSE b \in 1 .. Cardinality(Entries) :
                                    \A x \in Entries \ {e} : buf[x] # b]

Log(e, writes) ==
    /\ log' = [log EXCEPT ![e] = writes]
    /\ disturbed' = disturbed \ {e}

From(e, k, S) ==
    /\ Count
    /\ Store(e, Encode(api[e], k, S, count'))
    /\ Log(e, <<Write(e, k, S)>>)
    /\ UNCHANGED api

\* The union is overwritten with nil before the error is returned.
FromFails(e) ==
    /\ MarshalFails(api[e])
    /\ Count
    /\ Store(e, NoText)
    /\ Log(e, <<>>)
    /\ UNCHANGED api

\* What does not parse is lost: JSONMerge's nil is stored before its error is
\* returned.  When Marshal fails, on the other hand, nothing changes.
Merge(e, k, S) ==
    /\ Count
    /\ Store(e, JSONMerge(text[e], Encode(api[e], k, S, count')))
    /\ IF text[e] = Torn THEN Log(e, <<>>)
       ELSE log' = [log EXCEPT ![e] = Append(@, Write(e, k, S))] /\ UNCHANGED disturbed
    /\ UNCHANGED api

\* Everything in the value counts as written.
Decoded(value) ==
    IF value = Null THEN [kind |-> "null", put |-> <<>>]
    ELSE [kind |-> value.type, put |-> Restrict(value, DOMAIN value \ {"type"})]

\* The array is used again when it has room.
Decode(e, value) ==
    /\ Count
    /\ \/ Store(e, value) /\ Log(e, <<Decoded(value)>>)
       \/ /\ Sharers(e) # {}
          /\ StoreInPlace(e, value)
          /\ log' = [log EXCEPT ![e] = <<Decoded(value)>>]
          /\ disturbed' = (disturbed \ {e}) \cup Sharers(e)
    /\ UNCHANGED api

\* An entry of the server: null, or every field set, keys this client does not
\* know, perhaps a kind it does not know.
Receive(e) ==
    \/ Decode(e, Null)
    \/ \E k \in Kinds \cup {"unknown"} :
          LET known == IF k \in Kinds THEN Fields(api[e], k) ELSE {"id", "name"}
          IN  Decode(e, [f \in known \cup {"note", "type"} |->
                             IF f = "type" THEN k ELSE count + 1])

\* json.Marshal of one entry, decoded into another: from the tree to a structure.
\* The nil union is marshalled as null; broken bytes are an error, and the other
\* entry keeps what it has.
Marshalled(x) == IF text[x] = NoText THEN Null ELSE text[x]
Carry(e, x) ==
    /\ x # e
    /\ text[x] # Torn /\ x \notin trailing
    /\ Decode(e, Marshalled(x))

Copied(S, e, x) == IF x \in S THEN S \cup {e} ELSE S \ {e}
Assign(e, x) ==
    /\ Count
    /\ x # e /\ api[e] = api[x]
    /\ text' = [text EXCEPT ![e] = text[x]]
    /\ trailing' = Copied(trailing, e, x)
    /\ buf' = [buf EXCEPT ![e] = buf[x]]
    /\ log' = [log EXCEPT ![e] = log[x]]
    /\ disturbed' = Copied(disturbed, e, x)
    /\ UNCHANGED api

Next ==
    \/ \E e \in Entries :
          \/ \E k \in Kinds, S \in Givens : From(e, k, S) \/ Merge(e, k, S)
          \/ FromFails(e) \/ Receive(e)
          \/ \E x \in Entries : Carry(e, x) \/ Assign(e, x)
    \/ count = MaxOperations /\ UNCHANGED vars

Spec == Init /\ [][Next]_vars
=============================================================================
