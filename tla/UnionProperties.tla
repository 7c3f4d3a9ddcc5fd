---------------------------- MODULE UnionProperties ----------------------------
(* What a caller may rely on that edits status-page entries, over StatusPageUnion. *)
EXTENDS StatusPageUnion

HasObject(e) == text[e] \notin {NoText, Null, Torn}

TypeOK ==
    /\ api \in Apis
    /\ \A e \in Entries : HasObject(e) =>
          /\ DOMAIN text[e] \subseteq AllFields \cup {"type"}
          /\ "type" \in DOMAIN text[e]
          /\ text[e].type \in Kinds \cup {"unknown"}
          /\ \A f \in DOMAIN text[e] \ {"type"} : text[e][f] \in Values
    /\ trailing \subseteq Entries
    /\ buf \in [Entries -> 1 .. Cardinality(Entries)]
    /\ count \in 0 .. MaxOperations
    /\ disturbed \subseteq Entries

\* A decode of null is the last thing that overwrote the entry.
Nulled(e) == log[e] # <<>> /\ log[e][1].kind = "null"

\* From and a decode start over and Merge adds: since then every key has the
\* value of the latest write that put it.  So a merge keeps a description or an id
\* the new value leaves out and keys this client does not know, whatever kind they
\* were written as, but resets fields Go always encodes, a tree entry's id among
\* them.  An entry is nil only when nothing was written or a write failed; and one
\* that decoded null stays null whatever is merged into it.
ReadsLatest ==
    \A e \in Entries \ disturbed :
        /\ log[e] = <<>> => text[e] = NoText
        /\ Nulled(e) => text[e] = Null /\ Readable(e)
        /\ log[e] # <<>> /\ ~ Nulled(e) =>
              /\ HasObject(e) /\ Readable(e)
              /\ DOMAIN text[e] = {"type"} \cup UNION {DOMAIN w.put : w \in Range(log[e])}
              /\ \A f \in DOMAIN text[e] \ {"type"} :
                    LET writers == {i \in DOMAIN log[e] : f \in DOMAIN log[e][i].put}
                    IN  text[e][f] = log[e][Max(writers)].put[f]

\* As does not compare the kind it reads with the kind it holds and returns no
\* error; but the Type of what it returns is the kind last written, so a caller
\* can tell, and ValueByDiscriminator reads as that kind.  From null both kinds are
\* read with an empty Type, and ValueByDiscriminator refuses.
KindIsTold ==
    \A e \in Entries \ disturbed : log[e] # <<>> =>
        LET kind == Last(log[e]).kind
        IN  IF Nulled(e)
            THEN /\ \A k \in Kinds : As(e, k).type = Zero
                 /\ ValueByDiscriminator(e) = "unknown discriminator"
            ELSE /\ \A k \in Kinds : As(e, k).type = kind
                 /\ kind \in Kinds => ValueByDiscriminator(e) = As(e, kind)

\* A merge that returned no error left its fields in the entry, as the comments
\* on the Merge methods say.  It does not when the entry had decoded null.
MergeTakesEffect ==
    \A e \in Entries \ disturbed : Len(log[e]) > 1 =>
        LET patch == Last(log[e])
        IN  HasObject(e) /\ \A f \in DOMAIN patch.put : Unmarshal(e, f) = patch.put[f]

\* Entries that read the same bytes hold the same value, until a decode into one
\* of them writes over the bytes of the others: From and Merge never reach a copy.
SharedBytesAgree ==
    \A d, e \in Entries \ disturbed :
        buf[d] = buf[e] /\ Readable(d) /\ Readable(e) => log[d] = log[e]

-----------------------------------------------------------------------------
(* What the proofs carry from step to step *)

IsObject(v) ==
    /\ v = [f \in DOMAIN v |-> v[f]]
    /\ "type" \in DOMAIN v /\ v["type"] \in Kinds \cup {"unknown"}
    /\ DOMAIN v \subseteq AllFields \cup {"type"}
    /\ \A f \in DOMAIN v \ {"type"} : v[f] \in Values

\* The write w puts the object v.
Puts(v, w) ==
    /\ w.kind = v["type"]
    /\ DOMAIN w.put = DOMAIN v \ {"type"}
    /\ \A f \in DOMAIN w.put : w.put[f] = v[f]

Writers(l, f) == {i \in DOMAIN l : f \in DOMAIN l[i].put}

\* The text t is what the writes l left.
Reads(t, l) ==
    IF l = <<>> THEN t = NoText
    ELSE IF l[1].kind = "null" THEN t = Null
    ELSE /\ t \notin {NoText, Null, Torn}
         /\ "type" \in DOMAIN t /\ t["type"] = Last(l).kind
         /\ DOMAIN t = {"type"} \cup UNION {DOMAIN w.put : w \in Range(l)}
         /\ \A f \in DOMAIN t \ {"type"} : t[f] = l[Max(Writers(l, f))].put[f]

\* Only the entries whose bytes a decode wrote over may read anything else than
\* what was written to them, or be broken.
UnionInv ==
    /\ TypeOK
    /\ DOMAIN text = Entries /\ \A e \in Entries : HasObject(e) => IsObject(text[e])
    /\ DOMAIN log = Entries /\ \A e \in Entries : log[e] \in Seq(Range(log[e]))
    /\ \A e \in Entries \ disturbed : Reads(text[e], log[e])
    /\ trailing \subseteq disturbed
    /\ SharedBytesAgree
=============================================================================
