------------------------------ MODULE TableProofs ------------------------------
(* The tables of the generated client say what the API specification says. *)
EXTENDS ApiProperties, SequenceLemmas

-----------------------------------------------------------------------------
(* Paths *)

\* The elements of a path made of two parts, by number.
Concat(w, s, t) == w = s \o t
Joins(w, s, t) ==
    /\ Len(w) = Len(s) + Len(t)
    /\ \A i \in 1 .. Len(s) : w[i] = s[i]
    /\ \A i \in Len(s) + 1 .. Len(s) + Len(t) : w[i] = t[i - Len(s)]

LEMMA Joined ==
  ASSUME NEW S, NEW s \in Seq(S), NEW t \in Seq(S), NEW w, Concat(w, s, t)
  PROVE  w \in Seq(S) /\ Joins(w, s, t)
<1>1. Len(s) \in Nat /\ Len(t) \in Nat
  OBVIOUS
<1>2. /\ w \in Seq(S) /\ Len(w) = Len(s) + Len(t)
      /\ \A i \in 1 .. Len(s) + Len(t) : w[i] = IF i <= Len(s) THEN s[i] ELSE t[i - Len(s)]
  BY ConcatProperties DEF Concat
<1>3. ASSUME NEW i \in 1 .. Len(s) PROVE w[i] = s[i]
  BY <1>1, <1>2
<1>4. ASSUME NEW i \in Len(s) + 1 .. Len(s) + Len(t) PROVE w[i] = t[i - Len(s)]
  BY <1>1, <1>2
<1> QED
  BY <1>2, <1>3, <1>4 DEF Joins

LEMMA SplitPairs == ASSUME NEW a, NEW b PROVE <<a>> \o <<b>> = <<a, b>>
<1> DEFINE S == {a, b}
           s == <<a>>
           t == <<b>>
           u == <<a, b>>
<1>1. /\ s \in Seq(S) /\ t \in Seq(S) /\ u \in Seq(S)
      /\ Len(s) = 1 /\ Len(t) = 1 /\ Len(u) = 2
      /\ s[1] = u[1] /\ t[1] = u[2]
  OBVIOUS
<1>2. PICK w : Concat(w, s, t)
  BY DEF Concat
<1> HIDE DEF S, s, t, u
<1>3. w \in Seq(S) /\ Joins(w, s, t)
  BY <1>1, <1>2, Joined
<1>4. Len(w) = 2 /\ w[1] = u[1] /\ w[2] = u[2]
  BY <1>1, <1>3 DEF Joins
<1>5. \A i \in 1 .. 2 : i = 1 \/ i = 2
  OBVIOUS
<1>6. w = u
  BY <1>1, <1>3, <1>4, <1>5, SeqEqual
<1> QED
  BY <1>2, <1>6 DEF Concat, s, t, u

LEMMA SplitTriples == ASSUME NEW a, NEW b, NEW c PROVE <<a>> \o <<b, c>> = <<a, b, c>>
<1> DEFINE S == {a, b, c}
           s == <<a>>
           t == <<b, c>>
           u == <<a, b, c>>
<1>1. /\ s \in Seq(S) /\ t \in Seq(S) /\ u \in Seq(S)
      /\ Len(s) = 1 /\ Len(t) = 2 /\ Len(u) = 3
      /\ s[1] = u[1] /\ t[1] = u[2] /\ t[2] = u[3]
  OBVIOUS
<1>2. PICK w : Concat(w, s, t)
  BY DEF Concat
<1> HIDE DEF S, s, t, u
<1>3. w \in Seq(S) /\ Joins(w, s, t)
  BY <1>1, <1>2, Joined
<1>4. Len(w) = 3 /\ w[1] = u[1] /\ w[2] = u[2] /\ w[3] = u[3]
  BY <1>1, <1>3 DEF Joins
<1>5. \A i \in 1 .. 3 : i = 1 \/ i = 2 \/ i = 3
  OBVIOUS
<1>6. w = u
  BY <1>1, <1>3, <1>4, <1>5, SeqEqual
<1> QED
  BY <1>2, <1>6 DEF Concat, s, t, u

LEMMA SplitLast == ASSUME NEW a, NEW b, NEW c, NEW d PROVE <<a, b, c>> \o <<d>> = <<a, b, c, d>>
<1> DEFINE S == {a, b, c, d}
           s == <<a, b, c>>
           t == <<d>>
           u == <<a, b, c, d>>
<1>1. /\ s \in Seq(S) /\ t \in Seq(S) /\ u \in Seq(S)
      /\ Len(s) = 3 /\ Len(t) = 1 /\ Len(u) = 4
      /\ s[1] = u[1] /\ s[2] = u[2] /\ s[3] = u[3] /\ t[1] = u[4]
  OBVIOUS
<1>2. PICK w : Concat(w, s, t)
  BY DEF Concat
<1> HIDE DEF S, s, t, u
<1>3. w \in Seq(S) /\ Joins(w, s, t)
  BY <1>1, <1>2, Joined
<1>4. Len(w) = 4 /\ w[1] = u[1] /\ w[2] = u[2] /\ w[3] = u[3] /\ w[4] = u[4]
  BY <1>1, <1>3 DEF Joins
<1>5. \A i \in 1 .. 4 : i = 1 \/ i = 2 \/ i = 3 \/ i = 4
  OBVIOUS
<1>6. w = u
  BY <1>1, <1>3, <1>4, <1>5, SeqEqual
<1> QED
  BY <1>2, <1>6 DEF Concat, s, t, u

LEMMA SplitNone ==
  ASSUME NEW a, NEW b, NEW c
  PROVE  <<a>> \o << >> = <<a>> /\ <<a, b, c>> \o << >> = <<a, b, c>>
  OBVIOUS

\* The path of a collection's operation, and of that of a part of a status page.
PathOf(x, v) ==
    CASE v \in {"List", "Create"}          -> <<x>>
      [] v \in {"Get", "Update", "Delete"} -> <<x, Id>>
      [] v = "Replace"                     -> <<x, Id, "structure">>
      [] v = "Cert"                        -> <<x, Id, "cert">>
      [] v = "ResponseTimes"               -> <<x, Id, "response-times">>
      [] v = "State"                       -> <<x, Id, "state">>
      [] v = "Uptime"                      -> <<x, Id, "uptime">>

PartPathOf(x, y, z, v) == IF v = "Create" THEN <<x, y, z>> ELSE <<x, y, z, Id>>

LEMMA SuffixVerbs ==
  DOMAIN SpecSuffix = {"List", "Create", "Get", "Update", "Delete", "Replace", "Cert",
                       "ResponseTimes", "State", "Uptime"}
  BY DEF SpecSuffix

LEMMA PathsSplit ==
  ASSUME NEW x, NEW v \in DOMAIN SpecSuffix
  PROVE  <<x>> \o SpecSuffix[v] = PathOf(x, v)
<1>1. CASE v \in {"List", "Create"}
  <2>1. SpecSuffix[v] = << >> /\ PathOf(x, v) = <<x>>
    BY <1>1 DEF SpecSuffix, PathOf
  <2> QED
    BY <2>1, SplitNone
<1>2. CASE v \in {"Get", "Update", "Delete"}
  <2>1. SpecSuffix[v] = <<Id>> /\ PathOf(x, v) = <<x, Id>>
    BY <1>2 DEF SpecSuffix, PathOf
  <2> QED
    BY <2>1, SplitPairs
<1>3. CASE v \in {"Replace", "Cert", "ResponseTimes", "State", "Uptime"}
  <2>1. \E y : SpecSuffix[v] = <<Id, y>> /\ PathOf(x, v) = <<x, Id, y>>
    BY <1>3 DEF SpecSuffix, PathOf
  <2> QED
    BY <2>1, SplitTriples
<1> QED
  BY <1>1, <1>2, <1>3, SuffixVerbs

LEMMA PartPathsSplit ==
  ASSUME NEW x, NEW y, NEW z, NEW v \in {"Create", "Get", "Update", "Delete"}
  PROVE  <<x, y, z>> \o SpecSuffix[v] = PartPathOf(x, y, z, v)
<1>1. CASE v = "Create"
  <2>1. SpecSuffix[v] = << >> /\ PartPathOf(x, y, z, v) = <<x, y, z>>
    BY <1>1 DEF SpecSuffix, PartPathOf
  <2> QED
    BY <2>1, SplitNone
<1>2. CASE v \in {"Get", "Update", "Delete"}
  <2>1. SpecSuffix[v] = <<Id>> /\ PartPathOf(x, y, z, v) = <<x, y, z, Id>>
    BY <1>2 DEF SpecSuffix, PartPathOf
  <2> QED
    BY <2>1, SplitLast
<1> QED
  BY <1>1, <1>2

-----------------------------------------------------------------------------
(* The requests of each resource *)

LEMMA AlertChannelTable ==
  ASSUME NEW v \in DOMAIN AlertChannelRequests
  PROVE  /\ v \in {"List", "Create", "Get", "Update", "Delete"}
         /\ AlertChannelRequests[v].path = PathOf("alert-channels", v)
         /\ AlertChannelRequests[v].method = SpecMethod[v]
  BY DEF AlertChannelRequests, Get, Post, Patch, Delete, Put, PathOf, SpecMethod

LEMMA DisruptionTable ==
  ASSUME NEW v \in DOMAIN DisruptionRequests
  PROVE  /\ v \in {"List", "Create", "Get", "Update"}
         /\ DisruptionRequests[v].path = PathOf("disruptions", v)
         /\ DisruptionRequests[v].method = SpecMethod[v]
  BY DEF DisruptionRequests, Get, Post, Patch, Delete, Put, PathOf, SpecMethod

LEMMA MonitorTable ==
  ASSUME NEW v \in DOMAIN MonitorRequests
  PROVE  /\ v \in {"List", "Create", "Get", "Update", "Delete"}
         /\ MonitorRequests[v].path = PathOf("monitors", v)
         /\ MonitorRequests[v].method = SpecMethod[v]
  BY DEF MonitorRequests, Get, Post, Patch, Delete, Put, PathOf, SpecMethod

LEMMA MonitorStatTable ==
  ASSUME NEW v \in DOMAIN MonitorStatRequests
  PROVE  /\ v \in {"Cert", "ResponseTimes", "State", "Uptime"}
         /\ MonitorStatRequests[v].path = PathOf("monitors", v)
         /\ MonitorStatRequests[v].method = SpecMethod[v]
  BY DEF MonitorStatRequests, Get, Post, Patch, Delete, Put, PathOf, SpecMethod

LEMMA StatusPageTable ==
  ASSUME NEW v \in DOMAIN StatusPageRequests
  PROVE  /\ v \in {"List", "Create", "Get", "Update", "Delete", "Replace"}
         /\ StatusPageRequests[v].path = PathOf("status-pages", v)
         /\ StatusPageRequests[v].method = SpecMethod[v]
  BY DEF StatusPageRequests, Get, Post, Patch, Delete, Put, PathOf, SpecMethod

LEMMA WebhookTable ==
  ASSUME NEW v \in DOMAIN WebhookRequests
  PROVE  /\ v \in {"List", "Create", "Get", "Update", "Delete"}
         /\ WebhookRequests[v].path = PathOf("webhooks", v)
         /\ WebhookRequests[v].method = SpecMethod[v]
  BY DEF WebhookRequests, Get, Post, Patch, Delete, Put, PathOf, SpecMethod

LEMMA ComponentGroupTable ==
  ASSUME NEW v \in DOMAIN ComponentGroupRequests
  PROVE  /\ v \in {"Create", "Get", "Update", "Delete"}
         /\ ComponentGroupRequests[v].path = PartPathOf("status-pages", Page, "component-groups", v)
         /\ ComponentGroupRequests[v].method = SpecMethod[v]
  BY DEF ComponentGroupRequests, Get, Post, Patch, Delete, Put, PartPathOf, SpecMethod

LEMMA ComponentTable ==
  ASSUME NEW v \in DOMAIN ComponentRequests
  PROVE  /\ v \in {"Create", "Get", "Update", "Delete"}
         /\ ComponentRequests[v].path = PartPathOf("status-pages", Page, "components", v)
         /\ ComponentRequests[v].method = SpecMethod[v]
  BY DEF ComponentRequests, Get, Post, Patch, Delete, Put, PartPathOf, SpecMethod

-----------------------------------------------------------------------------
(* What an operation names *)

\* Whether the path of an operation has the placeholder of an object.
Names(o) == Id \in Segments(SpecPath(o)) \/ Page \in Segments(SpecPath(o))

LEMMA SegmentsOf ==
  /\ \A a : Segments(<<a>>) = {a}
  /\ \A a, b : Segments(<<a, b>>) = {a, b}
  /\ \A a, b, c : Segments(<<a, b, c>>) = {a, b, c}
  /\ \A a, b, c, d : Segments(<<a, b, c, d>>) = {a, b, c, d}
<1>1. ASSUME NEW a PROVE Segments(<<a>>) = {a}
  BY DEF Segments
<1>2. ASSUME NEW a, NEW b PROVE Segments(<<a, b>>) = {a, b}
  BY DEF Segments
<1>3. ASSUME NEW a, NEW b, NEW c PROVE Segments(<<a, b, c>>) = {a, b, c}
  BY DEF Segments
<1>4. ASSUME NEW a, NEW b, NEW c, NEW d PROVE Segments(<<a, b, c, d>>) = {a, b, c, d}
  BY DEF Segments
<1> QED
  BY <1>1, <1>2, <1>3, <1>4

LEMMA PathNames ==
  ASSUME NEW x \in {"alert-channels", "disruptions", "monitors", "status-pages", "webhooks"},
         NEW v \in DOMAIN SpecSuffix
  PROVE  /\ Page \notin Segments(PathOf(x, v))
         /\ Id \in Segments(PathOf(x, v)) <=> v \notin {"List", "Create"}
         /\ PathOf(x, v) = <<"monitors">> <=> x = "monitors" /\ v \in {"List", "Create"}
         /\ PathOf(x, v) = <<"monitors", Id, "uptime">> <=> x = "monitors" /\ v = "Uptime"
<1>1. CASE v \in {"List", "Create"}
  <2>1. PathOf(x, v) = <<x>>
    BY <1>1 DEF PathOf
  <2>2. Segments(<<x>>) = {x}
    BY SegmentsOf
  <2>3. <<x>> # <<"monitors", Id, "uptime">> /\ (<<x>> = <<"monitors">> <=> x = "monitors")
    OBVIOUS
  <2>4. Page \notin {x} /\ Id \notin {x}
    BY DEF Id, Page
  <2>5. v \in {"List", "Create"} /\ v # "Uptime"
    BY <1>1
  <2> QED
    BY <2>1, <2>2, <2>3, <2>4, <2>5
<1>2. CASE v \in {"Get", "Update", "Delete"}
  <2>1. PathOf(x, v) = <<x, Id>>
    BY <1>2 DEF PathOf
  <2>2. Segments(<<x, Id>>) = {x, Id}
    BY SegmentsOf
  <2>3. <<x, Id>> # <<"monitors", Id, "uptime">> /\ <<x, Id>> # <<"monitors">>
    OBVIOUS
  <2>4. Page \notin {x, Id} /\ Id \in {x, Id}
    BY DEF Id, Page
  <2>5. v \notin {"List", "Create"} /\ v # "Uptime"
    BY <1>2
  <2> QED
    BY <2>1, <2>2, <2>3, <2>4, <2>5
<1>3. CASE v \in {"Replace", "Cert", "ResponseTimes", "State", "Uptime"}
  <2>1. PICK y \in {"structure", "cert", "response-times", "state", "uptime"} :
           PathOf(x, v) = <<x, Id, y>> /\ (y = "uptime" <=> v = "Uptime")
    BY <1>3 DEF PathOf
  <2>2. Segments(<<x, Id, y>>) = {x, Id, y}
    BY SegmentsOf
  <2>3. /\ <<x, Id, y>> # <<"monitors">>
        /\ <<x, Id, y>> = <<"monitors", Id, "uptime">> <=> x = "monitors" /\ y = "uptime"
    OBVIOUS
  <2>4. Page \notin {x, Id, y} /\ Id \in {x, Id, y}
    BY DEF Id, Page
  <2>5. v \notin {"List", "Create"} /\ (v = "Uptime" <=> y = "uptime")
    BY <1>3, <2>1
  <2> QED
    BY <2>1, <2>2, <2>3, <2>4, <2>5
<1> QED
  BY <1>1, <1>2, <1>3, SuffixVerbs

LEMMA PartPathNames ==
  ASSUME NEW y, NEW z, NEW v
  PROVE  /\ y = Page => Page \in Segments(PartPathOf("status-pages", y, z, v))
         /\ PartPathOf("status-pages", y, z, v) # <<"monitors">>
         /\ PartPathOf("status-pages", y, z, v) # <<"monitors", Id, "uptime">>
<1>1. CASE v = "Create"
  <2>1. PartPathOf("status-pages", y, z, v) = <<"status-pages", y, z>>
    BY <1>1 DEF PartPathOf
  <2>2. Segments(<<"status-pages", y, z>>) = {"status-pages", y, z}
    BY SegmentsOf
  <2>3. <<"status-pages", y, z>> # <<"monitors">> /\ <<"status-pages", y, z>> # <<"monitors", Id, "uptime">>
    OBVIOUS
  <2> QED
    BY <2>1, <2>2, <2>3
<1>2. CASE v # "Create"
  <2>1. PartPathOf("status-pages", y, z, v) = <<"status-pages", y, z, Id>>
    BY <1>2 DEF PartPathOf
  <2>2. Segments(<<"status-pages", y, z, Id>>) = {"status-pages", y, z, Id}
    BY SegmentsOf
  <2>3. /\ <<"status-pages", y, z, Id>> # <<"monitors">>
        /\ <<"status-pages", y, z, Id>> # <<"monitors", Id, "uptime">>
    OBVIOUS
  <2> QED
    BY <2>1, <2>2, <2>3
<1> QED
  BY <1>1, <1>2

\* The statuses with a JSON body of an operation, given the verbs that name no object.
BodiesOf(r, v, nameless) ==
    {401}
    \cup (IF v = "Create" THEN {201} ELSE IF v = "Delete" THEN {} ELSE {200})
    \cup (IF v \notin nameless THEN {404} ELSE {})
    \cup (IF v \in {"Create", "Update", "Replace"} THEN {422} ELSE {})
    \cup (IF v = "Create" /\ v \in nameless /\ r # "Disruption" THEN {403} ELSE {})

LEMMA CollectionShape ==
  ASSUME NEW o, o.verb \in DOMAIN SpecSuffix,
         NEW x \in {"alert-channels", "disruptions", "monitors", "status-pages", "webhooks"},
         SpecCollection[o.resource] = <<x>>
  PROVE  /\ SpecPath(o) = PathOf(x, o.verb)
         /\ SpecBodies(o) = BodiesOf(o.resource, o.verb, {"List", "Create"})
         /\ SpecQuery(o) = IF x = "monitors" /\ o.verb = "List" THEN {"check_type", "enabled"}
                           ELSE IF x = "monitors" /\ o.verb = "Uptime" THEN {"range"} ELSE {}
<1>1. SpecPath(o) = PathOf(x, o.verb)
  BY PathsSplit DEF SpecPath
<1>2. Names(o) <=> o.verb \notin {"List", "Create"}
  BY <1>1, PathNames DEF Names
<1>3. SpecBodies(o) = BodiesOf(o.resource, o.verb, {"List", "Create"})
  BY <1>2 DEF SpecBodies, BodiesOf, Names
<1>4. /\ SpecPath(o) = <<"monitors">> <=> x = "monitors" /\ o.verb \in {"List", "Create"}
      /\ SpecPath(o) = <<"monitors", Id, "uptime">> <=> x = "monitors" /\ o.verb = "Uptime"
  BY <1>1, PathNames
<1>5. /\ o.verb = "List" => SpecMethod[o.verb] = "GET"
      /\ o.verb = "Create" => SpecMethod[o.verb] # "GET"
  BY DEF SpecMethod
<1>6. SpecQuery(o) = IF x = "monitors" /\ o.verb = "List" THEN {"check_type", "enabled"}
                    ELSE IF x = "monitors" /\ o.verb = "Uptime" THEN {"range"} ELSE {}
  BY <1>4, <1>5 DEF SpecQuery
<1> QED
  BY <1>1, <1>3, <1>6

IsPart(o, z) == SpecCollection[o.resource] = <<"status-pages", Page, z>>

LEMMA PartShape ==
  ASSUME NEW o, o.verb \in {"Create", "Get", "Update", "Delete"}, NEW z,
         IsPart(o, z)
  PROVE  /\ SpecPath(o) = PartPathOf("status-pages", Page, z, o.verb)
         /\ SpecBodies(o) = BodiesOf(o.resource, o.verb, {})
         /\ SpecQuery(o) = {}
<1>1. SpecPath(o) = PartPathOf("status-pages", Page, z, o.verb)
  BY PartPathsSplit DEF SpecPath, IsPart
<1>2. Names(o)
  BY <1>1, PartPathNames DEF Names
<1>3. SpecBodies(o) = BodiesOf(o.resource, o.verb, {})
  BY <1>2 DEF SpecBodies, BodiesOf, Names
<1>4. SpecPath(o) # <<"monitors">> /\ SpecPath(o) # <<"monitors", Id, "uptime">>
  BY <1>1, PartPathNames
<1>5. SpecQuery(o) = {}
  BY <1>4 DEF SpecQuery
<1> QED
  BY <1>1, <1>3, <1>5

-----------------------------------------------------------------------------
(* What the client has for an operation is what the specification says *)

Agrees(o) ==
    /\ RequestOf(o).path = SpecPath(o) /\ RequestOf(o).method = SpecMethod[o.verb]
    /\ QueryOf(o) = SpecQuery(o) /\ FieldsOf(o) = SpecBodies(o)

LEMMA AlertChannelAgrees ==
  ASSUME NEW o, o.resource = "AlertChannel", o.verb \in DOMAIN AlertChannelRequests
  PROVE  Agrees(o)
<1>1. RequestOf(o) = AlertChannelRequests[o.verb] /\ FieldsOf(o) = AlertChannelFields[o.verb]
  BY DEF RequestOf, Requests, FieldsOf, Fields
<1>2. SpecCollection[o.resource] = <<"alert-channels">> /\ o.verb \in DOMAIN SpecSuffix
  BY AlertChannelTable, SuffixVerbs DEF SpecCollection
<1>3. RequestOf(o).path = SpecPath(o) /\ RequestOf(o).method = SpecMethod[o.verb]
  BY <1>1, <1>2, AlertChannelTable, CollectionShape
<1>4. FieldsOf(o) = SpecBodies(o)
  <2>1. AlertChannelFields[o.verb] = BodiesOf("AlertChannel", o.verb, {"List", "Create"})
    BY AlertChannelTable DEF AlertChannelFields, BodiesOf
  <2> QED
    BY <1>1, <1>2, <2>1, CollectionShape
<1>5. QueryOf(o) = SpecQuery(o)
  BY <1>2, AlertChannelTable, CollectionShape DEF QueryOf
<1> QED
  BY <1>3, <1>4, <1>5 DEF Agrees

LEMMA DisruptionAgrees ==
  ASSUME NEW o, o.resource = "Disruption", o.verb \in DOMAIN DisruptionRequests
  PROVE  Agrees(o)
<1>1. RequestOf(o) = DisruptionRequests[o.verb] /\ FieldsOf(o) = DisruptionFields[o.verb]
  BY DEF RequestOf, Requests, FieldsOf, Fields
<1>2. SpecCollection[o.resource] = <<"disruptions">> /\ o.verb \in DOMAIN SpecSuffix
  BY DisruptionTable, SuffixVerbs DEF SpecCollection
<1>3. RequestOf(o).path = SpecPath(o) /\ RequestOf(o).method = SpecMethod[o.verb]
  BY <1>1, <1>2, DisruptionTable, CollectionShape
<1>4. FieldsOf(o) = SpecBodies(o)
  <2>1. DisruptionFields[o.verb] = BodiesOf("Disruption", o.verb, {"List", "Create"})
    BY DisruptionTable DEF DisruptionFields, BodiesOf
  <2> QED
    BY <1>1, <1>2, <2>1, CollectionShape
<1>5. QueryOf(o) = SpecQuery(o)
  BY <1>2, DisruptionTable, CollectionShape DEF QueryOf
<1> QED
  BY <1>3, <1>4, <1>5 DEF Agrees

LEMMA MonitorAgrees ==
  ASSUME NEW o, o.resource = "Monitor", o.verb \in DOMAIN MonitorRequests
  PROVE  Agrees(o)
<1>1. RequestOf(o) = MonitorRequests[o.verb] /\ FieldsOf(o) = MonitorFields[o.verb]
  BY DEF RequestOf, Requests, FieldsOf, Fields
<1>2. SpecCollection[o.resource] = <<"monitors">> /\ o.verb \in DOMAIN SpecSuffix
  BY MonitorTable, SuffixVerbs DEF SpecCollection
<1>3. RequestOf(o).path = SpecPath(o) /\ RequestOf(o).method = SpecMethod[o.verb]
  BY <1>1, <1>2, MonitorTable, CollectionShape
<1>4. FieldsOf(o) = SpecBodies(o)
  <2>1. MonitorFields[o.verb] = BodiesOf("Monitor", o.verb, {"List", "Create"})
    BY MonitorTable DEF MonitorFields, BodiesOf
  <2> QED
    BY <1>1, <1>2, <2>1, CollectionShape
<1>5. QueryOf(o) = SpecQuery(o)
  BY <1>2, MonitorTable, CollectionShape DEF QueryOf
<1> QED
  BY <1>3, <1>4, <1>5 DEF Agrees

LEMMA MonitorStatAgrees ==
  ASSUME NEW o, o.resource = "MonitorStat", o.verb \in DOMAIN MonitorStatRequests
  PROVE  Agrees(o)
<1>1. RequestOf(o) = MonitorStatRequests[o.verb] /\ FieldsOf(o) = MonitorStatFields[o.verb]
  BY DEF RequestOf, Requests, FieldsOf, Fields
<1>2. SpecCollection[o.resource] = <<"monitors">> /\ o.verb \in DOMAIN SpecSuffix
  BY MonitorStatTable, SuffixVerbs DEF SpecCollection
<1>3. RequestOf(o).path = SpecPath(o) /\ RequestOf(o).method = SpecMethod[o.verb]
  BY <1>1, <1>2, MonitorStatTable, CollectionShape
<1>4. FieldsOf(o) = SpecBodies(o)
  <2>1. MonitorStatFields[o.verb] = BodiesOf("MonitorStat", o.verb, {"List", "Create"})
    BY MonitorStatTable DEF MonitorStatFields, BodiesOf
  <2> QED
    BY <1>1, <1>2, <2>1, CollectionShape
<1>5. QueryOf(o) = SpecQuery(o)
  BY <1>2, MonitorStatTable, CollectionShape DEF QueryOf
<1> QED
  BY <1>3, <1>4, <1>5 DEF Agrees

LEMMA StatusPageAgrees ==
  ASSUME NEW o, o.resource = "StatusPage", o.verb \in DOMAIN StatusPageRequests
  PROVE  Agrees(o)
<1>1. RequestOf(o) = StatusPageRequests[o.verb] /\ FieldsOf(o) = StatusPageFields[o.verb]
  BY DEF RequestOf, Requests, FieldsOf, Fields
<1>2. SpecCollection[o.resource] = <<"status-pages">> /\ o.verb \in DOMAIN SpecSuffix
  BY StatusPageTable, SuffixVerbs DEF SpecCollection
<1>3. RequestOf(o).path = SpecPath(o) /\ RequestOf(o).method = SpecMethod[o.verb]
  BY <1>1, <1>2, StatusPageTable, CollectionShape
<1>4. FieldsOf(o) = SpecBodies(o)
  <2>1. StatusPageFields[o.verb] = BodiesOf("StatusPage", o.verb, {"List", "Create"})
    BY StatusPageTable DEF StatusPageFields, BodiesOf
  <2> QED
    BY <1>1, <1>2, <2>1, CollectionShape
<1>5. QueryOf(o) = SpecQuery(o)
  BY <1>2, StatusPageTable, CollectionShape DEF QueryOf
<1> QED
  BY <1>3, <1>4, <1>5 DEF Agrees

LEMMA WebhookAgrees ==
  ASSUME NEW o, o.resource = "Webhook", o.verb \in DOMAIN WebhookRequests
  PROVE  Agrees(o)
<1>1. RequestOf(o) = WebhookRequests[o.verb] /\ FieldsOf(o) = WebhookFields[o.verb]
  BY DEF RequestOf, Requests, FieldsOf, Fields
<1>2. SpecCollection[o.resource] = <<"webhooks">> /\ o.verb \in DOMAIN SpecSuffix
  BY WebhookTable, SuffixVerbs DEF SpecCollection
<1>3. RequestOf(o).path = SpecPath(o) /\ RequestOf(o).method = SpecMethod[o.verb]
  BY <1>1, <1>2, WebhookTable, CollectionShape
<1>4. FieldsOf(o) = SpecBodies(o)
  <2>1. WebhookFields[o.verb] = BodiesOf("Webhook", o.verb, {"List", "Create"})
    BY WebhookTable DEF WebhookFields, BodiesOf
  <2> QED
    BY <1>1, <1>2, <2>1, CollectionShape
<1>5. QueryOf(o) = SpecQuery(o)
  BY <1>2, WebhookTable, CollectionShape DEF QueryOf
<1> QED
  BY <1>3, <1>4, <1>5 DEF Agrees

LEMMA ComponentGroupAgrees ==
  ASSUME NEW o, o.resource = "ComponentGroup", o.verb \in DOMAIN ComponentGroupRequests
  PROVE  Agrees(o)
<1>1. RequestOf(o) = ComponentGroupRequests[o.verb] /\ FieldsOf(o) = ComponentGroupFields[o.verb]
  BY DEF RequestOf, Requests, FieldsOf, Fields
<1>2. IsPart(o, "component-groups") /\ o.verb \in {"Create", "Get", "Update", "Delete"}
  BY ComponentGroupTable DEF SpecCollection, IsPart
<1>shape. /\ SpecPath(o) = PartPathOf("status-pages", Page, "component-groups", o.verb)
      /\ SpecBodies(o) = BodiesOf(o.resource, o.verb, {}) /\ SpecQuery(o) = {}
  BY <1>2, PartShape
<1>3. RequestOf(o).path = SpecPath(o) /\ RequestOf(o).method = SpecMethod[o.verb]
  BY <1>1, <1>2, ComponentGroupTable, <1>shape
<1>4. FieldsOf(o) = SpecBodies(o)
  <2>1. ComponentGroupFields[o.verb] = BodiesOf("ComponentGroup", o.verb, {})
    BY ComponentGroupTable DEF ComponentGroupFields, BodiesOf
  <2> QED
    BY <1>1, <1>2, <2>1, <1>shape
<1>5. QueryOf(o) = SpecQuery(o)
  BY <1>2, ComponentGroupTable, <1>shape DEF QueryOf
<1> QED
  BY <1>3, <1>4, <1>5 DEF Agrees

LEMMA ComponentAgrees ==
  ASSUME NEW o, o.resource = "Component", o.verb \in DOMAIN ComponentRequests
  PROVE  Agrees(o)
<1>1. RequestOf(o) = ComponentRequests[o.verb] /\ FieldsOf(o) = ComponentFields[o.verb]
  BY DEF RequestOf, Requests, FieldsOf, Fields
<1>2. IsPart(o, "components") /\ o.verb \in {"Create", "Get", "Update", "Delete"}
  BY ComponentTable DEF SpecCollection, IsPart
<1>shape. /\ SpecPath(o) = PartPathOf("status-pages", Page, "components", o.verb)
      /\ SpecBodies(o) = BodiesOf(o.resource, o.verb, {}) /\ SpecQuery(o) = {}
  BY <1>2, PartShape
<1>3. RequestOf(o).path = SpecPath(o) /\ RequestOf(o).method = SpecMethod[o.verb]
  BY <1>1, <1>2, ComponentTable, <1>shape
<1>4. FieldsOf(o) = SpecBodies(o)
  <2>1. ComponentFields[o.verb] = BodiesOf("Component", o.verb, {})
    BY ComponentTable DEF ComponentFields, BodiesOf
  <2> QED
    BY <1>1, <1>2, <2>1, <1>shape
<1>5. QueryOf(o) = SpecQuery(o)
  BY <1>2, ComponentTable, <1>shape DEF QueryOf
<1> QED
  BY <1>3, <1>4, <1>5 DEF Agrees

\* The tables of the generated client agree with the API specification on
\* every operation.
THEOREM TablesFollowSpec == \A o \in Operations : Agrees(o)
<1> SUFFICES ASSUME NEW o \in Operations PROVE Agrees(o)
  OBVIOUS
<1>1. PICK r \in DOMAIN Requests : \E v \in DOMAIN Requests[r] : o = [resource |-> r, verb |-> v]
  BY DEF Operations
<1>2. o.resource = r /\ o.verb \in DOMAIN Requests[r]
  BY <1>1
<1>3. r \in {"AlertChannel", "Disruption", "Monitor", "MonitorStat", "StatusPage",
             "ComponentGroup", "Component", "Webhook"}
  BY DEF Requests
<1>4. CASE r = "AlertChannel"
  <2>1. Requests[r] = AlertChannelRequests
    BY <1>4 DEF Requests
  <2> QED
    BY <1>2, <1>4, <2>1, AlertChannelAgrees
<1>5. CASE r = "Disruption"
  <2>1. Requests[r] = DisruptionRequests
    BY <1>5 DEF Requests
  <2> QED
    BY <1>2, <1>5, <2>1, DisruptionAgrees
<1>6. CASE r = "Monitor"
  <2>1. Requests[r] = MonitorRequests
    BY <1>6 DEF Requests
  <2> QED
    BY <1>2, <1>6, <2>1, MonitorAgrees
<1>7. CASE r = "MonitorStat"
  <2>1. Requests[r] = MonitorStatRequests
    BY <1>7 DEF Requests
  <2> QED
    BY <1>2, <1>7, <2>1, MonitorStatAgrees
<1>8. CASE r = "StatusPage"
  <2>1. Requests[r] = StatusPageRequests
    BY <1>8 DEF Requests
  <2> QED
    BY <1>2, <1>8, <2>1, StatusPageAgrees
<1>9. CASE r = "ComponentGroup"
  <2>1. Requests[r] = ComponentGroupRequests
    BY <1>9 DEF Requests
  <2> QED
    BY <1>2, <1>9, <2>1, ComponentGroupAgrees
<1>10. CASE r = "Component"
  <2>1. Requests[r] = ComponentRequests
    BY <1>10 DEF Requests
  <2> QED
    BY <1>2, <1>10, <2>1, ComponentAgrees
<1>11. CASE r = "Webhook"
  <2>1. Requests[r] = WebhookRequests
    BY <1>11 DEF Requests
  <2> QED
    BY <1>2, <1>11, <2>1, WebhookAgrees
<1> QED
  BY <1>3, <1>4, <1>5, <1>6, <1>7, <1>8, <1>9, <1>10, <1>11
=============================================================================
