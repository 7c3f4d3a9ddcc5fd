----------------------------- MODULE ApiProperties -----------------------------
(* What a typed call must do, over the behaviours of ApiCall. *)
EXTENDS ApiCall

-----------------------------------------------------------------------------
(* What api/openapi.yaml says of the operations *)

SpecCollection ==
    [AlertChannel |-> <<"alert-channels">>, Disruption |-> <<"disruptions">>,
     Monitor |-> <<"monitors">>, MonitorStat |-> <<"monitors">>,
     StatusPage |-> <<"status-pages">>, Webhook |-> <<"webhooks">>,
     ComponentGroup |-> <<"status-pages", Page, "component-groups">>,
     Component |-> <<"status-pages", Page, "components">>]

SpecMethod ==
    [List |-> "GET", Create |-> "POST", Get |-> "GET", Update |-> "PATCH",
     Delete |-> "DELETE", Replace |-> "PUT", Cert |-> "GET",
     ResponseTimes |-> "GET", State |-> "GET", Uptime |-> "GET"]

SpecSuffix ==
    [List |-> << >>, Create |-> << >>, Get |-> <<Id>>, Update |-> <<Id>>,
     Delete |-> <<Id>>, Replace |-> <<Id, "structure">>, Cert |-> <<Id, "cert">>,
     ResponseTimes |-> <<Id, "response-times">>, State |-> <<Id, "state">>,
     Uptime |-> <<Id, "uptime">>]

Segments(path) == {path[i] : i \in DOMAIN path}
SpecPath(o) == SpecCollection[o.resource] \o SpecSuffix[o.verb]

\* The statuses the specification gives a JSON body, from the shape of the
\* operation: creations may be refused by plan limits (not of disruptions, nor
\* of a status page's parts), whatever names an object may miss it, whatever
\* carries a body may be invalid.
SpecBodies(o) ==
    LET names == Id \in Segments(SpecPath(o)) \/ Page \in Segments(SpecPath(o))
        sends == o.verb \in {"Create", "Update", "Replace"}
    IN  {401}
        \cup (IF o.verb = "Create" THEN {201} ELSE IF o.verb = "Delete" THEN {} ELSE {200})
        \cup (IF names THEN {404} ELSE {})
        \cup (IF sends THEN {422} ELSE {})
        \cup (IF o.verb = "Create" /\ ~ names /\ o.resource # "Disruption" THEN {403} ELSE {})

SpecQuery(o) ==
    CASE SpecPath(o) = <<"monitors">> /\ SpecMethod[o.verb] = "GET" -> {"check_type", "enabled"}
      [] SpecPath(o) = <<"monitors", Id, "uptime">> -> {"range"}
      [] OTHER -> {}
-----------------------------------------------------------------------------
Errors == {"build", "token source", "editor", "transport", "context", "read", "decode"}
Results == [err : {"nil"} \cup Errors,
            status : Statuses \cup {0}, field : Statuses \cup {0}, body : Bodies]

\* Every variable has its type, and a call is answered only once it is sent.
TypeOK ==
    /\ baseURL \in BaseURLs /\ options \in OptionLists
    /\ epoch \in 0 .. MaxEpoch
    /\ stage \in [Calls -> {"idle", "edit", "do", "parse", "done"}]
    /\ op \in [Calls -> Asked]
    /\ token \in [Calls -> {NoToken} \cup 0 .. epoch]
    /\ reply \in [Calls -> {NoReply} \cup Statuses]
    /\ \A c \in Calls : reply[c] # NoReply => tries[c] > 0
    /\ open \subseteq Calls
    /\ result \in [Calls -> Results]
    /\ began \in [Calls -> 0 .. MaxEpoch]

\* Every request goes to the method and path the API specification gives its
\* operation, below the base URL, however many slashes that ends with, with the
\* query parameters the caller set and the specification knows.
RequestReachesItsOperation ==
    \A c \in Calls : tries[c] > 0 =>
        /\ request[c].method = SpecMethod[op[c].verb]
        /\ request[c].query = params[c] \cap SpecQuery(op[c])
        /\ \E n \in 0 .. Len(baseURL) :
              /\ n = 0 \/ baseURL[n] # ""
              /\ \A i \in n + 1 .. Len(baseURL) : baseURL[i] = ""
              /\ request[c].url = SubSeq(baseURL, 1, n) \o SpecPath(op[c])

\* The settings the documentation of New gives a client: the last option for a
\* field, else the default.
LastSet(field, default) ==
    LET set == {i \in DOMAIN options : options[i].field = field}
    IN  IF set = {} THEN default ELSE options[Max(set)].value
DocumentedRetries == Max({0, LastSet("maxRetries", 3)})

\* A transient status or the transport's error is the result only when the
\* retries the client was last configured with are used up, and none is ever
\* made beyond them.
GivesUpAsConfigured ==
    \A c \in Calls :
        /\ tries[c] <= DocumentedRetries + 1
        /\ \/ result[c].err = "transport"
           \/ result[c].err = "nil" /\ Transient(result[c].status)
           => tries[c] = DocumentedRetries + 1

\* A client whose last token option is a source that always mints the valid
\* token is refused only when that token was replaced while the call was under
\* way: a token is minted for each call, and kept for all its attempts.
UnauthorizedMeansRotated ==
    \A c \in Calls :
        /\ LastSet("tokenSource", "nil") = "refreshing"
        /\ token[c] # NoToken /\ reply[c] = 401
        => began[c] < epoch

\* Nothing reaches the network after a failed builder, token source or editor,
\* nor without the static token and the User-Agent a client was last configured with.
SentWithCredentials ==
    \A c \in Calls : tries[c] > 0 =>
        /\ result[c].err \notin {"build", "token source", "editor"}
        /\ LastSet("tokenSource", "nil") = "static" => token[c] = 0
        /\ request[c].agent = IF LastSet("userAgent", "") = "" THEN <<"larm-go">>
                              ELSE <<"larm-go", LastSet("userAgent", "")>>

\* Whatever happens after the response, its body is closed: a failed read or a
\* failed decoding does not keep the connection.
BodiesClosed == \A c \in Calls : stage[c] = "done" => c \notin open

\* The caller sees the status of the last answer, and a JSON body the API
\* specification gives that status is found in the field of that status, no
\* other body in any.
TypedFieldsFollowSpec ==
    \A c \in Calls : stage[c] = "done" /\ result[c].err = "nil" =>
        /\ result[c].status = reply[c]
        /\ result[c].field = IF result[c].body \in Labelled /\ reply[c] \in SpecBodies(op[c])
                             THEN reply[c] ELSE 0

\* Whatever refusal a call ends with, also one that has no typed field because
\* its status is not declared or its body is not labelled JSON, ParseAPIError
\* tells it by status and a type: the server's own if it sent the envelope,
\* else one made of the status, with the body kept as the message.
RefusalsIdentified ==
    \A c \in Calls : stage[c] = "done" /\ result[c].err = "nil" /\ result[c].status >= 400 =>
        LET e == ParseAPIError(result[c].status, result[c].body)
        IN  /\ e.status = reply[c] /\ e.type # ""
            /\ result[c].field # 0 /\ result[c].body = "envelope" => e.type = "the server's"
            /\ e.type # "the server's" => e.message = "the body"

-----------------------------------------------------------------------------
(* What the proofs carry from step to step *)

Built(c) ==
    request[c] = [method |-> RequestOf(op[c]).method, url |-> UrlOf(baseURL, op[c]),
                  query |-> params[c], agent |-> request[c].agent]

\* Where a call is determines its request, its tries and what it holds open.
StageInv(c) ==
    /\ stage[c] = "idle" => request[c] = Unbuilt /\ tries[c] = 0
    /\ stage[c] = "edit" => Built(c) /\ tries[c] = 0
    /\ stage[c] \in {"do", "parse"} \/ tries[c] > 0 => Built(c)
    /\ stage[c] = "parse" => reply[c] # NoReply
    /\ answer[c] = "awaited" => tries[c] > 0
    /\ c \in open => stage[c] = "parse"

\* A result without an error is the latest answer, decoded.
Parsed(c) ==
    stage[c] = "done" /\ result[c].err = "nil" =>
        /\ reply[c] # NoReply /\ result[c].status = reply[c]
        /\ result[c].field = Field(c, result[c].body)

\* The token is no older than the call it was minted for, but was replaced by
\* the time it was refused.
AsMinted(c) ==
    /\ began[c] <= epoch
    /\ stage[c] \in {"idle", "edit"} => token[c] = NoToken
    /\ cfg.tokenSource = "refreshing" /\ token[c] # NoToken => began[c] <= token[c]
    /\ token[c] # NoToken /\ reply[c] = 401 => token[c] < epoch

\* Only a spent budget turns a transient answer or a lost one into the result.
GaveUp(c) ==
    /\ tries[c] <= budget
    /\ stage[c] # "done" => result[c] = Unanswered
    /\ \/ result[c].err = "transport"
       \/ stage[c] \in {"parse", "done"} /\ result[c].err = "nil" /\ Transient(reply[c])
       => tries[c] = budget

ApiInv ==
    /\ TypeOK
    /\ params \in [Calls -> SUBSET UNION {QueryOf(o) : o \in Asked}]
    /\ DOMAIN request = Calls /\ tries \in [Calls -> Nat]
    /\ DOMAIN answer = Calls
    /\ \A c \in Calls : params[c] \subseteq QueryOf(op[c]) /\ StageInv(c) /\ Parsed(c)

\* A call fails before it is sent, or goes out with what the client has.
Sent(c) ==
    /\ result[c].err \in {"build", "token source", "editor"} => stage[c] = "done" /\ tries[c] = 0
    /\ stage[c] \in {"do", "parse"} \/ tries[c] > 0 =>
          /\ request[c].agent = Agent
          /\ cfg.tokenSource = "static" => token[c] = 0

\* ApiInv, with how the outcome of a call depends on its token and its budget.
OutcomeInv ==
    /\ ApiInv
    /\ budget \in Nat \ {0}
    /\ budget = (IF cfg.maxRetries < 0 THEN 0 ELSE cfg.maxRetries) + 1
    /\ \A c \in Calls : AsMinted(c) /\ GaveUp(c) /\ Sent(c)

-----------------------------------------------------------------------------
(* What the documentation says and the code does not do *)

\* doc.go: "API errors are returned as [*APIError]": a refusal is an error.
APIErrorsReturned ==
    \A c \in Calls : stage[c] = "done" /\ reply[c] # NoReply /\ reply[c] >= 400
        => result[c].err # "nil"
=============================================================================
