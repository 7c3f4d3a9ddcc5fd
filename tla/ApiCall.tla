-------------------------------- MODULE ApiCall --------------------------------
(***************************************************************************)
(* One call of a typed method, XWithResponse, from the request builder to  *)
(* the decoded result: client.New (client/client.go), the editors, the     *)
(* http.Client and the Parse functions (client/client.gen.go).  What goes  *)
(* on between http.Client.Do and the network is RetryContract, which       *)
(* RetryTransport implements.  External are the token source, whose tokens *)
(* are the epochs at which they were minted, and the server, which rejects *)
(* every token but that of the current epoch.                              *)
(***************************************************************************)
EXTENDS LarmOperations, SequencesExt

CONSTANTS
    Calls,        \* calls made through one client
    Asked,        \* the operations they ask for
    BaseURLs,     \* paths of the base URL passed to New, as segments
    OptionLists,  \* option lists passed to New
    Statuses,     \* status codes the server may answer with
    MaxEpoch,     \* bound: how often the valid token is replaced
    NoToken,      \* no Authorization header
    NoReply       \* no *http.Response

\* What the options of New set.
Settings == [field : {"tokenSource", "userAgent"}, value : STRING]
            \cup [field : {"maxRetries"}, value : Int]

ASSUME ApiAssumption ==
    /\ BaseURLs \subseteq Seq(STRING)
    /\ OptionLists \subseteq Seq(Settings)
    /\ Asked \subseteq Operations
    /\ Statuses \subseteq Nat \ {0}
    /\ MaxEpoch \in Nat
    /\ NoToken \notin Nat /\ NoReply \notin Nat

VARIABLES
    baseURL, options,                 \* the arguments of New
    epoch,                            \* the token the server accepts now
    stage,                            \* how far each call is
    op, params, request, token,       \* what it asks, where, and as whom
    reply,                            \* status of the latest response, or NoReply
    open,                             \* calls whose response body is open
    result,                           \* what the typed method returned
    began,                            \* history: the epoch when the call began
    budget, tries, answer, verdict    \* the transport's contract

Transport == INSTANCE RetryContract

client    == <<baseURL, options>>
transport == <<budget, tries, answer, verdict>>
asked     == <<op, params, request, began>>
vars      == <<client, epoch, stage, asked, token, reply, open, result, transport>>

-----------------------------------------------------------------------------
(* New: every option is a function on the config, applied in order *)

Default == [maxRetries |-> 3, tokenSource |-> "nil", userAgent |-> ""]

applyOption(config, o) == [config EXCEPT ![o.field] = o.value]
\* Slip: the first setting of a field is kept.
configuredFirst(opts) == FoldRight(LAMBDA o, config : applyOption(config, o), opts, Default)
configured(opts) == FoldLeft(applyOption, Default, opts)

cfg == configured(options)

\* Bodies: the documented error envelope, other JSON, the envelope under another
\* Content-Type, and what is not JSON.
Bodies  == {"envelope", "other json", "unlabelled envelope", "text"}
Labelled == {"envelope", "other json"}

Unanswered == [err |-> "nil", status |-> 0, field |-> 0, body |-> "text"]

Unbuilt == [method |-> "", url |-> << >>, query |-> {}, agent |-> << >>]

Init ==
    /\ baseURL \in BaseURLs
    /\ options \in OptionLists
    /\ epoch = 0
    /\ stage = [c \in Calls |-> "idle"]
    /\ op \in [Calls -> Asked]
    /\ params \in {p \in [Calls -> SUBSET UNION {QueryOf(o) : o \in Asked}] :
                       \A c \in Calls : p[c] \subseteq QueryOf(op[c])}
    /\ request = [c \in Calls |-> Unbuilt]
    /\ token = [c \in Calls |-> NoToken]
    /\ reply = [c \in Calls |-> NoReply]
    /\ open = {}
    /\ result = [c \in Calls |-> Unanswered]
    /\ began = [c \in Calls |-> 0]
    /\ budget = (IF cfg.maxRetries < 0 THEN 0 ELSE cfg.maxRetries) + 1
    /\ Transport!Init

Goto(c, from, to) == stage[c] = from /\ stage' = [stage EXCEPT ![c] = to]

\* The method returns nil and an error.
Error(c, from, e) ==
    /\ Goto(c, from, "done")
    /\ result' = [result EXCEPT ![c].err = e]

-----------------------------------------------------------------------------
(* The builder and the editors *)

Build(c) ==
    /\ Goto(c, "idle", "edit")
    /\ request' = [request EXCEPT ![c] =
           [method |-> RequestOf(op[c]).method, url |-> UrlOf(baseURL, op[c]),
            query |-> params[c], agent |-> << >>]]
    /\ began' = [began EXCEPT ![c] = epoch]
    /\ UNCHANGED <<client, epoch, op, params, token, reply, open, result, transport>>

\* A path parameter, the server's URL or the body is rejected: no builder is
\* without an error return.
BuildFails(c) ==
    /\ Error(c, "idle", "build")
    /\ UNCHANGED <<client, epoch, asked, token, reply, open, transport>>

\* What the token source returns, "" as NoToken.  Slip: a token minted once,
\* when the client was made.
MintedByNew == IF cfg.tokenSource = "refreshing" THEN {0, NoToken} ELSE {NoToken}
Minted ==
    CASE cfg.tokenSource = "nil"    -> {NoToken}
      [] cfg.tokenSource = "static" -> {0}
      [] OTHER                      -> {epoch, NoToken}

\* User-Agent: the SDK, then what the client was given.
Agent == IF cfg.userAgent = "" THEN <<"larm-go">> ELSE <<"larm-go", cfg.userAgent>>

\* The client's editor consults the token source; then come the call's editors.
ApplyEditors(c) ==
    /\ Goto(c, "edit", "do")
    /\ \E t \in Minted : token' = [token EXCEPT ![c] = t]
    /\ request' = [request EXCEPT ![c].agent = Agent]
    /\ UNCHANGED <<client, epoch, op, params, began, reply, open, result, transport>>

\* The first editor that fails ends the call.  Slip: its error is noted and the
\* request is sent all the same.
EditorIgnored(c) ==
    /\ Goto(c, "edit", "do")
    /\ result' = [result EXCEPT ![c].err = "editor"]
    /\ UNCHANGED <<client, epoch, asked, token, reply, open, transport>>
EditorFails(c) ==
    /\ \/ cfg.tokenSource = "refreshing" /\ Error(c, "edit", "token source")
       \/ Error(c, "edit", "editor")
    /\ UNCHANGED <<client, epoch, asked, token, reply, open, transport>>

-----------------------------------------------------------------------------
(* http.Client.Do *)

Transient(status) == status = 429 \/ status >= 500

Attempt(c) ==
    /\ stage[c] = "do"
    /\ Transport!Try(c)
    /\ UNCHANGED <<client, epoch, stage, asked, token, reply, open, result>>

\* A token that is not the current one is never served.
Served(c, status) ==
    \/ Transient(status)
    \/ token[c] = epoch /\ status # 401
    \/ token[c] # epoch /\ status = 401

Answer(c, status) ==
    /\ Served(c, status)
    /\ reply' = [reply EXCEPT ![c] = status]
    /\ \/ /\ Transient(status) /\ stage[c] = "do"
          /\ Transport!Retryable(c) /\ answer'[c] = "transient"
          /\ UNCHANGED <<stage, open>>
       \/ /\ ~ Transient(status) /\ Goto(c, "do", "parse")
          /\ Transport!Final(c)
          /\ open' = open \cup {c}
    /\ UNCHANGED <<client, epoch, asked, token, result>>

\* The base transport fails.
Lost(c) ==
    /\ stage[c] = "do"
    /\ Transport!Retryable(c) /\ answer'[c] = "none"
    /\ reply' = [reply EXCEPT ![c] = NoReply]
    /\ UNCHANGED <<client, epoch, stage, asked, token, open, result>>

\* The retries are used up: Do returns the last response or the last error.
\* Slip: the result is taken for a response without a look at the error.
ExhaustUnchecked(c) ==
    /\ Transport!Exhausted(c)
    /\ Goto(c, "do", "parse")
    /\ open' = open \cup {c}
    /\ UNCHANGED <<client, epoch, asked, token, reply, result>>
Exhaust(c) ==
    /\ Transport!Exhausted(c)
    /\ \/ /\ reply[c] # NoReply /\ Goto(c, "do", "parse")
          /\ open' = open \cup {c}
          /\ UNCHANGED result
       \/ /\ reply[c] = NoReply /\ Error(c, "do", "transport")
          /\ UNCHANGED open
    /\ UNCHANGED <<client, epoch, asked, token, reply>>

\* The caller's context, or the timeout over all attempts, ends a backoff; the
\* builders' bodies are in memory, so reading one never fails.
ContextEnds(c) ==
    /\ tries[c] > 0
    /\ Transport!Aborted(c)
    /\ Error(c, "do", "context")
    /\ UNCHANGED <<client, epoch, asked, token, reply, open>>

-----------------------------------------------------------------------------
(* The Parse functions *)

\* The deferred Close.  Slip: only what is decoded is closed.
ClosedOnSuccess(c) == IF result'[c].err = "nil" THEN open \ {c} ELSE open
Closed(c) == open \ {c}

\* The body ends early: the connection broke, or the context is done.
ReadFails(c) ==
    /\ Error(c, "parse", "read")
    /\ open' = Closed(c)
    /\ UNCHANGED <<client, epoch, asked, token, reply, transport>>

\* The field the body is decoded into: by Content-Type and status code.
Field(c, body) ==
    IF body \in Labelled /\ reply[c] \in FieldsOf(op[c]) THEN reply[c] ELSE 0

Decode(c, body) ==
    /\ Goto(c, "parse", "done")
    /\ result' = [result EXCEPT ![c] =
           [err |-> "nil", status |-> reply[c], field |-> Field(c, body), body |-> body]]
    /\ open' = Closed(c)
    /\ UNCHANGED <<client, epoch, asked, token, reply, transport>>

\* json.Unmarshal rejects the body of a response that has a field.
DecodeFails(c) ==
    /\ Field(c, "other json") # 0
    /\ Error(c, "parse", "decode")
    /\ open' = Closed(c)
    /\ UNCHANGED <<client, epoch, asked, token, reply, transport>>

\* What a caller makes of the status and the body of a refusal.  JSON that has
\* no error.type decodes without an error, too.  Slip: that is taken for an envelope.
ParseAPIErrorUntyped(status, body) ==
    IF body # "text"
    THEN [status |-> status, type |-> IF body = "other json" THEN "" ELSE "the server's",
          message |-> IF body = "other json" THEN "" ELSE "the server's"]
    ELSE [status |-> status, type |-> "http_<status>", message |-> "the body"]
ParseAPIError(status, body) ==
    IF body \in {"envelope", "unlabelled envelope"}
    THEN [status |-> status, type |-> "the server's", message |-> "the server's"]
    ELSE [status |-> status, type |-> "http_<status>", message |-> "the body"]

-----------------------------------------------------------------------------
\* The credentials are rotated: what was minted before is rejected from now on.
Rotate ==
    /\ epoch < MaxEpoch
    /\ epoch' = epoch + 1
    /\ UNCHANGED <<client, stage, asked, token, reply, open, result, transport>>

Terminated == (\A c \in Calls : stage[c] = "done") /\ UNCHANGED vars

Next ==
    \/ \E c \in Calls :
          \/ Build(c) \/ BuildFails(c) \/ ApplyEditors(c) \/ EditorFails(c)
          \/ Attempt(c) \/ Lost(c) \/ Exhaust(c) \/ ContextEnds(c)
          \/ \E s \in Statuses : Answer(c, s)
          \/ ReadFails(c) \/ DecodeFails(c)
          \/ \E body \in Bodies : Decode(c, body)
    \/ Rotate
    \/ Terminated

Spec == Init /\ [][Next]_vars
=============================================================================
