---------------------------- MODULE LarmOperations ----------------------------
(***************************************************************************)
(* The operations of the generated client (client/client.gen.go): the      *)
(* request each builder makes and the statuses each Parse function decodes *)
(* into a typed field.  An operation is a resource and a verb; a path is   *)
(* the sequence of its segments, with the placeholders of its parameters   *)
(* (UUIDs, so never empty and never holding a slash).                      *)
(***************************************************************************)
EXTENDS Sequences, FiniteSetsExt

Id   == "{id}"
Page == "{status_page_id}"

Get(path)    == [method |-> "GET", path |-> path]
Delete(path) == [method |-> "DELETE", path |-> path]
Post(path)   == [method |-> "POST", path |-> path]
Patch(path)  == [method |-> "PATCH", path |-> path]
Put(path)    == [method |-> "PUT", path |-> path]

-----------------------------------------------------------------------------
(* The request builders, NewXRequest and NewXRequestWithBody *)

AlertChannelRequests ==
    [List   |-> Get(<<"alert-channels">>),
     Create |-> Post(<<"alert-channels">>),
     Delete |-> Delete(<<"alert-channels", Id>>),
     Get    |-> Get(<<"alert-channels", Id>>),
     Update |-> Patch(<<"alert-channels", Id>>)]

DisruptionRequests ==
    [List   |-> Get(<<"disruptions">>),
     Create |-> Post(<<"disruptions">>),
     Get    |-> Get(<<"disruptions", Id>>),
     Update |-> Patch(<<"disruptions", Id>>)]

MonitorRequests ==
    [List   |-> Get(<<"monitors">>),
     Create |-> Post(<<"monitors">>),
     Delete |-> Delete(<<"monitors", Id>>),
     Get    |-> Get(<<"monitors", Id>>),
     Update |-> Patch(<<"monitors", Id>>)]

MonitorStatRequests ==
    [Cert          |-> Get(<<"monitors", Id, "cert">>),
     ResponseTimes |-> Get(<<"monitors", Id, "response-times">>),
     State         |-> Get(<<"monitors", Id, "state">>),
     Uptime        |-> Get(<<"monitors", Id, "uptime">>)]

\* Slip: the structure is written to the page itself.
StatusPageRequestsMisrouted ==
    [List    |-> Get(<<"status-pages">>),
     Create  |-> Post(<<"status-pages">>),
     Delete  |-> Delete(<<"status-pages", Id>>),
     Get     |-> Get(<<"status-pages", Id>>),
     Update  |-> Patch(<<"status-pages", Id>>),
     Replace |-> Patch(<<"status-pages", Id>>)]
StatusPageRequests ==
    [List    |-> Get(<<"status-pages">>),
     Create  |-> Post(<<"status-pages">>),
     Delete  |-> Delete(<<"status-pages", Id>>),
     Get     |-> Get(<<"status-pages", Id>>),
     Update  |-> Patch(<<"status-pages", Id>>),
     Replace |-> Put(<<"status-pages", Id, "structure">>)]

ComponentGroupRequests ==
    [Create |-> Post(<<"status-pages", Page, "component-groups">>),
     Delete |-> Delete(<<"status-pages", Page, "component-groups", Id>>),
     Get    |-> Get(<<"status-pages", Page, "component-groups", Id>>),
     Update |-> Patch(<<"status-pages", Page, "component-groups", Id>>)]

ComponentRequests ==
    [Create |-> Post(<<"status-pages", Page, "components">>),
     Delete |-> Delete(<<"status-pages", Page, "components", Id>>),
     Get    |-> Get(<<"status-pages", Page, "components", Id>>),
     Update |-> Patch(<<"status-pages", Page, "components", Id>>)]

WebhookRequests ==
    [List   |-> Get(<<"webhooks">>),
     Create |-> Post(<<"webhooks">>),
     Delete |-> Delete(<<"webhooks", Id>>),
     Get    |-> Get(<<"webhooks", Id>>),
     Update |-> Patch(<<"webhooks", Id>>)]

Requests ==
    [AlertChannel   |-> AlertChannelRequests,
     Disruption     |-> DisruptionRequests,
     Monitor        |-> MonitorRequests,
     MonitorStat    |-> MonitorStatRequests,
     StatusPage     |-> StatusPageRequests,
     ComponentGroup |-> ComponentGroupRequests,
     Component      |-> ComponentRequests,
     Webhook        |-> WebhookRequests]

Operations == UNION {{[resource |-> r, verb |-> v] : v \in DOMAIN Requests[r]}
                       : r \in DOMAIN Requests}

RequestOf(op) == Requests[op.resource][op.verb]

\* The query parameters a caller may set.
QueryOf(op) ==
    IF op.resource = "Monitor" /\ op.verb = "List" THEN {"check_type", "enabled"}
    ELSE IF op.resource = "MonitorStat" /\ op.verb = "Uptime" THEN {"range"}
    ELSE {}

-----------------------------------------------------------------------------
(* The statuses with a typed field, JSON<status>, in the Parse functions *)

AlertChannelFields ==
    [List |-> {200, 401}, Create |-> {201, 401, 403, 422}, Delete |-> {401, 404},
     Get |-> {200, 401, 404}, Update |-> {200, 401, 404, 422}]

DisruptionFields ==
    [List |-> {200, 401}, Create |-> {201, 401, 422},
     Get |-> {200, 401, 404}, Update |-> {200, 401, 404, 422}]

\* Slip: a regeneration drops the validation error of an update.
MonitorFieldsStale ==
    [List |-> {200, 401}, Create |-> {201, 401, 403, 422}, Delete |-> {401, 404},
     Get |-> {200, 401, 404}, Update |-> {200, 401, 404}]
MonitorFields ==
    [List |-> {200, 401}, Create |-> {201, 401, 403, 422}, Delete |-> {401, 404},
     Get |-> {200, 401, 404}, Update |-> {200, 401, 404, 422}]

MonitorStatFields ==
    [Cert |-> {200, 401, 404}, ResponseTimes |-> {200, 401, 404},
     State |-> {200, 401, 404}, Uptime |-> {200, 401, 404}]

StatusPageFields ==
    [List |-> {200, 401}, Create |-> {201, 401, 403, 422}, Delete |-> {401, 404},
     Get |-> {200, 401, 404}, Update |-> {200, 401, 404, 422},
     Replace |-> {200, 401, 404, 422}]

ComponentGroupFields ==
    [Create |-> {201, 401, 404, 422}, Delete |-> {401, 404},
     Get |-> {200, 401, 404}, Update |-> {200, 401, 404, 422}]

ComponentFields ==
    [Create |-> {201, 401, 404, 422}, Delete |-> {401, 404},
     Get |-> {200, 401, 404}, Update |-> {200, 401, 404, 422}]

WebhookFields ==
    [List |-> {200, 401}, Create |-> {201, 401, 403, 422}, Delete |-> {401, 404},
     Get |-> {200, 401, 404}, Update |-> {200, 401, 404, 422}]

Fields ==
    [AlertChannel   |-> AlertChannelFields,
     Disruption     |-> DisruptionFields,
     Monitor        |-> MonitorFields,
     MonitorStat    |-> MonitorStatFields,
     StatusPage     |-> StatusPageFields,
     ComponentGroup |-> ComponentGroupFields,
     Component      |-> ComponentFields,
     Webhook        |-> WebhookFields]

FieldsOf(op) == Fields[op.resource][op.verb]

-----------------------------------------------------------------------------
(* Where a request goes.  A URL path is the sequence of what its slashes     *)
(* separate, so a trailing slash is a last segment "".                       *)

\* strings.TrimRight(baseURL, "/")
TrimSlashes(path) ==
    LET named == {i \in DOMAIN path : path[i] # ""}
    IN  IF named = {} THEN << >> ELSE SubSeq(path, 1, Max(named))

\* NewClient: "ensure the server URL always has a trailing slash".
EnsureNothing(path) == path
EnsureSlash(path) ==
    IF path # << >> /\ path[Len(path)] = "" THEN path ELSE Append(path, "")

\* url.URL.Parse of a relative reference: it replaces what follows the last slash.
Resolve(base, reference) == SubSeq(base, 1, Len(base) - 1) \o reference

\* The URL of an operation's request, given the base URL passed to New.
UrlOf(baseURL, op) == Resolve(EnsureSlash(TrimSlashes(baseURL)), RequestOf(op).path)
=============================================================================
