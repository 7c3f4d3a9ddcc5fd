# A verification model of larm-go

larm-go is the Go SDK of the Larm API: `client.New` builds a typed client, the
generated client (`client/client.gen.go`, from `api/openapi.yaml`) makes and
decodes requests, and `RetryTransport` (`client/transport.go`) sends them,
several times if need be. This directory holds TLA+ modules that model this
code, TLC configurations that check them on small instances, and TLAPS proofs
for every value of the constants.

## The system

| Component | State | Operations | Interacts with |
|---|---|---|---|
| `RetryTransport.RoundTrip` (transport.go:42-101) | per call: `attempt`, `resp`, `err`, the request body and its buffered bytes, a timer | buffer the body, attempt, back off, give up, return | the base transport (connections, responses, errors), the context, the caller that closes the returned body |
| `shouldRetry`, `retryDelay` (103-122) | none | what is retried, how long to wait | `RoundTrip`; `time.Duration` is a 64-bit integer |
| `client.New` and options (client.go) | `config`: retries, timeout, token source, base, user agent | fold the options, build `http.Client` and the editor | `NewClientWithResponses` |
| `TokenSource` (auth.go) and the editor (client.go:103-115) | none of its own; the source may be stateful | mint a token once per call, set the header | `applyEditors` |
| Builders and client methods (client.gen.go:1037-3379) | the server URL, the editors | method, path, body; apply the editors; `Do` | `http.Client`, so `RoundTrip` |
| Parsing (client.gen.go:3381-6815) | none | read, close and decode a body into `JSON<status>` | the typed caller |
| `APIError`, `ParseAPIError` (errors.go) | none | parse the error envelope | nothing calls it |
| Status-page unions (client.gen.go:859-1035) | a raw JSON value, in bytes that copies share | `As`, `From`, `Merge`, discriminator, JSON methods | the caller, who carries entries from the tree to a structure |
| The API server and the network (external) | the rows of a page, requests and answers under way, a rate limiter | handle a request once, at any time after it was written | `RoundTrip`, through the base |
| Types, enums, tooling | none | none | |

What is hard to get right is concentrated in `RoundTrip`: several goroutines
share one base with a bounded pool; a context may end at any moment, in
particular between two attempts, when an old response is still open; locals
survive from one iteration to the next; and the backoff is arithmetic on a
fixed-width integer. Around it, one call crosses options, editors, retries and
parsing, each of which may fail, while the credentials it was given may be
replaced. Beyond the process, a request whose answer was lost may still be
handled, after its retry or after its call, by a server that keeps the result;
and all of it happens before a deadline that spans attempts and waits. Nothing
is persisted by the client, so there is no crash to recover from.
`PROJECT.json` lists each hazard with its line and its properties.

## The modules

    RetryDelay <- RetryTransport <- RetryProperties <- MCRetrySingle, MCRetryPool
                                          |    ^------ RetryProofs
                                          v (refinement)
                                    RetryContract
                                          ^ (INSTANCE)
    LarmOperations <- ApiCall ------------'
                        ^--- ApiProperties <- MCApiCall
                                  ^------ TableProofs <- ApiProofs

    RetryTransport <- RemoteApi <- RemoteProperties <- MCRemote
                                        |   ^------ RemoteProofs -> RetryProofs
                                        |               ^------ WriteProofs
                                        v (refinement)
                                   WriteContract

    RetryDelay <- TimedCall <- TimedProperties <- MCTimed
                                    |  ^------ TimedProofs
                                    v (refinement)
                              RetryContract

    StatusPageUnion <- UnionProperties <- MCUnion
                              ^------ UnionProofs

    SequenceLemmas, which TableProofs and UnionProofs extend: slices, last indices

**RetryDelay** is the arithmetic. `Wrap` is what a Duration product keeps of its
mathematical value; `Second` and `MaxDuration` stand for 10^9 and 2^63 - 1, so
small instances overflow where the program would. `retryDelay` is the set of
the delays the jitter may give; it is empty where `rand.Int64N` panics.
`DocumentedDelays` says in unbounded arithmetic what the doc comment promises.

**RetryTransport** is `RoundTrip`, run by every goroutine of `Calls`.

| In the code | In the model |
|---|---|
| `t.MaxRetries`, the clamp (48-51) | `maxRetries`, `limit` |
| `attempt`, `resp`, `err` | the same |
| `req.Body`, `bodyBytes` (53-62, 85-88) | `body`: nil, unread, full (a fresh copy), spent |
| buffering, and its failure | `BufferBody`, `BodyReadFails` |
| loop condition (67) | `FirstAttempt`, `StartBackoff`, `GiveUp` |
| `retryDelay`, timer, `select` (68-77) | `StartBackoff`, `JitterPanics`, `TimerFires`, `BackoffCancelled` |
| drain, close, rebuild, call (79-90) | `Send` (`Drained`, `Rebuilt`) |
| result of `base.RoundTrip` (90-98) | `Respond`, `Fail` |
| the base's connection and its pool | `Connect`, `conns` (external) |
| net/http closing what a cancelled request left open | `Release` (external, only if `BaseWatchesContext`) |
| deferred `Close` in the Parse functions | `CloseBody` |
| the caller's context | `Cancel`, `ctxDone` (external) |

A connection is a pair of a call and the number of its send, so an old
response cannot be mistaken for the current one. `pc` is where a goroutine is;
between two values of `pc` nothing another goroutine does is observable.
`sent` and `last` are history variables. A response is reduced to what the
code reads: status and `Retry-After`.

**RetryContract** is what a caller may rely on, without delays, bodies and
connections. `RetryProperties!Contract` maps `RoundTrip` to it: the budget is
1 + MaxRetries, the tries are the sends, the answer is the outcome of the latest
send and the verdict follows from the results.

**LarmOperations** is what the generated code knows of each of the 37 operations: the
request of each builder with its query parameters and the statuses with a typed
field in each Parse function. URL paths are sequences of segments, so that `TrimRight`, the
trailing slash of `NewClient` and relative resolution are what they do.

**ApiCall** is one call of a typed method, by stage: `Build` (or
`BuildFails`), `ApplyEditors` (or `EditorFails`), then `http.Client.Do`, for
which it uses the actions of RetryContract (`Attempt`, `Answer`, `Lost`,
`Exhaust`, `ContextEnds`), then `Decode` (or `ReadFails`, `DecodeFails`). A token is
the epoch in which it was minted; `Rotate` starts a new one. `ApplyEditors` also
sets the User-Agent. A body is one of four kinds (the error envelope, the envelope
without a JSON Content-Type, other JSON, text), which is all that the Parse
functions and `ParseAPIError` tell apart. Because
RetryTransport implements the contract, what holds here holds with the real loop in its place,
provided the jitter does not panic.

**RemoteApi** composes RetryTransport with the network and the server of one
status page. `RoundTrip` is not changed: each of its actions is taken together
with what it means outside. `Dispatch` (the base's `Connect`) puts the attempt
in `inbox`, from which the server takes it once, at any later time (`Execute`,
`Refuse`); `Reply` reaches the client only if the attempt is still awaited.
`Lose` is an error of the base with the answer lost, `Receive` an answer. The
verbs are those of the status-page operations: a creation makes a row named by
its attempt, an update sets the first row, a deletion removes it, and replacing
the structure makes new rows in place of all others. The server, external, may
answer 429 (no effect), 503 (with or without one), or 404 when the row is gone.
`effects`, `doubts` (attempts the client cannot judge: lost answers and 5xx) and
`before` (the calls that had succeeded when a call began) are history.
**WriteContract** is what is left for the caller: `RemoteProperties!Write` maps
the composition to it by counting effects and doubts.

**TimedCall** is one call against the clock: the deadline `http.Client` sets
from `WithTimeout`, which spans every attempt, wait and body; the loop and its
`select`, where a timer and a done context may both be ready; and a server
behind a limiter that opens at some time and says so in `Retry-After`, in whole
seconds. Only waiting takes time: a step that is due is taken before `Tick`.
Here the loop is written again, in the few steps that touch time. What it keeps
of `RoundTrip` is the number of iterations, the delay and the select; bodies, the
pool and other calls are RetryTransport's. That it is the same loop is what
`TimedContract` says: it implements RetryContract too (`TimedProperties!Contract`).

**StatusPageUnion** holds variables of the two union types. An object is a
function from its keys; a value is the number of the operation that wrote it, so
that what `As` reads tells which write it came from. `From`, `Merge`, `Decode`
and `Assign` follow the code also where they fail: `From` and a failed
`JSONMerge` store nil before the error is returned. A nil union (`NoText`) is not
the bytes `null`: it is encoded as null, but once decoded these bytes read as a zero
value of either kind, and `JSONMerge` leaves them as they are. `buf` is the array
behind the raw message: assigning an entry shares it, and `UnmarshalJSON`, which
appends to it from its start, writes over what the copy reads if it has room. The
copy then reads a value that is cut off (`Torn`) or followed by old bytes
(`trailing`); `json.Unmarshal` rejects both, `JSONMerge` only the first.

**RetryProperties** and **ApiProperties** state what must hold, apart from the
mechanism. The reference for ApiProperties (`SpecMethod`, `SpecPath`,
`SpecBodies`) is written down from `api/openapi.yaml`, as rules rather than a
second table: for example, every operation with an identifier in its path may answer 404.

Definitions marked *Slip* are not part of the model. Each is a plausible
mistake in the code (an unclamped limit, a body that is not drained, a token
minted in `New`) that takes the place of the definition after it to make sure
that a property would notice; `PROJECT.json` lists the pairs under "mutants".

## The runs

| Run | Instance | What it shows |
|---|---|---|
| `retry_single` | 1 call; MaxRetries -1, 0, 1, 4; 200, 404, 429, 503; Retry-After absent, -1, 0, 1, 8; Second = 4, MaxDuration = 31; a base that never frees what is abandoned | results, budget, bodies, delays, no resend after a final answer; the inductive invariant |
| `retry_pool` | 2 calls, 1 connection, a base that watches the context; MaxRetries -1, 0, 2; `ServedSpec` | no self-blocking, the inductive invariant, refinement of RetryContract, every call returns |
| `retry_cancel` | the same, `CancelSpec` | a done context alone ends a call |
| `retry_errors` | MaxRetries 5 | *violated*: errors are retried, the documentation says 429 and 5xx |
| `retry_abandoned` | base that does not watch the context | *violated*: a cancelled backoff leaves the previous response open |
| `retry_overflow` | MaxRetries 5, MaxDuration 31 | *violated*: the backoff overflows and the jitter panics |
| `api_call` | every operation, 3 base URLs, 4 option lists, 8 statuses, 1 rotation | request, parameters, token, User-Agent, retries, typed field, bodies, parsed errors; the inductive invariant |
| `remote` | 2 writers, MaxRetries 1, the first may be cancelled; create/replace, update/update, delete/update, replace/delete | which repeated or late effects there can be, that what callers are told is true, refinement of WriteContract |
| `timed` | timeouts 0, 1, 3, 6, 12 half seconds; MaxRetries -1, 1, 3; limiters that open at 0, 3, 5 | the deadline, what may be sent after it, Retry-After and the backoff as lower bounds, that the call ends, refinement of RetryContract |
| `union` | one tree entry, two structure entries, 4 operations | what is read after writes, merges, failures, decodes (of null too) and copies |
| `union_null` | the same | *violated*: a merge into an entry that decoded null is lost without an error |
| `api_error` | that of `api_call` | *violated*: a 4xx is not returned as an error |

Bounds. MaxRetries 4 gives four backoffs; with `MaxDuration = 31` and
`Second = 4` the fourth no longer fits, and `Retry-After: 8` is one past the
largest that does, so both overflows occur next to delays that fit. Calls
interact only through the pool, so two calls and one connection are the least
that can block each other; the proofs lift this to any number. In ApiCall the
calls share nothing but the epoch, so one call is enough; one rotation separates the tokens minted
before and after it. The base URLs have no path, no trailing slash and two.

In `remote`, two writers are the least that can overtake each other and one
retry the least that can repeat an effect; the four scenarios are the pairs whose
order shows in the data (a creation wiped by a replacement, two updates, a
deletion under an update, a row replaced before it is deleted). RemoteProofs
and WriteProofs lift the invariants and the refinement to any number of calls,
retries and scenarios. In `timed`, the unit is half a
second, so the jitter has more than one value from the second backoff on; the
timeouts lie before the first backoff, within it, within the second and after
all of them, and `Horizon` 14 is beyond the longest timeout, so the clock stops only
calls without one. In `union`, four operations are enough to write an entry,
copy it, decode into the copy and merge into either.

### Fairness

`ServedSpec` assumes that goroutines run, timers fire, the base gives a waiting
attempt a connection when there is room and answers or fails every request,
that response bodies end, that callers close what they are returned (the
Parse functions do, deferred) and that a base which watches the context tears
down what is abandoned. All are weak. With a base that does not, `EveryCallReturns`
fails in a pool of one after a cancelled backoff, which is what
`retry_abandoned` is about.

`CancelSpec` assumes less: the client's own steps, the `select` noticing a done
context, and the base failing a request, or the read of a body, whose context
is done (what net/http does). Timers, pool and server may stop for ever.

`TimedCall!Spec` assumes that time goes on while the call waits, that a ready
`select` is taken, that an attempt is sent when nothing needs to be drained or the deadline has
passed (the drain of a body then ends with an error), and that a request or a
body whose deadline has passed ends with an error. An answer is never assumed.

## What the runs found

* **Errors are retried** (transport.go:91-93), while the comments on
  `RetryTransport` and `WithRetries` name only 429 and 5xx. A POST whose answer was lost is sent again.
* **A cancelled backoff leaks the previous response** (transport.go:73-75): it is
  neither drained nor closed, and the caller is returned nil. Harmless over net/http's
  Transport, which watches the context; not over every base that may be given
  to `WithBaseTransport`.
* **A large MaxRetries panics** (transport.go:120-121): from attempt 35 on the
  product overflows 64 bits and `rand.Int64N` panics. `PanicOnlyOnOverflow`
  shows that this is the only cause.
* **A merge into null is lost** (client.gen.go:882, 910, 971, 999): an entry that was
  nil when it was encoded, or that the server sent as null, decodes to the bytes
  `null`; `JSONMerge` treats only nil as empty, so the entry stays null, and no error says so.
* **API errors are not returned as `*APIError`**: typed methods return a 4xx as a
  result with a nil error, and nothing calls `ParseAPIError`.

Four more results are worth knowing:

* A write may take effect more often than it is acknowledged, after its call
  has returned too, and an update may be overwritten by an earlier acknowledged
  one. `EffectsExplained` says precisely when: only if an attempt was lost or
  answered 5xx. A 429 never leads there.
* A Retry-After of 9223372037 seconds or more wraps around (transport.go:111), and the
  retry may leave at once. `DocumentedDelay` therefore speaks of delays a Duration holds.
* One request may leave at or after the deadline, since the `select` may prefer
  the timer to the done context (`OneSendAfterDeadline`).
* Decoding into a status-page entry that was copied before may change the copy
  (`disturbed`); `From` and `Merge` never do.

## The proofs

`RetryProofs` proves, for every set of calls, settings, statuses, header
values, any pool and any width of Duration, the theorems listed in
`PROJECT.json`. They rest on `DurationAssumption` (a second has at least two
units and fits) and `TransportAssumption` (types of the constants).

The argument is one inductive invariant, `IInv`. `TypeOK` alone does not help:
that a returned response is the latest, or that the tries are used up, depends
on how many tries there were when the loop was left. `LoopInv` therefore says
for each `pc` how `attempt`, `sent`, `resp` and `last` agree (`Untried` before
the first attempt, `Retrying` between two, `Result` at the end), and `ConnInv`
which connection a call may hold there. Both speak of one call, so a
step of another preserves them (`OtherCall`); the proof has a lemma per action
and `InvStep` collects them.

Every safety property follows from `IInv`. `Panics` and `Delays` need facts
about the wrap-around (`WrapIsDuration`, `WrapKeepsDurations`). `FinalIsFinal`
is an action property: only `Send` raises `sent`, and it does so where
`Retrying` says the latest answer was transient. `Implements` shows step by
step that `RoundTrip` refines RetryContract; it assumes `[]NeverPanics`, since a panic is
not a verdict the contract knows.

`RemoteProofs` builds on it: `RemoteImplements` shows that every behaviour of the
composition is one of `RoundTrip`, so `IInv` holds there. Its own invariant, `RemoteInv`,
is needed because `EffectsExplained` does not say where an attempt is: a
request that still lies in the inbox may take effect later. `Accounted` says of
every attempt in the inbox or among the effects that it is in doubt, awaited, or
the latest of a call that succeeded; the rest ties the answers under way to it
(`RepliesTrue`), the missing row to a removal (`RowsExplained`) and the
value of the row to the order of the calls (`LaterWins`). Steps that the server
does not see preserve it for one common reason (`Invisible`), the others have a
lemma each. From it follow `Effects` and `Results`, for any number of calls and
writes. They rest in addition on `RemoteAssumption`.

`WriteProofs` shows that the composition implements WriteContract, a step at a
time. The contract counts, so the proof is about cardinalities: the effects and
the doubts of a call are sets of attempts that grow by one attempt or not at
all, the effects that are not in doubt are at most the one that was
acknowledged (`Accounted` again), and so `Apply` never runs ahead of the doubts.
The doubt and the effect of one attempt may come in either order, and the second
may come after the call has returned; that is why `Apply` has no guard on an
open outcome.

`TimedProofs` proves the deadline, the single late request, the limiter's
theorem and the backoff for any timeout, number of retries and Duration. `TimedInv` adds to the
deadline that a late request is the last one: when it fails, the backoff is positive
(`BackoffTakesTime`, also where the exponential overflows), the clock stands at the
deadline, and only the context is ready. Two theorems say what they need of the
Duration. `Throttled` assumes `WindowsFit`: it holds the waits the limiter asks
for. `Backoff` assumes `BackoffFits`: it holds the exponentials of the
configured retries and halves a second exactly; with 10^9 units in 63 bits this
is true of up to 34 retries, and beyond them the delays really are shorter or the jitter
panics. Its invariant, `KeepsAddingUp`, bounds also the wait
that is under way; that a wait doubles what went before needs 2^(n+1) = 2 * 2^n, which
`PowerDoubles` gets from the number of subsets of 1..n. `TimedImplements` is the
refinement of RetryContract, an action at a time; `BackoffFits` excludes the panic (`NoPanic`),
and `InHand` says which response the loop may hold when it goes on and when it ends.

`TableProofs` proves that the generated tables agree with the rules of the
specification on each of the 37 operations, resource by resource: the path,
the method, the query parameters and the statuses with a typed field.

`ApiProofs` proves the properties of a typed call, for any number of calls, any base
URL, any list of options, and any statuses. `ApiInv` says for each stage whether the request is
the one the builder makes (`Built`), what is open, and that a result without an
error is the latest answer; `OutcomeInv` adds that no token is older
than the call it was minted for (`AsMinted`), that only a spent budget lets a
transient answer through (`GaveUp`) and that what is sent carries what the
client was configured with (`Sent`). `UrlBelowBase` is about the two functions
that trim and add slashes: together they keep every segment up to the last that
is not empty. `Reaches` and `Decodes` rest on the tables. The others need that
the fold over the options leaves each field with its last setting. No induction
over the list is needed: the fold is a function on the sets of indices,
determined by the set without its last element, and "the last setting of each
field" is determined in the same way; two such functions that differed would
first differ somewhere (`LeastNumber`). The assumption on the options is that
each sets a field the client has (`Settings`).

`UnionProofs` proves the properties of status-page entries for any number of
entries and operations. `UnionInv` adds to `SharedBytesAgree` what each entry reads,
in terms of its history (`Reads`): without it, nothing says that a copy that
takes over the bytes of another takes over their meaning. A step either replaces
the text and the history of one entry together (`From`, `Receive`), extends both
(`Merge`), copies both (`Assign`), or marks as disturbed whatever shares the
bytes it writes over (`Decode`). For `Merge` the latest writer of a key is the new one
if it puts that key, and the previous one otherwise; an entry that decoded null
stays null (`ReadsNull`). That only disturbed entries may be broken
(`trailing \subseteq disturbed`) is what makes the others readable.
`UnionAssumption` says that nil, null and broken bytes are not objects and that no
kind is empty.

Only model-checked: the liveness properties (`EveryCallReturns`, a done context
ends a call, `TimedCallEnds`), since the prover does not deal with fairness and ENABLED; and the
five runs that refute what a comment says. Every safety invariant and action
property of the passing runs is a theorem.

## Not modelled

* How a path or query parameter is written (styling and escaping), and the text
  of requests, bodies and errors.
* In ApiCall, the panic of the jitter: RetryTransport shows when it happens.
* The server's data other than one status page, and what replaces a row's id.
* Redirects and the other features of net/http.
* The other data types and the enums, code generation, release tooling: no behaviour.

## Plan

Done: 1 RetryDelay, RetryTransport, RetryContract, their properties and proofs;
2 LarmOperations, ApiCall and their properties; 3 RemoteApi, WriteContract and
RemoteProofs; 4 StatusPageUnion; 5 TimedCall and TimedProofs; 6 ApiProofs;
7 WriteProofs, the refinement of WriteContract; 8 UnionProofs; 9 TableProofs, and the fold
over the options, so that no theorem about a typed call has a hypothesis; 10 the backoff, and that
the loop against the clock implements RetryContract.

Next: stronger forms of what is proved, where they say more: `NotThrottledTwice`
for a limiter that closes again, and `EffectsExplained` for several pages.
