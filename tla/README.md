# Declarion Go SDK: models, checks and proofs

This directory is a TLA+ verification project for the Declarion Go SDK (`src/`): the library
a handler sidecar links to serve JSON-RPC calls from a Declarion platform (`runtime`), and
to call that platform back (`platform`). Each module is translated from the Go source; the
`map` in `PROJECT.json` names the lines every definition stands for.

## 1. The system

A sidecar is one process. `runtime.Serve` answers `POST /rpc`: the platform calls a handler
(or, for webhooks, a verifier) by name, with a signed token in the `Authorization` header.
The handler gets a `runtime.Ctx` with the token's claims and a `platform.Client` that speaks
for it. That client reads parameters, invokes other actions, streams, reads and writes data
and files, and opens MCP sessions. Parameters are cached once per process, and every client
of the process shares that cache.

```
 platform --POST /rpc--> runtime (serve, tokens, registries) --Ctx--> handler / verifier
                             |                                            |
                             | signal: drain, stop                        v
                             |                               platform.Client (one per call)
                             |                                 |      |        |        |
                             |                               params streams  data...   MCP
                             |                                 |
                             |                          paramsCache (one per process)
                             v                                 v
                           process exit                     platform
```

### 1.1 Inventory

| Component | Source | State | Operations | What makes it correct | Module |
|---|---|---|---|---|---|
| Parameter cache | `platform/params_cache.go`, `params.go` | newest version heard per base URL, entries, sweep threshold, behind one mutex | observe, get, put, sweep; `Lookup` around them, with a request in the middle | a hit is never older than a version already heard, nor than its max age; a late answer overwrites nothing newer; the map stays proportional to what is servable | `ParamsCache` |
| Streaming actions | `platform/actions_stream.go` | request context, body, `closed`, `err`, `done`, counters, the event being read | `InvokeStreaming`, `Next`, `Err`, `Delivered`, `Close` from any goroutine | a truncated stream never passes for a complete one; the right side is blamed; the request is released once, by whoever closes; `Close` unblocks the reader | `ActionStream` |
| RPC server | `runtime/serve.go`, `jsonrpc.go`, `handler.go` | per request: what is known and decided so far; per process: serving or draining | accept, authenticate, route, run, answer, recover, signal, drain | nothing runs under authority nobody vouched for; an accepted request is answered; a shutdown ends | `RpcServer` |
| Tokens and verifiers | `runtime/token.go`, `verifier_token.go`, `authenticator.go`, `verifier_error.go`, `verifier_result.go` | none | parse, bind to a method, map outcomes | each audience demands its own proof; a verifier's fault is not a verdict | `RpcServer` |
| Registries | `runtime/register*.go`, `dispatch/registry.go` | maps filled by `init` functions | register, look up | duplicates panic; constant once serving | constants of `RpcServer` |
| Transport | `platform/client.go`, `transport.go`, `errors.go`, `forwarded.go` | connection pool | one exchange | every response's version is observed; an error says who is at fault | `PlatformCalls`; steps of `ParamsCache` and `ActionStream` |
| Elevation | `execution/elevation.go`, `platform/elevation.go`, `runtime/elevation.go`, `ctx.go` | a client's selection; a context's permissions | normalise, derive, project | a derivation never changes its original or a sibling, whatever the handler writes to; a context checks against what its client speaks with | `Authority`, `Selections` |
| MCP sessions | `platform/mcp.go` | a session of a library | open, list tools over a cursor, call, close | listing ends; versions are observed | one action of `ParamsCache`; the cursor loop in `PlatformCalls` |
| Errors | `errs/*.go`, `platform/errors.go`, `writeHandlerError` | error values behind pointers; the process catalogue | raise, attach a cause, answer, bound, render, receive, reload | the type a handler raised is the one its caller reads; what is sent fits; answering changes no error another call holds | `ErrorJourney` |
| File references | `platform/references.go`, `fileref/key.go` | none | read bounded, verify | a body at the limit is accepted and one past it refused; what is returned is the file | `PeerReads`, `PlatformCalls` |
| JSON numbers | `jsondoc/numbers.go` | the containers being visited, during one call | walk a Go value | what passes holds no unsafe number and has an end, outside structs; what is refused has a cause, and being shared is none; the walk ends | `JsonNumbers` |
| JSON budget | `jsondoc/budget.go` | bytes and a nesting stack, during one call | one token at a time | what is decoded fits the budget | not modelled |
| Actions, data and batches | `platform/actions.go`, `data.go`, `batch.go`, `schema.go` | a data client's options; the batch being built | derive, choose a tenant, add an operation, one request each | a request goes to the tenant chosen last; a write touches what was named; the result says what the platform did | `PlatformCalls` |
| Filters and argument references | `platform/filter.go`, `argument_reference*.go` | none | construct, resolve | placeholders | not modelled |
| Tracing | `tracing/*.go` | a path in a header | append, truncate | what is sent fits and is clean | not modelled |
| Test platform | `testsdk/*.go` | a network, containers, a staged directory, a database | start in a dozen steps, remove, stop | what a failed start leaves has a reason; no step runs on a database it cannot use; `Stop` ends | `TestPlatform` |
| Conformance harness | `conformance/*.go` | a fake platform and its record | a list of checks | sequential by construction | not modelled |
| ACS mapping, YAML generation, reflection, errscheck, examples | `acstrace`, `handlerparam`, `runtime/yaml_gen.go`, `errs/errscheck`, `examples` | none | pure text and tables | no order, no sharing | not modelled |

### 1.2 What is hard here

* **Interleaving.** Any number of handlers share the parameter cache. Between the steps that
  take its mutex, other goroutines hear newer versions, and the clock moves. A stream may be
  closed by a goroutine other than the one reading it.
* **Ordering.** Responses are processed in any order. Replicas of the platform lag, so a later
  response may carry an older version.
* **Sharing.** Deriving a client or a context copies a struct, and with it the headers of its
  slices. Sorting and compacting work in place; the handler may write to what it was handed.
* **Partial failure.** A connection ends anywhere, before or after the platform has acted; a
  refused response still has a body; one operation of a batch fails; a verifier panics; a handler
  outlives the shutdown.
* **Limits.** A max age or a timeout in milliseconds is multiplied into an `int64`; an event
  has a byte cap that counts across lines and reads; a map with no eviction must be swept.
* **Combinations.** Secret, authenticator, required token, test mode, and a method registered
  both as a handler and as a verifier combine freely.

`PROJECT.json` lists each hazard at the line where it bites, with the properties that watch it.

## 2. Plan

1. `ParamsCache`: the one piece of state every call of a process shares. *Done, with proofs.*
2. `Delivery` and `ActionStream`: what reading a stream promises, and the only concurrent object
   the SDK hands to its callers. *Done; every safety property and the refinement are proved.*
3. `RpcServer`: what runs, under whose authority, and how the process ends. *Done, with proofs.*
4. `Selections` and `Authority`: clients and contexts derived from one another, as values and
   over shared slices. *Done; the refinement is proved.*
5. `ErrorJourney`: one failure through handlers, sidecar, platform and client. *Done; every
   invariant is proved.*
6. `TestPlatform`: what a start has created when one of its steps fails. *Done; every
   invariant is proved.*
7. `PlatformCalls` and `PeerReads`: every buffered call, from its arguments to its result, and
   the cursor loop of an MCP tool listing. *Done; every invariant is proved.*
8. `JsonNumbers`: which Go values pass for documents. *Done; every invariant is proved.*
9. The budget of `jsondoc/budget.go`: the code's own stack against the grammar of the decoder.
   *Not written.*
10. An abstract store for `ParamsCache`, in which a read returns something at least as new as
    what has been heard. *Not written: it would say what `HitIsCurrent` says, which is proved.*

Modules that theorems are about contain no `RECURSIVE` operator.

## 3. The modules and the code

### 3.1 `ParamsCache`

One action per step between two acquisitions of the mutex: `Start` samples `time.Now()`;
`Hit` or `Miss` is `paramsCache.get`; `Receive` is `executeRequest` reporting the response's
version to `observe`, before the body is read or the status looked at; `Fail` is every error
path; `Decode` samples the clock for the second time; `Put` is `put`, whose comparison, store
and sweep are one critical section. `OtherResponse` is any other call of the process,
`McpResponse` a response on the MCP transport, which is not observed. `Write`, `Tick` and
the choice in `Answer` are the environment.

A parameter's value is abstracted to `asOf`, the version of the platform it was read at. A
replica stamps a version no newer than the value it returns: the header is written from what
the replica's listener has heard, and the listener lags behind the store. This is the one
assumption on the platform, and `HitIsCurrent` needs it. `heard` and `peak` are history.

### 3.2 `Delivery` and `ActionStream`

The wire is a sequence of fragments, one per `ReadSlice`; the byte cap counts fragments.
`TakeFragment` is one turn of `readLine`, with all that `readEvent`, `readStart`, `Next` and
`finishTerminal` do once a line or a block is whole; `ReadFails` is every error of the read.
`Close` is three steps, because another goroutine can run between them: the swap of `closed`,
the cancellation and the closing of the body. `closed`, `cancelled` and `body` are separate
since the reader sees each of them at a different place. `Disconnect` loses what has not been
delivered. `phase`, `sent` and `writes` record what the server did, to compare with what the
reader concludes.

The server writes any of the events `readEvent` distinguishes, in any order; `broken`, a history,
turns true when it writes what the framing contract does not allow there. `BlameIsRight` then
holds a server that kept the contract blameless, and `VerdictIsComplete` asks nothing of it.

`Delivery` is what a caller may rely on, without wire, events or `Close`: frames are given one
at a time, never more than were offered (`Give`), and the call then has one outcome for good.
That is the platform's ruling only when all it offered before ruling has been given (`Conclude`);
otherwise the call failed (`Fail`). `ActionStream` implements it under the mapping at
`Delivery == INSTANCE ...`: `sent` is what is offered, `phase` the ruling, `received` what is
given, and `Outcome` reads `done` and `err` as a caller does.

### 3.3 `RpcServer`

`Start` is `NewHandler`, which refuses some configurations. A slot is one request in progress:
`Accept`, then `RefuseFrame` or a routing action (`RouteVerifier`, `RouteHandler`,
`RouteAuthenticator`) that stands for the rest of `handleRPC` up to the call of the handler,
then `Finish` (result, error of each kind, or panic) and `Respond`. Routing one request
touches no shared state, so its steps need no interleaving of their own: the registries are
constants, and `Config` does not change once `NewHandler` returned. `Signal`, `Drained`,
`ShutdownTimesOut` and `ListenerFails` are `Serve`.

A token is a record of what the parsers distinguish: its audience list (peeked at *before*
verification to choose a parser), scope, signature, liveness, method, and whether the other
claims are complete. JSON-RPC parameters are one of four classes.

`BoundWithinHeader` and `Duration`, and `Duration` in `ParamsCache`, keep the width of
`time.Duration`: the product wraps at `DurationSpan` ticks.

### 3.4 `Selections` and `Authority`

`Selections` says what deriving promises: a client is a value. A *branch* is the selection a
client sends; deriving adds a branch that selects at least as much, and no step changes one
that exists. A branch whose token's metadata could not be read is silent, and so is whatever
derives from it.

`Authority` is the code: `arrays` is the heap, a slice is an array and a length, and an array
may be longer than the slices over it. `Normalized` is what `Normalize` leaves in the array it
cloned: the elements once each, then what `slices.Compact` cleared. `ClientDerives` is
`Client.WithSystemRole` and `WithGrants`; `ContextDerives` those of `HandlerCtx`, with all of
`projectAuthority`; `Elevation` hands the handler a slice. `Scribble` is the handler overwriting
any cell, spare capacity included, of a slice it was handed: `Client.Elevation`'s, or the
exported `Permissions` of a context. The order `slices.Sort` gives is abstracted to one fixed
order of a set, and an array that does not outlive its call is not on the heap.

A context made without claims (the test constructors) projects nothing and keeps the permissions
of the one it was copied from, so `PermissionsAgree` is about contexts that have claims.
`written` is history: the arrays the handler has written to.

### 3.5 `ErrorJourney`

`objects` is the heap of Go errors, in the order they are made: an `*errs.Error`, what
`fmt.Errorf` returns around another, or `dispatch.ErrNotFound`. A handler raises (`Raise`), wraps
(`Wrap`), fails (`Fail`) or takes a package-level error (`ReturnsShared`); `Return` is
`writeHandlerError` with `NewErrorResponse`; `Answers` is `Render` at the platform, which is
external but links this package; `Receive` is `errorFromResponse`, `BreakOff` `errorFromUnreadable` after
a response whose body breaks off or exceeds `MaxResponseSize`, and `Lose` `errorFromTransport`,
in the client of the handler that made the call. That handler then holds what it received, and may
wrap it, put it under an error of its own, or return it, so a failure travels any number of hops.
`Interposes` is a proxy that answers in the platform's place, in the shape of an error object.
`Believed` is the condition of `errorFromResponse`: the media type, and a type that `ValidCode` accepts and
that is not `about:blank`. `Misspelled` are the types it refuses, which a handler can raise all the same (`New` checks
nothing; `errscheck` finds such a call when it is run); their caller gets `transport.unreadable_response`.
That no proxy says `application/problem+json` and names a code in it is the assumption of
`isProblemResponse` (`errors.go:150-160`), and of the model; one that names none in it is modelled.

An error's wire form is abstracted to its type, its retryability and three sizes: of the type, of
the title and of everything else. The members a replacement carries are named by `offending`; the
code cuts that name at `OffendingTypeMaxBytes`, the model cuts its size. `owed` and `received` are history:
the type an answer is to carry, and what the client made of the last one, with whose it was and how much
of it was read. A body that breaks off is no JSON, so what the opening of a stream makes of the rest of
one (`actions_stream.go:183`) is `BreakOff` too.

### 3.6 `TestPlatform`

One action per step of `startContainers`, in the order of the code: `MakeNetwork`, `RunPostgres`,
`BuildBundle` and `StageBundle` (`buildModuleBundle`), `RunMigrations` and `CheckMigrations`,
`RunSeed` and `CheckSeed`, `StartServer`, `FindAddresses` (four calls with the same error branch),
`BootstrapActor`, `MakeClient`. Each has the error branch of the code, `Fail`, with that branch's
own list; `CleanUp` takes one entry of a list at a time. `Stop` lists what `stopFn` removes, and
only there `TimeOut` (`runCleanupStep`) ends a removal that hangs: the error branches call Docker
with `context.Background()`.

`up` is what exists, `live` the containers that run, `db` what the database holds: the schema, the
seeded profile, the test actor. Docker is external. A call that fails may have made a container
all the same, running or not; a removal may be refused or never answered; a network with running
containers is not removed; a container may end by itself. `dropped`, `refused` and `heldBy`
are history: containers that came with an error and were forgotten, removals Docker refused, and
containers that kept the network. `Selector` is `buildModuleSelector`, and `Accepts` what the
comments there say of the platform's check. A caller's own `DECLARION_MODULES` is the caller's, and is left out.
A platform that runs already (`DECLARION_TEST_URL`) is left out too: the harness creates nothing.

### 3.7 `PlatformCalls` and `PeerReads`

One action per thing a program does with a platform client. `Data`, `Derive`, `NewBatch`,
`SelectBatch` and `AddOp` make and change its objects: `data` holds what each variable's
`DataClient` would add to a request, `batch` the builder. `Execute`, `Write`, `Invoke`, `Get`,
`List`, `EntitySchema`, `UploadFileReference` and `ReadFileReferenceRuntime` make a call. Each
ends in `Make`: the call's own checks of its arguments, then `newRequest` and `applyHeaders`
(`Sent`, `Refusal`), in the order of the code. Until its answer a call touches nothing another
can see, so all of this is one step. `Receive`, `ReceiveFile`, `TransportFails`, `BodyUnreadable`
and `ProxyAnswers` are the ways `exchange` and the decoding after it can end.

A target tenant is a record of an id and a code. An option overwrites both, so `Resolved` takes
the last. `asked` is a history of what the program chose on the object it used; `meant` of the rows
it named. An operation carries `ids` and `where`, the sets that `object_ids` and the filters or the
condition stand for, since the properties tell no more apart: every `DeleteWhere` of a delete
adds to its filters, whose list is a conjunction, and an empty `object_ids` is left out of the body. An
empty list is thus not an empty choice: predicates beside it decide alone, as the comment of `BulkDelete`
has it (rows are addressed by identifiers, by a predicate or by both), and `meant` says so too.

The platform is external: `Apply` and `Fail` are one transaction each, as the comments in
`data.go` and `batch.go` say. A batch that is not atomic keeps what came before the operation
that failed, so that the flag in the body matters. `Arrived` lets the platform
act on a request after its caller gave up or a gateway answered for it.

A session's cursor loop is `StartListing` and `Page`; `AfterPage` is its last two conditions.
`PeerReads` is the bounded read of a file: `FileVerdict` is the `LimitReader`, the probe of one
more byte, and `VerifyContent`, over bodies that end cleanly or are cut anywhere.

### 3.8 `JsonNumbers`

`path` is the recursion of `validateNumbers`: the calls in progress, each with the elements its
loop has not come to. `ValidateRoot` is `ValidateNumbers`, `ValidateElement` one turn of a loop up
to where the call for that element loops itself or returns, and `Return` the end of a loop with its deferred
`delete`. An error ends all of them (`Fails`). A document is a graph: what each value is and what it
holds. `containerVisit` is `place`, a type and an address. `IsGo` is what Go can build: two values at
one place are slices, one a prefix of the other, and neither an array nor a struct holds itself. The tests of
each number (`validateFloat`, `validateJSONNumber`) are abstracted to whether it is safe; an interface is
the value in it, and a nil, a string or a safe number is `plain`. A struct holds values as any container does,
but `validateNumbers` has no case for one: `Elements`, what the walk goes on to, has none of them. `Seen` is what
the walk can come to and `Reachable` all there is; the properties of the run are about the first, and
`SafeThroughout` (section 5) about the second.
`checked`, a history, holds the values whose call returned nil.

## 4. The runs

| Run | Instance | What it shows |
|---|---|---|
| `params_race` | 2 goroutines, 1 key, 1 platform, 2 writes, clock to 2, a duration of 4 ticks, max ages 0, 1, 5 and 11 | whatever the order of answers, a hit is at least as new as every version heard; a hit is younger than the age granted, even where the age wraps to a negative or to a shorter duration |
| `params_sweep` | 4 keys over 2 platforms, clock to 2 | the map holds at most twice what was ever servable at once |
| `params_mcp` | as `params_race`, with MCP traffic | *violation*: an MCP response does not outdate the cache |
| `stream` | every event the reader distinguishes, in and out of order, up to 4 events, each written when at most one fragment is unread, a cap of 4, a second closer, fairness | a truncated or garbled stream is never complete; the side at fault is blamed; one goroutine releases; nothing leaks; `Close` unblocks the reader; what was opened is released; to its caller the reader is a `Delivery` |
| `stream_nil_err` | a second closer | *violation*: `Next` ends with a nil `Err` on a stream that did not end |
| `rpc` | in one slot every configuration that `Config` admits and every token, two methods, one of them in both registries, timeouts -1, 0, 2 and 9 with a duration of 4 ticks; in production configurations two requests in progress, every way to fail, a signal; fairness | nothing runs under authority nobody vouched for; a fault is no verdict; a handler's bound is never past its header; an orderly shutdown drops nothing; it ends |
| `authority_heap` | one call, 6 arrays, grants `read`, `edit` and `*`, three arguments (none, unsorted with a duplicate, `*`), the handler writing `read` | clients over shared arrays implement `Selections`; a context's permissions are the signed ones and its client's, unless the handler wrote to that context's own |
| `errors_journey` | two calls, three types, one longer than what a replacement quotes and one that no code is spelled as, bodies that break off, members that fit everywhere, only without a title, or nowhere, two catalogues | the caller learns the type that was raised, in an answer that fits, or that it could not read the answer; no error changes |
| `testplatform` | every manifest of up to 3 entries over 3 modules and a blank, a staged bundle, none; fairness | whichever step fails and whatever Docker does, what remains has a reason; a step finds what it needs; the consumer's modules load; `Stop` ends |
| `calls` | one call of any kind after up to four preparations, or a tool listing; two data clients, a batch of up to two operations out of eight shapes, three rows, files and limits up to 2, two cursors; fairness | a request goes to the tenant chosen last; an applied write touches what was named; a result agrees with what the platform did; a file read is right about the file; a listing ends unless a cursor comes round again after another |
| `json_numbers` | every graph of three values of every kind, two of them at one place or none; fairness | what passes is safe and has an end, outside structs; what is refused has its cause; the walk ends |
| `calls_lost` | as `calls`, no preparations | *violation*: a call fails in transport and the platform applies it |

**Why the bounds are enough.** A cache race needs one goroutine with a late answer, one with a
newer one, and two versions; keys meet only in the size of the map, where four show that the
sweep's threshold rises and falls. The event cap of 4 is exceeded both by a long line and by an event of
several lines; four events hold a start, a heartbeat, a frame and an end in every order, or two frames with a
terminal event that miscounts them, and the wire holds the last fragment of one event and all of the
next, so that a connection may break between them or within either. Two
methods, one registered twice, reach every pair of token and registry. Two slots let a shutdown
find one request running and another answered. The configurations differ only in what routes one request, so
one slot sees them all. Six arrays are
the three of a call that arrives and three more: a derived context, and a slice handed out or a
second client; a sibling, an original and a descendant exist together with a slice to write to. Three error
objects are the shared one and two more: what a client received and what it replaced, or an error
and what wraps it. One platform call is enough: calls share only the
client, which none changes, a builder belongs to one goroutine, every property is about one call, and the
theorems hold for any number. Four preparations are two variables derived and chosen twice, or a
batch made, filled with two operations and given a tenant. Objects are dropped with the last call,
after which nothing reads them, and a listing, which shares only the client, runs alone. Three rows
are one in the ids and both filters, one in the ids and one filter, and one in a filter alone.
A start has no bound: it is modelled whole, and manifests of three entries hold
a repeated, a blank and a missing module in every order. Three values make a value shared by two
ways, a cycle through another value, and a cycle beside an unsafe number; the theorems hold for any
number of them. In each run both sides of every boundary occur.

**Fairness.** `ActionStream`: a read that has something to return returns, the reader's deferred
`Close` runs once it leaves, and a `Close` that began finishes, since the Go scheduler runs every
goroutine that can run, and none of these steps waits for a peer. Nothing is assumed of the server, the connection, the caller's
next `Next`, or the other closers beginning to close. `RpcServer`: `Shutdown` polls and its timer
fires. Nothing is assumed of handlers, which may run for ever. `TestPlatform`: a removal comes
back or hangs, and the timer of `runCleanupStep` fires. Nothing is assumed of Docker.
`PlatformCalls`: a listing under way goes on, since each page is answered or its context ends;
nothing is assumed of any other call, nor of the platform's cursors. `JsonNumbers`: one goroutine
that waits for nothing goes on.

**Deadlock.** Checked for the cache and the errors, which never stop. Not checked for a stream, a server,
one call's clients, platform calls, a start or a walk: a call ends, a process exits, a handler returns, a program has
made its calls, a start fails, a walk has a verdict.

**Disagreements found.** Each of the three violation runs is a comment or a message of the source that the code
does not bear out; `PROJECT.json` quotes them under `findings`. Twelve more were met while modelling and
are checked by no run. `errs/errs.go:17-19` says that `errors.Is` and the wire member are one
value, but `errors.Is` goes on to a retryable cause under an error whose member is false.
`errs/errs.go:209-210` says that `HasCode` looks anywhere in the chain, and it compares the first
`Error` only. `errs/errs.go:49-50` says that a replacement can never exceed a bound, and
`errs/render.go:32` adds a title to it without checking again. `runtime/params.go:22` names
`platform.internal_error` where line 68 raises `param.resolve_failed`.
`platform/actions_stream.go:61-64` says that `Delivered` is the terminal event's count and zero until
then, and lines 265-268 that it counts as the stream is read, which it does.
`testsdk/containers.go:245` says that the migrator path surfaces the container's logs as the
server's does, and at lines 108-114, where running it fails, it does not.
`platform/batch.go:184` says that a delete must name ids or a predicate, which `BulkDelete`
checks and `Batch.Delete` does not. `platform/batch.go:266-268` says that parameters which cannot be
encoded surface at `Execute`, which sends an operation without them. `platform/data.go:36` says
that choosing a tenant id mirrors the batch's; an empty id overrides the client's tenant on a
`DataClient` and falls back to it on a `Batch`, which is why `LastSelectionWins` asks nothing of an
empty choice. `runtime/serve.go:665-667` says that a handler is bounded by what the platform will wait; a
header above about 9.2e12 milliseconds wraps, and its handler gets less (never more:
`BoundWithinHeader`). `jsondoc/numbers.go:74` says "cyclic JSON value" also of a slice that holds a
shorter slice of itself (`s[0] = s[:0]`): `containerVisit` (lines 14-17) has the address but not the length.
`jsondoc/numbers.go:19-20` says that `ValidateNumbers` rejects numbers that JSON would not keep, and a struct
passes with a NaN in it, or a pointer to itself, since lines 40-94 have no case for one; the repository's own
`README.md:170` and its changelog claim maps, slices and arrays only, which is what `AcceptedIsSafe` holds it to.

## 5. The proofs

TLAPS checks these for every value of the constants, from the named `ConstantsAssumption` of
each module and, where a theorem says so, one more hypothesis.

*`ParamsCache_proofs`.* `TypeOK` and `VersionsOrdered` together are inductive: a version only
goes up (`Observed`), an entry is stored only at the current version, and the value a reply
holds is at least as new as its stamp. `HitsAreCurrent` follows, without MCP traffic: a servable
entry's version *is* the newest recorded, and that is the newest heard. `NeverOverwrittenByStale`
is the comparison in `put` under its own lock. `SizeStaysBounded` strengthens the property with
`sweepAt <= 2 * peak` and the finiteness of the map. `HitsAreYoung` needs a lemma: a wrapped
duration is never longer than the max age it came from.

*`ActionStream_proofs`.* The event in assembly never exceeds its cap (in `TypeOK`: the check
comes before the append). `ReleaseInv` relates `closed`, `closing`, `cancelled` and `body`
(whoever swapped `closed` is the one releasing, and nobody released before), from which
`ReleasedCorrectly`. `DoneInv` (`pc = "next"` only while not `done`) gives
`VerdictsStick`. `NilErrMeansCleanEnd`, which the run `stream_nil_err` refutes, is proved as far as it goes:
while nobody has closed the stream (`NilErrIsCleanUnlessClosed`: whatever makes `Next` return false
has set `Err`), and at all times when only the reader closes (`NilErrIsCleanWhenAlone`, as only it
sets `closed` then, and it stops reading when it does). Closing from another goroutine
is thus all that is amiss.

The verdict depends on what is still in flight, so the invariant
is about the wire: there is a *tape* that gives each fragment its place, that is, its event, its
index in it, and what the server had sent and how far it was before that event (`Tape`). Places follow
one another (`Follows`), and a place after a verdict is the server's last word. A write extends the
tape, a disconnection cuts its end, a read takes its beginning (`TapeGrows`, `TapeCut`,
`TapeTaken`). The reader is where the tape begins (`ReaderAt`): it holds what came before (`Assembled`)
and has handed out as many frames as the server had sent by then. `Grows` says a line keeps that
true, `CompletedIsUnderstood` that a whole event is taken for what it is, and `OneFragment` puts
both together. `VerdictsAreComplete`, `BlameFallsRight` and `Refines` (every step is one of `Delivery`'s or
none) follow for any server and every bound. `BlameFallsRight` assumes `CapFits`: the longest frame
fits the cap, since a smaller one refuses it.

*`RpcServer_proofs`.* `BootInv` says that a server that serves passed `Refusal`;
`AuthorityInv` relates every running slot to its token and configuration; from both,
`HandlersAreVouchedFor` and `VerifiersArePowerless`, for any configurations, tokens and number of requests.
`NothingDropped` is an action property over all disjuncts of `Next`. `FaultsAreNoVerdicts` is inductive over
the two tables of answers (`FinishNoVerdict`). `HandlersAreBounded` rests on
two lemmas about the product: one that fits does not wrap, and one that wraps comes out
smaller and is never the absence of a bound.

*`Authority_proofs`.* The theorem is `Refines`: `Authority` implements `Selections`, so clients
are values. `Separate` is the strengthening: no slice the handler was handed shares an array with
a client, nor with the signed permissions. It survives each derivation because what is new is in a
fresh array (`FreshSlice`), and it makes a write invisible to every client (`ScribbleStep`). The
lemmas `Listing`, `NormalForm` and `Joined` say what the sequences hold. `IInv` (types, `Separate`
and `PermissionsAgree`) is inductive, and each action either adds a branch (`DerivesABranch`) or
changes none.

*`ErrorJourney_proofs`.* `TypeOK` says that a replacement is small, `ChainsEnd` that a cause is
older than what it explains; with the shared error being there they are inductive
(`TypeCorrect`, `ChainsAlwaysEnd`), and every step only adds errors (`ErrorsStayAsMade`). `Min`
needs a lemma of its own, from the well-foundedness of the naturals, and `FromIsMade` rests on it.
`AnswersAlwaysFit` and `IdentityAlwaysSurvives` assume `RoomForReplacement`: each bound holds a
replacement and its title. No code ensures it: `Render` does not check
the replacement again once it has its title. Identity needs it too: a replacement replaced again names only itself
(`RenderKeepsName`, `BoundedKeepsName`; `NameIsKept` is the strengthening). It says nothing of an answer that
was not read whole, which always becomes a type of the client's own, nor of a type that is no code.

*`TestPlatform_proofs`.* `Has` says what each step can count on. `HasInv` (it exists) and `FactsInv`
give `NeedsAlwaysMet`. `OwedInv` (all else that exists is listed for removal or is explained)
gives `LeftoversAlwaysExplained`: each action adds to what the next step has or to what is listed,
and each removal takes the first of the list. `ListInv`, containers before the network in every
list (`ListsAreOrdered`), is what makes it inductive: when the network is held, what
holds it is refused or forgotten, since nothing that holds it is still listed (`RemovalStep`).
`ModulesAlwaysLoad` is about the loop that builds the selector, for manifests of any length. `LoopOf` unrolls the fold
into one function of how many entries have been read; `IsListing` is the loop's invariant (no repeated module,
each with what is staged before it, in the manifest's order), `OneMoreEntry` one turn, and `FoldLists` the induction.
The library's induction takes an operator, which the provers cannot instantiate, so
`SetInduction` derives one about a *set* of numbers, from the well-foundedness of the naturals.

*`PlatformCalls_proofs`.* First the operators: every offered operation is `Faithful`, that is, the
platform writes for it what the program named, or refuses it (`DeleteIsFaithful` is the intersection of ids and
all predicates). `ObjectsInv` says that what a data client or the batch would send is what was last
chosen on it, and `CallInv` relates one call to the platform's decision, the rows and the answer:
`Selected` its tenant, `Agreed` its result and what was decided, `Meant` the rows, `Judged` a
file's verdict. A result is not inductive by itself: `Agreed` also says which answers may be under way
for which decision, and that nothing was written for a call that was never sent. Together with
`TypeOK` they are inductive; a step touches one call (`OneCall`) or objects alone, and every call
is made in one way (`MadeIsInv`). `TypeCorrect`, `SelectionCorrect`, `OutcomeCorrect`,
`WritesCorrect` and `FileVerdictCorrect` follow for any number of calls, rows, tenants and limits.

*`JsonNumbers_proofs`.* The calls in progress descend from the root, each value an element of the
one before and no two at one place (`Descends`); what a loop has come past was checked, or is what
the next call is about (`Behind`); what was checked is closed under elements and has neither an unsafe
number nor a part without an end (`Settled`). `SettledGrows` is the heart: when all elements of a value
are checked, a part without an end that the value belonged to would be one without it too. Once the
root is checked, all that the walk can come to is (`ReachedIsIn`), hence `AcceptedAreSafe`, and, for documents
without structs, `SafeWithoutStructs`: nothing unsafe or endless passes in any part, as the comment has it; a mark that is met again
belongs to a call that leads back to it (`MarkedForCause`), hence `RefusalsHaveCause`. No value is entered while it is being
walked (`NeverReenters`), and where no two slices begin at one address whatever is called cyclic contains itself
(`CyclicUnlessSlicesOverlap`).

**Only model-checked.** Liveness (`CloseUnblocks`, `EventuallyReleased`, `ShutdownEnds`, `StopEnds`, `ListingEnds`,
`Terminates`): the prover does not treat fairness or `ENABLED`. Every invariant and every action property that a
passing run checks is a theorem, and so are both refinements. `VersionsOrdered`,
`NoStaleOverwrite`, `VerdictSticks`, `ChainsEnd` and `NoReentry` are proved and checked by no run; so is
`SafeThroughout`, for documents without structs. The one induction over data is that of
`ModulesAlwaysLoad`. No module that theorems are about has a `RECURSIVE` operator.

## 6. Not modelled, and why

JSON shapes, logging, spans and wording: no property is about them. The JWT, MCP and HTTP
libraries and the platform are external: their outcomes are choices. Reflection, YAML generation, syntax-tree
analysis and the ACS tables are pure text and tables.

Of what surrounds the modelled calls: the contents of rows, field patches, list parameters and the
constructors of filters are payload, which no check of the client looks into. References in arguments
and the document budget (`jsondoc/budget.go`) are a recursion and a sum over one JSON value in one goroutine,
with nothing kept between calls. An invocation's `ParamsFileRef` is one more field of its body.
`MaxResponseSize` is one of the ways a body is unreadable, and its size is not counted. `CallTool` and
`Close` of an MCP session only pass on, and its library retries nothing. Trace paths are truncated text.
Registries are filled by `init` functions before anything runs. The conformance harness runs one check at
a time and asks its fake platform only while a check waits.
