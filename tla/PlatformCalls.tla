----------------------------- MODULE PlatformCalls -----------------------------
(***************************************************************************)
(* The buffered calls a program makes with one platform client: data reads *)
(* and writes (platform/data.go), batches (batch.go), actions (actions.go),*)
(* file references (references.go) and the listing of MCP tools (mcp.go),  *)
(* from the arguments through request building (client.go) to what the     *)
(* call returns.                                                           *)
(*                                                                         *)
(* Calls run concurrently, each on a goroutine of its own: none changes    *)
(* the client, and a data client derived from another is a new value.  A   *)
(* batch builder belongs to one goroutine and keeps its operations after   *)
(* Execute.  The network may lose, delay or cut anything, a proxy may      *)
(* answer instead of the platform, and a caller may give up on a request   *)
(* the platform then still handles.                                        *)
(*                                                                         *)
(* The platform is external, modelled as the comments in data.go and       *)
(* batch.go describe it: it handles a write or an atomic batch as one      *)
(* transaction.  Rows are those of one entity; an object_ids argument is   *)
(* the set it lists, and a filter node or a condition the rows it matches. *)
(* Field patches, row contents and identities of new rows are left out.    *)
(***************************************************************************)
EXTENDS Naturals, Sequences, FiniteSets, PeerReads

CONSTANTS
  Rows,        \* rows of the entity
  IdLists,     \* object_ids arguments
  Predicates,  \* filter nodes and conditions, each the rows it matches
  Offered,     \* the writes programs ask for, among Ops
  TenantIDs,   \* target tenant ids
  TenantCodes, \* target tenant codes
  None,        \* the empty id, code or cursor
  Handles,     \* the program's variables that hold a DataClient
  Cursors,     \* cursors of the tool listing
  MaxCalls,    \* bound: calls made
  MaxOps,      \* bound: operations in a batch
  MaxActs      \* bound: what the program does

ASSUME ConstantsAssumption ==
  /\ IdLists \subseteq SUBSET Rows
  /\ Predicates \subseteq SUBSET Rows
  /\ None \notin TenantIDs \cup TenantCodes \cup Cursors
  /\ {MaxActs, MaxSize} \subseteq Nat
  /\ {MaxCalls, MaxOps} \subseteq Nat \ {0}
  /\ Limits \subseteq Nat

VARIABLES
  client,   \* what the Client was built with
  data,     \* the DataClient of each handle: its request options, its choice
  batch,    \* the Batch: its operations, its target tenant, its choice
  calls,    \* the calls, from the program's side
  decided,  \* what the platform did with each call's request
  touched,  \* the rows it wrote for it
  answer,   \* the platform's response to it, on its way
  listing,  \* the tool listing in progress
  acts      \* bound: what the program has done

remote == <<decided, touched, answer>>
vars   == <<client, data, batch, calls, remote, listing, acts>>

CallIds == 1..MaxCalls

-----------------------------------------------------------------------------
(* Target tenants: requestOptions, and the calls that set both its fields. *)

Selection == [id: TenantIDs \cup {None}, code: TenantCodes \cup {None}]
Neither   == [id |-> None, code |-> None]

\* Both With... calls of an option and of the batch, over what was set before.
WithTargetTenantID(old, t) == [id |-> t, code |-> None]

\* Mutant: the id set before is kept.
WithTargetTenantCodeKept(old, c) == [old EXCEPT !.code = c]

WithTargetTenantCode(old, c) == [id |-> None, code |-> c]

\* What one With... call names; an empty argument names neither.
Named == {s \in Selection : None \in {s.id, s.code}}
With(old, s) == IF s.code = None THEN WithTargetTenantID(old, s.id)
                                 ELSE WithTargetTenantCode(old, s.code)

\* targetTenantOptions
TargetOptions(s) == IF s = Neither THEN <<>> ELSE <<s>>

\* Each option overwrites both fields, so the last decides.
Resolved(options) == IF options = <<>> THEN client.tenant ELSE options[Len(options)]

Conflicting(s) == s.id # None /\ s.code # None

-----------------------------------------------------------------------------
(* Write operations, as the wire carries them. *)

\* where: the filters of a delete, the condition of an update; skip: its
\* on_condition_failed; meant (history): the rows the program named.
Op == [kind: {"create", "upsert", "update", "delete", "restore", "call"},
       ids: SUBSET Rows, where: SUBSET (SUBSET Rows), skip: BOOLEAN,
       meant: SUBSET Rows]

Matching(where) == {r \in Rows : \A p \in where : r \in p}

\* Create, Upsert and other actions name no row.
Unaddressed(kind) ==
  [kind |-> kind, ids |-> {}, where |-> {}, skip |-> FALSE, meant |-> {}]
Restore(ids) == [Unaddressed("restore") EXCEPT !.ids = ids, !.meant = ids]

\* WithCondition and WithOnConditionFailed set flags; where holds at most one condition.
Update(ids, where, skip) ==
  [kind |-> "update", ids |-> ids, where |-> where, skip |-> skip,
   meant |-> ids \cap Matching(where)]

\* What a delete names: ids, predicates, or the intersection; never all rows.
DeleteMeans(ids, options) ==
  {r \in Rows : /\ ids # {} \/ \E i \in DOMAIN options : options[i] # {}
                /\ ids # {} => r \in ids
                /\ \A i \in DOMAIN options : \A p \in options[i] : r \in p}

\* Mutant: the last DeleteWhere replaces those before it.
DeleteLastWhere(ids, options) ==
  [kind |-> "delete", ids |-> ids, skip |-> FALSE, meant |-> DeleteMeans(ids, options),
   where |-> IF options = <<>> THEN {} ELSE options[Len(options)]]

\* Every DeleteWhere appends its nodes, and their list is a conjunction.
Delete(ids, options) ==
  [kind |-> "delete", ids |-> ids, skip |-> FALSE, meant |-> DeleteMeans(ids, options),
   where |-> UNION {options[i] : i \in DOMAIN options}]

\* Arguments.  A predicate argument of DeleteWhere is a set of nodes.
Conditions == {{}} \cup {{p} : p \in Predicates}
WhereLists == {<<>>} \cup {<<{p}>> : p \in Predicates}
                \cup {<<{p}, {q}>> : p, q \in Predicates}

UpdatesOf(ids) == {Update(ids, where, skip) : where \in Conditions, skip \in BOOLEAN}
DeletesOf(ids) == {Delete(ids, options) : options \in WhereLists}
Ops == (UNION {UpdatesOf(ids) \cup DeletesOf(ids) \cup {Restore(ids)} : ids \in IdLists})
         \cup {Unaddressed(kind) : kind \in {"create", "upsert", "call"}}

\* The guards of BulkUpdate, BulkDelete and BulkRestore; the batch has none.
Names(op) ==
  CASE op.kind \in {"update", "restore"} -> op.ids # {}
    [] op.kind = "delete"                -> op.ids # {} \/ op.where # {}
    [] OTHER                             -> TRUE

\* InvokeParams: Args may hold an object_ids of its own, and IDs replaces it.
\* Each is a sequence of at most one list; an empty IDs list counts, a nil one not.
Given == {<<>>} \cup {<<ids>> : ids \in IdLists}
Invocation(args, ids) ==
  LET body == args \o ids
      named == IF body = <<>> THEN {} ELSE body[Len(body)]
  IN [Unaddressed("call") EXCEPT !.ids = named, !.meant = named]

ASSUME OfferedAssumption == Offered \subseteq Ops

-----------------------------------------------------------------------------
(* A call, as its goroutine knows it. *)

Reads      == {"get", "list", "schema"}
Dispatched == {"bulk", "invoke", "upload"}
Kinds      == Reads \cup Dispatched \cup {"batch", "file"}

\* asked and file are histories: the With... choice of the object the call was made
\* through, if it made one, and the body a file read was answered with.
Call == [kind: Kinds, ops: Seq(Op), atomic: BOOLEAN, whole: BOOLEAN, limit: Limits \cup {0},
         sent: Selection, asked: SUBSET Selection, stage: {"none", "sent", "over"},
         result: {"none", "invalid", "noBaseURL", "conflict", "noSelection", "transport",
                  "unreadable", "problem", "undecodable", "rows", "empty", "committed",
                  "rolledBack", "row", "page", "content", "limit", "digest"},
         file: SUBSET Bodies]

Draft(kind, ops, asked) ==
  [kind |-> kind, ops |-> ops, atomic |-> TRUE, whole |-> TRUE, limit |-> 0, sent |-> Neither,
   asked |-> asked, stage |-> "none", result |-> "none", file |-> {}]

\* newRequest and applyHeaders, in their order; then the request is on the wire.
Refusal(selection) ==
  IF client.health = "noBaseURL"        THEN "noBaseURL"
  ELSE IF Conflicting(selection)        THEN "conflict"
  ELSE IF client.health = "noSelection" THEN "noSelection" ELSE "none"

Sent(call, options) ==
  LET selection == Resolved(options)
      refusal   == Refusal(selection)
  IN [call EXCEPT !.sent = selection, !.result = refusal,
                  !.stage = IF refusal = "none" THEN "sent" ELSE "over"]

Invalid(call) == [call EXCEPT !.stage = "over", !.result = "invalid"]

\* Calls are numbered in the order they start.
Unused(n) == \A m \in CallIds : calls[m].stage = "none" <=> m >= n
\* Bound: MaxActs steps, the last a call at the latest.
Act == /\ acts < MaxActs /\ calls[MaxCalls].stage = "none" /\ listing.stage = "none"
       /\ acts' = acts + 1

NewData    == [request |-> <<>>, asked |-> {}]
EmptyBatch == [ops |-> <<>>, target |-> Neither, asked |-> {}]

\* Bound: with its last call the program lets go of its objects.
Kept(n) == IF n = MaxCalls
           THEN data' = [h \in Handles |-> NewData] /\ batch' = EmptyBatch
           ELSE UNCHANGED <<data, batch>>

\* Invalid arguments are an entity, fields or key left empty, or an argument JSON
\* cannot carry (ok = FALSE); each call looks at its own before it builds a request.
Make(n, call, options, ok) ==
  /\ Act /\ Unused(n)
  /\ calls' = [calls EXCEPT ![n] = IF ok THEN Sent(call, options) ELSE Invalid(call)]
  /\ Kept(n)
  /\ UNCHANGED <<client, remote, listing>>

-----------------------------------------------------------------------------
(* Objects of the program. *)

Data(h) == \* Client.Data
  /\ Act
  /\ data' = [data EXCEPT ![h] = NewData]
  /\ UNCHANGED <<client, batch, calls, remote, listing>>

\* h = g.WithTarget...: a new value with this option alone; g's own is unchanged.
Derive(h, g, s) ==
  /\ Act
  /\ data' = [data EXCEPT ![h] = [request |-> <<With(client.tenant, s)>>, asked |-> {s}]]
  /\ UNCHANGED <<client, batch, calls, remote, listing>>

NewBatch ==
  /\ Act
  /\ batch' = EmptyBatch
  /\ UNCHANGED <<client, data, calls, remote, listing>>

SelectBatch(s) == \* Batch.WithTarget..., on the builder itself
  /\ Act
  /\ batch' = [batch EXCEPT !.target = With(@, s), !.asked = {s}]
  /\ UNCHANGED <<client, data, calls, remote, listing>>

AddOp(op) ==
  /\ Act /\ Len(batch.ops) < MaxOps
  /\ batch' = [batch EXCEPT !.ops = Append(@, op)]
  /\ UNCHANGED <<client, data, calls, remote, listing>>

-----------------------------------------------------------------------------
(* Calls. *)

\* Mutant: the body leaves atomic out.
BatchBodyLoose(ops) == [ops |-> ops, atomic |-> FALSE]

BatchBody(ops) == [ops |-> ops, atomic |-> TRUE]

\* Mutant: a batch of no operations is sent.
EmptyIsSent(ops) == FALSE

NothingToSend(ops) == ops = <<>>

\* The builder keeps its operations: a second Execute sends them again.
Execute(n, ok) ==
  LET body == BatchBody(batch.ops)
      call == [Draft("batch", body.ops, batch.asked) EXCEPT !.atomic = body.atomic]
  IN Make(n, call, TargetOptions(batch.target), ok /\ ~NothingToSend(batch.ops))

Write(n, h, op, ok) == \* BulkCreate, BulkUpsert, BulkUpdate, BulkDelete, BulkRestore
  /\ op.kind # "call"
  /\ Make(n, Draft("bulk", <<op>>, data[h].asked), data[h].request, ok /\ Names(op))

\* Both target fields may be set; then the request is refused.
Invoke(n, args, ids, s, ok) ==
  Make(n, Draft("invoke", <<Invocation(args, ids)>>, IF s = Neither THEN {} ELSE {s}),
       TargetOptions(s), ok)

Read(n, h, kind, whole, ok) ==
  Make(n, [Draft(kind, <<>>, data[h].asked) EXCEPT !.whole = whole], data[h].request, ok)

\* whole: the key names every primary-key field of the entity.
Get(n, h, whole, ok) == Read(n, h, "get", whole, ok)
List(n, h, ok)       == Read(n, h, "list", TRUE, ok)

\* Calls on the client itself take options of their own.
Optional(n, kind, chosen, limit, ok) ==
  LET options == [i \in DOMAIN chosen |-> With(client.tenant, chosen[i])]
      asked   == IF chosen = <<>> THEN {} ELSE {chosen[Len(chosen)]}
  IN Make(n, [Draft(kind, <<>>, asked) EXCEPT !.limit = limit], options,
          ok /\ (kind = "file" => limit > 0))

EntitySchema(n, chosen, ok)                    == Optional(n, "schema", chosen, 0, ok)
UploadFileReference(n, chosen, ok)             == Optional(n, "upload", chosen, 0, ok)
ReadFileReferenceRuntime(n, chosen, limit, ok) == Optional(n, "file", chosen, limit, ok)

-----------------------------------------------------------------------------
(* The platform (external). *)

\* A write that names nothing is refused, and so is an update with a row outside
\* its condition unless it asks to skip such rows.
Refused(op) ==
  \/ op.kind \in {"update", "restore"} /\ op.ids = {}
  \/ op.kind = "delete" /\ op.ids = {} /\ op.where = {}
  \/ op.kind = "update" /\ ~op.skip /\ ~(op.ids \subseteq Matching(op.where))

\* The addressed rows an operation writes.
Written(op) ==
  CASE op.kind \in {"create", "upsert"}       -> {}
    [] op.kind \in {"restore", "call"}        -> op.ids
    [] op.kind = "update"                     -> op.ids \cap Matching(op.where)
    [] op.kind = "delete" /\ op.ids = {}      -> Matching(op.where)
    [] op.kind = "delete" /\ op.ids # {}      -> op.ids \cap Matching(op.where)

RowsOf(ops) == UNION {Written(ops[i]) : i \in DOMAIN ops}

\* An answer of success: a get with part of a key falls through to list mode.
Success(call) ==
  CASE call.kind \in Dispatched -> {"result", "noResult"}
    [] call.kind = "batch"      -> {"committed", "noResult"}
    [] call.kind = "get"        -> IF call.whole THEN {"record", "noData"} ELSE {"list"}
    [] call.kind = "list"       -> {"list"}
    [] call.kind = "schema"     -> {"record", "noData"}
    [] call.kind = "file"       -> {"file"}

Failure(call) ==
  {"problem"} \cup (IF call.kind = "batch" THEN {"rolledBack"} ELSE {})
              \cup (IF call.kind \in Dispatched THEN {"noResult"} ELSE {})

\* The request reached the platform, perhaps after its caller gave up or a gateway
\* answered in the platform's place.
Arrived(n) ==
  /\ decided[n] = "no"
  /\ calls[n].stage = "sent" \/ calls[n].result \in {"transport", "unreadable"}

\* It answers whoever still waits.
Settle(n, outcome, written, reply) ==
  /\ decided' = [decided EXCEPT ![n] = outcome]
  /\ touched' = [touched EXCEPT ![n] = written]
  /\ answer'  = IF calls[n].stage = "sent" THEN [answer EXCEPT ![n] = reply] ELSE answer
  /\ UNCHANGED <<client, data, batch, calls, listing, acts>>

Apply(n) ==
  /\ Arrived(n)
  /\ \A i \in DOMAIN calls[n].ops : ~Refused(calls[n].ops[i])
  /\ \E reply \in Success(calls[n]) : Settle(n, "applied", RowsOf(calls[n].ops), reply)

\* The i-th operation fails, refused or for reasons of the platform's own.
Fail(n, i) ==
  LET ops    == calls[n].ops
      before == SubSeq(ops, 1, i - 1)
  IN /\ Arrived(n)
     /\ i \in 1..(IF ops = <<>> THEN 1 ELSE Len(ops))
     /\ \A j \in DOMAIN before : ~Refused(before[j])
     /\ \E reply \in Failure(calls[n]) :
          Settle(n, "failed", IF calls[n].atomic THEN {} ELSE RowsOf(before), reply)

-----------------------------------------------------------------------------
(* What a call returns. *)

Return(n, result, file) ==
  /\ calls[n].stage = "sent"
  /\ calls'  = [calls EXCEPT ![n].stage = "over", ![n].result = result, ![n].file = file]
  /\ answer' = [answer EXCEPT ![n] = "none"]
  /\ UNCHANGED <<client, data, batch, decided, touched, listing, acts>>

\* From the response to the result.  decodeActionResult takes an absent result for
\* the zero value; Execute, Get and EntitySchema do not.  A problem document, and a
\* batch's own account of itself, are passed on as they are.
Decoded(kind, reply) ==
  CASE reply = "result"   -> "rows"
    [] reply = "noResult" -> IF kind = "batch" THEN "undecodable" ELSE "empty"
    [] reply = "record"   -> "row"
    [] reply = "noData"   -> "undecodable"
    [] reply = "list"     -> IF kind = "get" THEN "undecodable" ELSE "page"
    [] OTHER              -> reply

Receive(n) ==
  /\ answer[n] \notin {"none", "file"}
  /\ Return(n, Decoded(calls[n].kind, answer[n]), {})

\* A file read takes what it is sent, the stored file or a proxy's page.
ReceiveFile(n, b) ==
  /\ calls[n].kind = "file"
  /\ b.intact => answer[n] = "file"
  /\ Return(n, FileVerdict(b, calls[n].limit), {b})

\* errorFromTransport: no answer within the context, or no connection to carry one.
TransportFails(n) == Return(n, "transport", {})

\* errorFromUnreadable: the body breaks off or passes MaxResponseSize.
BodyUnreadable(n) == answer[n] # "none" /\ calls[n].kind # "file" /\ Return(n, "unreadable", {})

\* A proxy answers instead: errorFromResponse for a failure without the problem media
\* type; a 2xx page is not JSON, and an empty JSON object passes for an absent result.
ProxyAnswers(n) ==
  \/ Return(n, "unreadable", {})
  \/ calls[n].kind # "file" /\ Return(n, "undecodable", {})
  \/ calls[n].kind \in Dispatched /\ Return(n, "empty", {})

-----------------------------------------------------------------------------
(* MCPSession.ListTools, over a session whose requests carry the client's own *)
(* tenant (mcpTransport).  twice and odd are histories: a cursor other than   *)
(* the last one came back; an odd number of pages was read.                   *)

Idle == [stage |-> "none", at |-> None, seen |-> {}, twice |-> FALSE, odd |-> FALSE]
Over(stage) == [Idle EXCEPT !.stage = stage]

\* Bound: a session shares nothing with calls but the client, which no call changes,
\* so the program that lists tools does nothing else.
StartListing ==
  /\ Act /\ acts = 0
  /\ listing' = IF Refusal(client.tenant) = "none" THEN Over("paging") ELSE Over("error")
  /\ UNCHANGED <<client, data, batch, calls, remote>>

On(l, next) == [l EXCEPT !.at = next, !.seen = @ \cup {next},
                         !.twice = @ \/ next \in l.seen \ {l.at}, !.odd = ~@]

\* Mutant: the repeated cursor is not looked for.
PageOnAndOn(l, next) == IF next = None THEN Over("tools") ELSE On(l, next)

AfterPage(l, next) ==
  IF next = None      THEN Over("tools")
  ELSE IF next = l.at THEN Over("repeated") ELSE On(l, next)

\* A page, or an error: the request failed or a tool has no name.
Page ==
  /\ listing.stage = "paging"
  /\ \/ \E next \in Cursors \cup {None} : listing' = AfterPage(listing, next)
     \/ listing' = Over("error")
  /\ UNCHANGED <<client, data, batch, calls, remote, acts>>

-----------------------------------------------------------------------------
Init ==
  /\ client \in [tenant: Selection, health: {"ok", "noBaseURL", "noSelection"}]
  /\ data    = [h \in Handles |-> NewData]
  /\ batch   = EmptyBatch
  /\ calls   = [n \in CallIds |-> Draft("get", <<>>, {})]
  /\ decided = [n \in CallIds |-> "no"]
  /\ touched = [n \in CallIds |-> {}]
  /\ answer  = [n \in CallIds |-> "none"]
  /\ listing = Idle
  /\ acts    = 0

Prepare ==
  \/ NewBatch
  \/ \E h \in Handles : Data(h)
  \/ \E h, g \in Handles, s \in Named : Derive(h, g, s)
  \/ \E s \in Named : SelectBatch(s)
  \/ \E op \in Offered : AddOp(op)

OptionLists == {<<>>} \cup {<<s>> : s \in Named} \cup {<<s, t>> : s, t \in Named}

Start(n) == \E ok \in BOOLEAN :
  \/ Execute(n, ok)
  \/ \E h \in Handles, op \in Offered : Write(n, h, op, ok)
  \/ \E args, ids \in Given, s \in Selection : Invoke(n, args, ids, s, ok)
  \/ \E h \in Handles, whole \in BOOLEAN : Get(n, h, whole, ok)
  \/ \E h \in Handles : List(n, h, ok)
  \/ \E chosen \in OptionLists : EntitySchema(n, chosen, ok)
  \/ \E chosen \in OptionLists : UploadFileReference(n, chosen, ok)
  \/ \E chosen \in OptionLists, limit \in Limits :
       ReadFileReferenceRuntime(n, chosen, limit, ok)

Serve(n) == Apply(n) \/ \E i \in 1..MaxOps : Fail(n, i)

Finish(n) ==
  \/ Receive(n)
  \/ \E b \in Bodies : ReceiveFile(n, b)
  \/ TransportFails(n)
  \/ BodyUnreadable(n)
  \/ ProxyAnswers(n)

Next ==
  \/ Prepare
  \/ \E n \in CallIds : Start(n) \/ Serve(n) \/ Finish(n)
  \/ StartListing
  \/ Page

\* A listing under way goes on: each page is answered or its context ends.
Spec == Init /\ [][Next]_vars /\ WF_vars(Page)

-----------------------------------------------------------------------------
(* Properties. *)

ObjectTypes ==
  /\ client \in [tenant: Selection, health: {"ok", "noBaseURL", "noSelection"}]
  /\ data \in [Handles -> [request: Seq(Selection), asked: SUBSET Selection]]
  /\ batch \in [ops: Seq(Op), target: Selection, asked: SUBSET Selection]

Sendable(call) == call.stage = "sent" =>
  /\ call.kind = "batch" => call.ops # <<>>
  /\ call.kind = "file" => call.limit > 0

CallTypes == calls \in [CallIds -> Call] /\ \A n \in CallIds : Sendable(calls[n])

RemoteTypes ==
  /\ decided \in [CallIds -> {"no", "applied", "failed"}]
  /\ touched \in [CallIds -> SUBSET Rows]
  /\ answer \in [CallIds -> {"none", "result", "noResult", "committed", "rolledBack",
                             "record", "noData", "list", "file", "problem"}]

ListingTypes ==
  /\ listing \in [stage: {"none", "paging", "tools", "repeated", "error"},
                  at: Cursors \cup {None}, seen: SUBSET Cursors, twice: BOOLEAN,
                  odd: BOOLEAN]
  /\ acts \in Nat

\* Every variable keeps to its values; a batch on the wire holds an operation, and a
\* file read on the wire a limit (Execute and ReadFileReferenceRuntime check first).
TypeOK == ObjectTypes /\ CallTypes /\ RemoteTypes /\ ListingTypes

\* The last target tenant chosen on a data client, a batch or a call is the one its
\* request carries, however the client itself was configured and whatever was derived
\* from it meanwhile; without a choice it is the client's own (data.go:36-41,
\* batch.go:80-94, client.go:107-131, 178-183).
LastSelectionWins == \A n \in CallIds :
  calls[n].stage # "none" /\ calls[n].result # "invalid" =>
    /\ calls[n].asked = {} => calls[n].sent = client.tenant
    /\ \A s \in calls[n].asked \ {Neither} :
         calls[n].sent = s /\ (calls[n].result = "conflict" => Conflicting(s))

\* What a call returns agrees with what the platform did: rows and committed mean that
\* every operation was applied, a problem, rolledBack or an argument or target refused
\* that nothing was written, and a single row that the whole key was given
\* (batch.go:48-54, data.go:154-156, 658-667).
OutcomeIsTrue == \A n \in CallIds :
  /\ calls[n].result \in {"rows", "committed"} => decided[n] = "applied"
  /\ calls[n].result \in {"problem", "rolledBack", "invalid", "noBaseURL", "conflict",
                          "noSelection"} => touched[n] = {}
  /\ calls[n].result = "row" /\ calls[n].kind = "get" => calls[n].whole

\* A write that is applied writes the rows the program named and no others, whichever of
\* ids, predicates and conditions it named them by and whichever builder carried them
\* (data.go:536-558, 563-565, batch.go:182-184). An empty list of ids is none given.
WritesWhatWasNamed == \A n \in CallIds :
  decided[n] = "applied" =>
    touched[n] = UNION {calls[n].ops[i].meant : i \in DOMAIN calls[n].ops}

\* A file read returns content only when it is the whole intact file and within the
\* limit; it blames the limit only for a file beyond it, the digest only for a body that
\* is not the file, and the transport only for a body that was cut (references.go:68-122).
FileVerdictFits == \A n \in CallIds : \A b \in calls[n].file :
  LET result == calls[n].result
      limit  == calls[n].limit
  IN /\ result = "content" => b.intact /\ b.arrived = b.size /\ b.size <= limit
     /\ result = "limit" => b.size > limit
     /\ result = "digest" => ~b.intact \/ b.arrived < b.size
     /\ result = "unreadable" => b.end = "cut"

\* A tool listing ends, unless the server hands out a cursor other than the last one
\* again: ListTools stops at a cursor repeated at once (mcp.go:87-93) and follows any
\* longer cycle for ever.
ListingEnds == listing.stage = "paging" ~> listing.stage # "paging" \/ listing.twice

\* "nothing reached the platform, so nothing was decided" (errors.go:43-44): a call that
\* failed in transport was not decided by the platform.
TransportMeansUndecided == \A n \in CallIds :
  calls[n].result = "transport" => decided[n] = "no"
=============================================================================
