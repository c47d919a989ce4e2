------------------------ MODULE PlatformCalls_proofs ------------------------
(***************************************************************************)
(* Proofs about PlatformCalls, for any rows, tenants, calls and bounds.    *)
(*                                                                         *)
(* Each safety property is a part of one inductive invariant: what an      *)
(* object would send is what was chosen on it (ObjectsInv), and a call, the*)
(* platform's decision, the rows it wrote and its answer agree (CallInv).  *)
(* A step changes one call, or what the platform did with one call, or     *)
(* objects alone, so each case below is about one call.                    *)
(***************************************************************************)
EXTENDS PlatformCalls, TLAPS

-----------------------------------------------------------------------------
(* The operators. *)

\* What an operation writes, unless refused, is what the program named.
Faithful(op) == ~Refused(op) => Written(op) = op.meant

\* A delete writes the intersection of its ids and every DeleteWhere.
LEMMA DeleteIsFaithful ==
  ASSUME NEW ids \in SUBSET Rows, NEW options \in WhereLists
  PROVE  Faithful(Delete(ids, options))
<1> DEFINE op == Delete(ids, options)
<1>1. /\ op.kind = "delete" /\ op.ids = ids
      /\ op.where = UNION {options[i] : i \in DOMAIN options}
      /\ op.meant = DeleteMeans(ids, options)
  BY DEF Delete
<1>2. op.where = {} <=> \A i \in DOMAIN options : options[i] = {}
  BY <1>1
<1>3. Matching(op.where) = {r \in Rows : \A i \in DOMAIN options : \A p \in options[i] : r \in p}
  BY <1>1 DEF Matching
<1>4. CASE ids = {}
  <2>1. Written(op) = Matching(op.where)
    BY <1>1, <1>4 DEF Written
  <2>2. ~Refused(op) => op.where # {}
    BY <1>1, <1>4 DEF Refused
  <2>3. op.where # {} => op.meant = Matching(op.where)
    BY <1>1, <1>2, <1>3, <1>4 DEF DeleteMeans
  <2> QED BY <2>1, <2>2, <2>3 DEF Faithful
<1>5. CASE ids # {}
  <2>1. Written(op) = ids \cap Matching(op.where)
    BY <1>1, <1>5 DEF Written
  <2>2. op.meant = ids \cap Matching(op.where)
    BY <1>1, <1>3, <1>5 DEF DeleteMeans
  <2> QED BY <2>1, <2>2 DEF Faithful
<1> QED BY <1>4, <1>5

LEMMA UpdateIsFaithful ==
  ASSUME NEW ids, NEW where, NEW skip PROVE Faithful(Update(ids, where, skip))
BY DEF Faithful, Update, Written

LEMMA RestoreIsFaithful == ASSUME NEW ids PROVE Faithful(Restore(ids))
BY DEF Faithful, Restore, Unaddressed, Written

LEMMA InvocationIsFaithful == ASSUME NEW args, NEW ids PROVE Faithful(Invocation(args, ids))
<1> DEFINE body == args \o ids
           named == IF body = <<>> THEN {} ELSE body[Len(body)]
<1>1. Invocation(args, ids) = [Unaddressed("call") EXCEPT !.ids = named, !.meant = named]
  BY DEF Invocation
<1> HIDE DEF named
<1> QED BY <1>1 DEF Faithful, Unaddressed, Written

LEMMA UnaddressedIsFaithful ==
  ASSUME NEW kind \in {"create", "upsert", "call"} PROVE Faithful(Unaddressed(kind))
<1>1. CASE kind = "call"
  BY <1>1 DEF Faithful, Unaddressed, Written
<1>2. CASE kind \in {"create", "upsert"}
  BY <1>2 DEF Faithful, Unaddressed, Written
<1> QED BY <1>1, <1>2

\* The operations programs ask for are well typed, and each is faithful.
LEMMA OfferedIsFaithful == \A op \in Offered : op \in Op /\ Faithful(op)
<1> SUFFICES ASSUME NEW op \in Ops PROVE op \in Op /\ Faithful(op)
  BY OfferedAssumption
<1>1. CASE \E kind \in {"create", "upsert", "call"} : op = Unaddressed(kind)
  <2>1. PICK kind \in {"create", "upsert", "call"} : op = Unaddressed(kind)
    BY <1>1
  <2>2. op \in Op
    BY <2>1 DEF Unaddressed, Op
  <2> QED BY <2>1, <2>2, UnaddressedIsFaithful
<1>2. ASSUME NEW ids \in IdLists, op \in UpdatesOf(ids) \cup DeletesOf(ids) \cup {Restore(ids)}
      PROVE  op \in Op /\ Faithful(op)
  <2>1. ids \in SUBSET Rows
    BY ConstantsAssumption
  <2>2. ASSUME op \in UpdatesOf(ids) PROVE op \in Op /\ Faithful(op)
    <3>1. PICK where \in Conditions, skip \in BOOLEAN : op = Update(ids, where, skip)
      BY <2>2 DEF UpdatesOf
    <3>2. where \in SUBSET (SUBSET Rows)
      BY ConstantsAssumption DEF Conditions
    <3>3. op \in Op
      BY <2>1, <3>1, <3>2 DEF Update, Op
    <3> QED BY <3>1, <3>3, UpdateIsFaithful
  <2>3. ASSUME op \in DeletesOf(ids) PROVE op \in Op /\ Faithful(op)
    <3>1. PICK options \in WhereLists : op = Delete(ids, options)
      BY <2>3 DEF DeletesOf
    <3>2. \A i \in DOMAIN options : options[i] \in SUBSET (SUBSET Rows)
      <4>1. Predicates \subseteq SUBSET Rows
        BY ConstantsAssumption
      <4>2. CASE options = <<>>
        BY <4>2
      <4>3. ASSUME NEW p \in Predicates, options = <<{p}>> PROVE <3>2
        BY <4>1, <4>3
      <4>4. ASSUME NEW p \in Predicates, NEW q \in Predicates, options = <<{p}, {q}>> PROVE <3>2
        BY <4>1, <4>4
      <4> QED BY <4>2, <4>3, <4>4 DEF WhereLists
    <3>3. UNION {options[i] : i \in DOMAIN options} \in SUBSET (SUBSET Rows)
      BY <3>2
    <3>4. DeleteMeans(ids, options) \in SUBSET Rows
      BY DEF DeleteMeans
    <3>5. op \in Op
      BY <2>1, <3>1, <3>3, <3>4 DEF Delete, Op
    <3> QED BY <2>1, <3>1, <3>5, DeleteIsFaithful
  <2>4. ASSUME op = Restore(ids) PROVE op \in Op /\ Faithful(op)
    <3>1. op \in Op
      BY <2>1, <2>4 DEF Restore, Unaddressed, Op
    <3> QED BY <2>4, <3>1, RestoreIsFaithful
  <2> QED BY <1>2, <2>2, <2>3, <2>4
<1> DEFINE Addressed == UNION {UpdatesOf(ids) \cup DeletesOf(ids) \cup {Restore(ids)} : ids \in IdLists}
<1>3. CASE op \in Addressed
  <2>1. \E ids \in IdLists : op \in UpdatesOf(ids) \cup DeletesOf(ids) \cup {Restore(ids)}
    BY <1>3
  <2> QED BY <1>2, <2>1
<1>4. CASE op \in {Unaddressed(kind) : kind \in {"create", "upsert", "call"}}
  BY <1>1, <1>4
<1>5. op \in Addressed \cup {Unaddressed(kind) : kind \in {"create", "upsert", "call"}}
  BY DEF Ops
<1> HIDE DEF Addressed
<1> QED BY <1>3, <1>4, <1>5

-----------------------------------------------------------------------------
(* The invariant. *)

\* The options of an object, or of a call, carry its last choice.
Fits(options, asked) ==
  /\ asked = {} => options = <<>>
  /\ \A s \in asked \ {Neither} : options # <<>> /\ options[Len(options)] = s

ObjectsInv ==
  /\ \A h \in Handles : Fits(data[h].request, data[h].asked)
  /\ Fits(TargetOptions(batch.target), batch.asked)
  /\ \A i \in DOMAIN batch.ops : Faithful(batch.ops[i])

\* A call c, what the platform decided of it (d), the rows written (t) and its answer (a).
Selected(c) ==
  c.stage # "none" /\ c.result # "invalid" =>
    /\ c.asked = {} => c.sent = client.tenant
    /\ \A s \in c.asked \ {Neither} : c.sent = s /\ (c.result = "conflict" => Conflicting(s))

Agreed(c, d, t, a) ==
  /\ a # "none" => c.stage = "sent" /\ d # "no"
  /\ a \in {"result", "committed"} => d = "applied"
  /\ d = "failed" => t = {}
  /\ d = "no" => t = {}
  /\ a \in {"problem", "rolledBack"} => d = "failed"
  /\ a = "record" /\ c.kind = "get" => c.whole
  /\ c.stage = "none" => d = "no"
  /\ c.stage # "over" => c.result = "none"
  /\ c.result \in {"rows", "committed"} => d = "applied"
  /\ c.result \in {"problem", "rolledBack"} => d = "failed"
  /\ c.result \in {"invalid", "noBaseURL", "conflict", "noSelection"} => d = "no"
  /\ c.result = "row" /\ c.kind = "get" => c.whole

Meant(c, d, t) ==
  /\ c.atomic
  /\ \A i \in DOMAIN c.ops : Faithful(c.ops[i])
  /\ d = "applied" => t = UNION {c.ops[i].meant : i \in DOMAIN c.ops}

\* What a file read may say of the body b it read within a limit.
Fitting(b, limit, verdict) ==
  /\ verdict = "content" => b.intact /\ b.arrived = b.size /\ b.size <= limit
  /\ verdict = "limit" => b.size > limit
  /\ verdict = "digest" => ~b.intact \/ b.arrived < b.size
  /\ verdict = "unreadable" => b.end = "cut"

Judged(c) == \A b \in c.file : Fitting(b, c.limit, c.result)

CallInv(c, d, t, a) == Selected(c) /\ Agreed(c, d, t, a) /\ Meant(c, d, t) /\ Judged(c)

CallsInv == \A n \in CallIds : CallInv(calls[n], decided[n], touched[n], answer[n])

Inv == TypeOK /\ ObjectsInv /\ CallsInv

-----------------------------------------------------------------------------
(* Objects and options. *)

LEMMA Choices == Neither \in Selection /\ Named \subseteq Selection /\ None \notin TenantIDs \cup TenantCodes
BY ConstantsAssumption DEF Neither, Selection, Named

\* A With... call leaves exactly what it names, whatever was set before.
LEMMA WithNames == ASSUME NEW old, NEW s \in Named PROVE With(old, s) = s
<1>1. s \in [id: TenantIDs \cup {None}, code: TenantCodes \cup {None}] /\ None \in {s.id, s.code}
  BY DEF Named, Selection
<1>2. s = [id |-> s.id, code |-> s.code]
  BY <1>1
<1> QED BY <1>1, <1>2 DEF With, WithTargetTenantID, WithTargetTenantCode

LEMMA TargetFits ==
  ASSUME NEW s \in Selection
  PROVE  /\ TargetOptions(s) \in Seq(Selection)
         /\ Fits(TargetOptions(s), {s})
         /\ TargetOptions(Neither) = <<>>
         /\ s = Neither => Fits(TargetOptions(s), {})
BY Choices DEF TargetOptions, Fits

\* The request carries the last option, and the client's own tenant without any.
LEMMA ResolvedFits ==
  ASSUME NEW options \in Seq(Selection), NEW asked \in SUBSET Selection, Fits(options, asked),
         client.tenant \in Selection
  PROVE  /\ Resolved(options) \in Selection
         /\ asked = {} => Resolved(options) = client.tenant
         /\ \A s \in asked \ {Neither} : Resolved(options) = s
<1>1. options # <<>> => options[Len(options)] \in Selection
  OBVIOUS
<1> QED BY <1>1 DEF Resolved, Fits

-----------------------------------------------------------------------------
(* Calls. *)

\* A call as its method draws it up, before the request is built.
Drafted(c) ==
  /\ c \in Call /\ c.stage = "none" /\ c.result = "none" /\ c.file = {} /\ c.atomic
  /\ \A i \in DOMAIN c.ops : Faithful(c.ops[i])

LEMMA DraftIsDrafted ==
  ASSUME NEW kind \in Kinds, NEW ops \in Seq(Op), \A i \in DOMAIN ops : Faithful(ops[i]),
         NEW asked \in SUBSET Selection, NEW c,
         \/ c = Draft(kind, ops, asked)
         \/ c = [Draft(kind, ops, asked) EXCEPT !.atomic = TRUE]
         \/ \E whole \in BOOLEAN : c = [Draft(kind, ops, asked) EXCEPT !.whole = whole]
         \/ \E limit \in Limits \cup {0} : c = [Draft(kind, ops, asked) EXCEPT !.limit = limit]
  PROVE  Drafted(c) /\ c.kind = kind /\ c.ops = ops /\ c.asked = asked
<1> DEFINE plain == Draft(kind, ops, asked)
<1>1. plain \in Call
  BY Choices DEF Draft, Call
<1>2. /\ plain.stage = "none" /\ plain.result = "none" /\ plain.file = {} /\ plain.atomic
      /\ plain.kind = kind /\ plain.ops = ops /\ plain.asked = asked
  BY DEF Draft
<1> HIDE DEF plain
<1>3. /\ c \in Call /\ c.stage = "none" /\ c.result = "none" /\ c.file = {} /\ c.atomic
      /\ c.kind = kind /\ c.ops = ops /\ c.asked = asked
  <2>1. CASE c = plain
    BY <1>1, <1>2, <2>1
  <2>2. CASE c = [plain EXCEPT !.atomic = TRUE]
    BY <1>1, <1>2, <2>2 DEF Call
  <2>3. ASSUME NEW whole \in BOOLEAN, c = [plain EXCEPT !.whole = whole] PROVE <1>3
    BY <1>1, <1>2, <2>3 DEF Call
  <2>4. ASSUME NEW limit \in Limits \cup {0}, c = [plain EXCEPT !.limit = limit] PROVE <1>3
    BY <1>1, <1>2, <2>4 DEF Call
  <2> QED BY <2>1, <2>2, <2>3, <2>4 DEF plain
<1> QED BY <1>3 DEF Drafted

\* A call that is made, or refused before the wire, keeps the invariant of calls.
LEMMA MadeIsInv ==
  ASSUME NEW c, Drafted(c), NEW options \in Seq(Selection), Fits(options, c.asked),
         client.tenant \in Selection, NEW ok \in BOOLEAN,
         ok /\ c.kind = "batch" => c.ops # <<>>, ok /\ c.kind = "file" => c.limit > 0,
         NEW made, made = IF ok THEN Sent(c, options) ELSE Invalid(c)
  PROVE  /\ made \in Call
         /\ CallInv(made, "no", {}, "none")
         /\ Sendable(made)
<1>1. c \in Call /\ c.asked \in SUBSET Selection
  BY DEF Drafted, Call
<1>2. CASE ~ok
  <2>1. made = [c EXCEPT !.stage = "over", !.result = "invalid"]
    BY <1>2 DEF Invalid
  <2>2. made \in Call
    BY <1>1, <2>1 DEF Call
  <2>3. /\ made.stage = "over" /\ made.result = "invalid" /\ made.file = {}
        /\ made.atomic /\ made.ops = c.ops
    BY <1>1, <2>1 DEF Drafted, Call
  <2>4. Selected(made) /\ Judged(made)
    BY <2>3 DEF Selected, Judged
  <2>5. Agreed(made, "no", {}, "none")
    BY <2>3 DEF Agreed
  <2>6. Meant(made, "no", {})
    BY <2>3 DEF Meant, Drafted
  <2> QED BY <2>2, <2>3, <2>4, <2>5, <2>6 DEF CallInv, Sendable
<1>3. CASE ok
  <2> DEFINE selection == Resolved(options)
             refusal   == Refusal(selection)
  <2>1. /\ selection \in Selection
        /\ c.asked = {} => selection = client.tenant
        /\ \A s \in c.asked \ {Neither} : selection = s
    BY <1>1, ResolvedFits
  <2>2. /\ refusal \in {"none", "noBaseURL", "conflict", "noSelection"}
        /\ refusal = "conflict" => Conflicting(selection)
    BY DEF Refusal
  <2>3. made = [c EXCEPT !.sent = selection, !.result = refusal,
                         !.stage = IF refusal = "none" THEN "sent" ELSE "over"]
    BY <1>3 DEF Sent
  <2> HIDE DEF selection, refusal
  <2>4. made \in Call
    BY <1>1, <2>1, <2>2, <2>3 DEF Call
  <2>5. /\ made.sent = selection /\ made.result = refusal /\ made.file = {} /\ made.atomic
        /\ made.ops = c.ops /\ made.asked = c.asked /\ made.kind = c.kind /\ made.limit = c.limit
        /\ made.stage = IF refusal = "none" THEN "sent" ELSE "over"
    BY <1>1, <2>3 DEF Drafted, Call
  <2>6. Selected(made)
    BY <2>1, <2>2, <2>5 DEF Selected
  <2>7. Agreed(made, "no", {}, "none")
    BY <2>2, <2>5 DEF Agreed
  <2>8. Meant(made, "no", {}) /\ Judged(made)
    BY <2>5 DEF Meant, Drafted, Judged
  <2> QED BY <1>3, <2>4, <2>5, <2>6, <2>7, <2>8 DEF CallInv, Sendable
<1> QED BY <1>2, <1>3

\* Each call method draws up a call whose options fit its choice.
Makes(n, c, options, ok) ==
  /\ Drafted(c) /\ options \in Seq(Selection) /\ Fits(options, c.asked)
  /\ ok /\ c.kind = "batch" => c.ops # <<>>
  /\ ok /\ c.kind = "file" => c.limit > 0
  /\ Make(n, c, options, ok)

MakesOne(n) ==
  \E c \in Call, options \in Seq(Selection), good \in BOOLEAN : Makes(n, c, options, good)

LEMMA ExecuteMakes ==
  ASSUME Inv, NEW n \in CallIds, NEW ok \in BOOLEAN, Execute(n, ok)
  PROVE  MakesOne(n)
<1> DEFINE c == [Draft("batch", batch.ops, batch.asked) EXCEPT !.atomic = TRUE]
           options == TargetOptions(batch.target)
           good == ok /\ ~NothingToSend(batch.ops)
<1>1. Make(n, c, options, good)
  BY DEF Execute, BatchBody
<1>2. batch.ops \in Seq(Op) /\ batch.target \in Selection /\ batch.asked \in SUBSET Selection
  BY DEF Inv, TypeOK, ObjectTypes
<1>3. "batch" \in Kinds
  BY DEF Kinds
<1>4. Drafted(c) /\ c.kind = "batch" /\ c.ops = batch.ops /\ c.asked = batch.asked
  BY <1>2, <1>3, DraftIsDrafted DEF Inv, ObjectsInv
<1>5. options \in Seq(Selection) /\ Fits(options, c.asked)
  BY <1>2, <1>4, TargetFits DEF Inv, ObjectsInv
<1>6. good \in BOOLEAN /\ (good => c.ops # <<>>)
  BY <1>4 DEF NothingToSend
<1> HIDE DEF c, options, good
<1>7. Makes(n, c, options, good)
  BY <1>1, <1>4, <1>5, <1>6 DEF Makes
<1> QED BY <1>4, <1>5, <1>6, <1>7 DEF MakesOne, Drafted

LEMMA OneFaithful ==
  ASSUME NEW op \in Op, Faithful(op), NEW ops, ops = <<op>>
  PROVE  ops \in Seq(Op) /\ \A i \in DOMAIN ops : Faithful(ops[i])
OBVIOUS

LEMMA NoOps ==
  ASSUME NEW ops, ops = <<>> PROVE ops \in Seq(Op) /\ \A i \in DOMAIN ops : Faithful(ops[i])
OBVIOUS

LEMMA WriteMakes ==
  ASSUME Inv, NEW n \in CallIds, NEW h \in Handles, NEW op \in Offered, NEW ok \in BOOLEAN,
         Write(n, h, op, ok)
  PROVE  MakesOne(n)
<1> DEFINE ops == <<op>>
           c == Draft("bulk", ops, data[h].asked)
           good == ok /\ Names(op)
<1>1. Make(n, c, data[h].request, good)
  BY DEF Write
<1>2. data[h].request \in Seq(Selection) /\ data[h].asked \in SUBSET Selection
      /\ Fits(data[h].request, data[h].asked)
  BY DEF Inv, TypeOK, ObjectTypes, ObjectsInv
<1>3. ops \in Seq(Op) /\ \A i \in DOMAIN ops : Faithful(ops[i])
  BY OfferedIsFaithful, OneFaithful
<1> HIDE DEF ops
<1>4. "bulk" \in Kinds
  BY DEF Kinds, Dispatched
<1>5. Drafted(c) /\ c.kind = "bulk" /\ c.asked = data[h].asked
  BY <1>2, <1>3, <1>4, DraftIsDrafted
<1>6. good \in BOOLEAN
  BY DEF Names
<1> HIDE DEF c, good
<1>7. Makes(n, c, data[h].request, good)
  BY <1>1, <1>2, <1>5, <1>6 DEF Makes
<1> QED BY <1>2, <1>5, <1>6, <1>7 DEF MakesOne, Drafted

LEMMA InvokeMakes ==
  ASSUME Inv, NEW n \in CallIds, NEW args \in Given, NEW ids \in Given, NEW s \in Selection,
         NEW ok \in BOOLEAN, Invoke(n, args, ids, s, ok)
  PROVE  MakesOne(n)
<1> DEFINE op == Invocation(args, ids)
           asked == IF s = Neither THEN {} ELSE {s}
           ops == <<op>>
           c == Draft("invoke", ops, asked)
<1>1. Make(n, c, TargetOptions(s), ok)
  BY DEF Invoke
<1>2. TargetOptions(s) \in Seq(Selection) /\ Fits(TargetOptions(s), asked)
  BY TargetFits
<1>3. op \in Op /\ Faithful(op)
  <2>1. args \in Seq(SUBSET Rows) /\ ids \in Seq(SUBSET Rows)
    <3> HIDE DEF op, ops, asked, c
    <3>1. IdLists \subseteq SUBSET Rows
      BY ConstantsAssumption
    <3>2. ASSUME NEW g \in Given PROVE g \in Seq(SUBSET Rows)
      <4>1. CASE g = <<>>
        BY <4>1
      <4>2. ASSUME NEW list \in IdLists, g = <<list>> PROVE g \in Seq(SUBSET Rows)
        <5>1. list \in SUBSET Rows
          BY <3>1
        <5> QED BY <4>2, <5>1
      <4> QED BY <4>1, <4>2 DEF Given
    <3> QED BY <3>2
  <2> DEFINE body == args \o ids
             named == IF body = <<>> THEN {} ELSE body[Len(body)]
  <2>2. body \in Seq(SUBSET Rows)
    BY <2>1
  <2>3. named \in SUBSET Rows
    <3> HIDE DEF body
    <3>1. body # <<>> => body[Len(body)] \in SUBSET Rows
      BY <2>2
    <3> QED BY <3>1
  <2>4. op = [Unaddressed("call") EXCEPT !.ids = named, !.meant = named]
    BY DEF Invocation
  <2> HIDE DEF named, op
  <2>5. op \in Op
    BY <2>3, <2>4 DEF Unaddressed, Op
  <2> QED BY <2>5, InvocationIsFaithful DEF op
<1>4. ops \in Seq(Op) /\ \A i \in DOMAIN ops : Faithful(ops[i])
  BY <1>3, OneFaithful
<1>5. asked \in SUBSET Selection /\ "invoke" \in Kinds
  BY DEF Kinds, Dispatched
<1> HIDE DEF op, ops, asked
<1>6. Drafted(c) /\ c.kind = "invoke" /\ c.asked = asked
  BY <1>4, <1>5, DraftIsDrafted
<1> HIDE DEF c
<1>7. Makes(n, c, TargetOptions(s), ok)
  BY <1>1, <1>2, <1>6 DEF Makes
<1> QED BY <1>2, <1>6, <1>7 DEF MakesOne, Drafted

LEMMA ReadMakes ==
  ASSUME Inv, NEW n \in CallIds, NEW h \in Handles, NEW kind \in {"get", "list"},
         NEW whole \in BOOLEAN, NEW ok \in BOOLEAN, Read(n, h, kind, whole, ok)
  PROVE  MakesOne(n)
<1> DEFINE ops == <<>>
           c == [Draft(kind, ops, data[h].asked) EXCEPT !.whole = whole]
<1>1. Make(n, c, data[h].request, ok)
  BY DEF Read
<1>2. data[h].request \in Seq(Selection) /\ data[h].asked \in SUBSET Selection
      /\ Fits(data[h].request, data[h].asked)
  BY DEF Inv, TypeOK, ObjectTypes, ObjectsInv
<1>3. kind \in Kinds /\ kind # "batch" /\ kind # "file"
  BY DEF Kinds, Reads
<1>4. Drafted(c) /\ c.kind = kind /\ c.asked = data[h].asked
  <2>1. ops \in Seq(Op) /\ \A i \in DOMAIN ops : Faithful(ops[i])
    BY NoOps
  <2> HIDE DEF ops
  <2> QED BY <1>2, <1>3, <2>1, DraftIsDrafted
<1> HIDE DEF c
<1>5. Makes(n, c, data[h].request, ok)
  BY <1>1, <1>2, <1>3, <1>4 DEF Makes
<1> QED BY <1>2, <1>4, <1>5 DEF MakesOne, Drafted

LEMMA OptionalMakes ==
  ASSUME Inv, NEW n \in CallIds, NEW kind \in {"schema", "upload", "file"},
         NEW chosen \in OptionLists, NEW limit \in Limits \cup {0}, NEW ok \in BOOLEAN,
         Optional(n, kind, chosen, limit, ok)
  PROVE  MakesOne(n)
<1> DEFINE asked == IF chosen = <<>> THEN {} ELSE {chosen[Len(chosen)]}
           options == [i \in DOMAIN chosen |-> With(client.tenant, chosen[i])]
           good == ok /\ (kind = "file" => limit > 0)
           ops == <<>>
           c == [Draft(kind, ops, asked) EXCEPT !.limit = limit]
<1>1. Make(n, c, options, good)
  BY DEF Optional
<1>2. chosen \in Seq(Named)
  <2> HIDE DEF asked, options, good, c
  <2>1. CASE chosen = <<>>
    BY <2>1
  <2>2. ASSUME NEW s \in Named, chosen = <<s>> PROVE chosen \in Seq(Named)
    BY <2>2
  <2>3. ASSUME NEW s \in Named, NEW t \in Named, chosen = <<s, t>> PROVE chosen \in Seq(Named)
    BY <2>3
  <2> QED BY <2>1, <2>2, <2>3 DEF OptionLists
<1>3. options = chosen
  <2>1. \A i \in DOMAIN chosen : With(client.tenant, chosen[i]) = chosen[i]
    BY <1>2, WithNames
  <2>2. chosen = [i \in DOMAIN chosen |-> chosen[i]]
    BY <1>2
  <2> QED BY <2>1, <2>2
<1>4. chosen \in Seq(Selection) /\ asked \in SUBSET Selection /\ Fits(chosen, asked)
  <2>1. chosen # <<>> => chosen[Len(chosen)] \in Named
    BY <1>2
  <2>2. chosen \in Seq(Selection)
    BY <1>2, Choices
  <2> QED BY <2>1, <2>2, Choices DEF Fits
<1>5. kind \in Kinds /\ kind # "batch"
  BY DEF Kinds, Reads, Dispatched
<1>6. good \in BOOLEAN /\ (good /\ kind = "file" => limit > 0)
  OBVIOUS
<1> HIDE DEF asked, options, good
<1>7. Drafted(c) /\ c.kind = kind /\ c.asked = asked
  <2>1. ops \in Seq(Op) /\ \A i \in DOMAIN ops : Faithful(ops[i])
    BY NoOps
  <2> HIDE DEF ops
  <2>2. c = [Draft(kind, ops, asked) EXCEPT !.limit = limit]
    OBVIOUS
  <2> HIDE DEF ops, c
  <2>3. \E l \in Limits \cup {0} : c = [Draft(kind, ops, asked) EXCEPT !.limit = l]
    BY <2>2
  <2>4. kind \in Kinds /\ asked \in SUBSET Selection
    BY <1>4, <1>5
  <2> QED BY <2>1, <2>3, <2>4, DraftIsDrafted
<1>8. c.limit = limit
  BY DEF Draft
<1> HIDE DEF c
<1>9. Makes(n, c, options, good)
  BY <1>1, <1>3, <1>4, <1>5, <1>6, <1>7, <1>8 DEF Makes
<1> QED BY <1>3, <1>4, <1>6, <1>7, <1>9 DEF MakesOne, Drafted

LEMMA StartMakes ==
  ASSUME Inv, NEW n \in CallIds, Start(n)
  PROVE  MakesOne(n)
<1>1. PICK ok \in BOOLEAN :
        \/ Execute(n, ok)
        \/ \E h \in Handles, op \in Offered : Write(n, h, op, ok)
        \/ \E args, ids \in Given, s \in Selection : Invoke(n, args, ids, s, ok)
        \/ \E h \in Handles, whole \in BOOLEAN : Read(n, h, "get", whole, ok)
        \/ \E h \in Handles : Read(n, h, "list", TRUE, ok)
        \/ \E chosen \in OptionLists : Optional(n, "schema", chosen, 0, ok)
        \/ \E chosen \in OptionLists : Optional(n, "upload", chosen, 0, ok)
        \/ \E chosen \in OptionLists, limit \in Limits : Optional(n, "file", chosen, limit, ok)
  BY DEF Start, Get, List, EntitySchema, UploadFileReference, ReadFileReferenceRuntime
<1>2. CASE Execute(n, ok)
  BY <1>2, ExecuteMakes
<1>3. CASE \E h \in Handles, op \in Offered : Write(n, h, op, ok)
  BY <1>3, WriteMakes
<1>4. CASE \E args, ids \in Given, s \in Selection : Invoke(n, args, ids, s, ok)
  BY <1>4, InvokeMakes
<1>5. CASE \/ \E h \in Handles, whole \in BOOLEAN : Read(n, h, "get", whole, ok)
           \/ \E h \in Handles : Read(n, h, "list", TRUE, ok)
  BY <1>5, ReadMakes
<1>6. CASE \/ \E chosen \in OptionLists : Optional(n, "schema", chosen, 0, ok)
           \/ \E chosen \in OptionLists : Optional(n, "upload", chosen, 0, ok)
           \/ \E chosen \in OptionLists, limit \in Limits : Optional(n, "file", chosen, limit, ok)
  BY <1>6, OptionalMakes
<1> QED BY <1>1, <1>2, <1>3, <1>4, <1>5, <1>6

-----------------------------------------------------------------------------
(* Steps. *)

\* A step that changes what is known of one call alone.
OnlyCall(n) ==
  /\ UNCHANGED client
  /\ \A m \in CallIds \ {n} : /\ calls'[m] = calls[m] /\ decided'[m] = decided[m]
                            /\ touched'[m] = touched[m] /\ answer'[m] = answer[m]

LEMMA OneCall ==
  ASSUME CallsInv, NEW n \in CallIds, OnlyCall(n),
         CallInv(calls[n], decided[n], touched[n], answer[n])'
  PROVE  CallsInv'
<1> SUFFICES ASSUME NEW m \in CallIds
             PROVE  CallInv(calls[m], decided[m], touched[m], answer[m])'
  BY DEF CallsInv
<1>1. CASE m = n
  BY <1>1
<1>2. CASE m # n
  <2>1. CallInv(calls[m], decided[m], touched[m], answer[m])
    BY DEF CallsInv
  <2>2. client' = client /\ calls'[m] = calls[m] /\ decided'[m] = decided[m]
        /\ touched'[m] = touched[m] /\ answer'[m] = answer[m]
    BY <1>2 DEF OnlyCall
  <2> QED BY <2>1, <2>2 DEF CallInv, Selected
<1> QED BY <1>1, <1>2

\* Making a call.
LEMMA MakeKeepsInv ==
  ASSUME Inv, NEW n \in CallIds, NEW c, NEW options, NEW ok \in BOOLEAN, Makes(n, c, options, ok)
  PROVE  Inv'
<1> DEFINE made == IF ok THEN Sent(c, options) ELSE Invalid(c)
<1>1. /\ Act /\ Unused(n) /\ Kept(n) /\ UNCHANGED <<client, remote, listing>>
      /\ calls' = [calls EXCEPT ![n] = made]
  BY DEF Makes, Make
<1>2. TypeOK /\ ObjectsInv /\ CallsInv
  BY DEF Inv
<1>3. made \in Call /\ CallInv(made, "no", {}, "none") /\ Sendable(made)
  <2>1. client.tenant \in Selection
    BY <1>2 DEF TypeOK, ObjectTypes
  <2> QED BY <2>1, MadeIsInv DEF Makes
<1> HIDE DEF made
<1>4. calls \in [CallIds -> Call]
  BY <1>2 DEF TypeOK, CallTypes
<1>5. calls'[n] = made /\ \A m \in CallIds \ {n} : calls'[m] = calls[m]
  BY <1>1, <1>4
<1>6. decided[n] = "no" /\ touched[n] = {} /\ answer[n] = "none"
  <2>1. calls[n].stage = "none"
    <3>1. n \in Nat
      BY ConstantsAssumption DEF CallIds
    <3> QED BY <1>1, <3>1 DEF Unused
  <2>2. Agreed(calls[n], decided[n], touched[n], answer[n])
    BY <1>2 DEF CallsInv, CallInv
  <2> QED BY <2>1, <2>2 DEF Agreed
<1>7. CallsInv'
  <2>1. OnlyCall(n)
    BY <1>1, <1>5 DEF OnlyCall, remote
  <2>2. CallInv(calls[n], decided[n], touched[n], answer[n])'
    <3>1. decided' = decided /\ touched' = touched /\ answer' = answer /\ client' = client
      BY <1>1 DEF remote
    <3> QED BY <1>3, <1>5, <1>6, <3>1 DEF CallInv, Selected
  <2> QED BY <1>2, <2>1, <2>2, OneCall
<1>8. /\ data' \in [Handles -> [request: Seq(Selection), asked: SUBSET Selection]]
      /\ batch' \in [ops: Seq(Op), target: Selection, asked: SUBSET Selection]
      /\ ObjectsInv'
  <2>1. CASE UNCHANGED <<data, batch>>
    BY <1>2, <2>1 DEF TypeOK, ObjectTypes, ObjectsInv
  <2>2. CASE data' = [h \in Handles |-> NewData] /\ batch' = EmptyBatch
    <3>1. data' \in [Handles -> [request: Seq(Selection), asked: SUBSET Selection]]
      <4>1. NewData \in [request: Seq(Selection), asked: SUBSET Selection]
        BY DEF NewData
      <4> QED BY <2>2, <4>1
    <3>2. EmptyBatch \in [ops: Seq(Op), target: Selection, asked: SUBSET Selection]
      BY Choices DEF EmptyBatch
    <3>3. \A h \in Handles : Fits(data'[h].request, data'[h].asked)
      BY <2>2 DEF NewData, Fits
    <3>4. Fits(TargetOptions(batch'.target), batch'.asked)
      BY <2>2 DEF EmptyBatch, TargetOptions, Fits
    <3>5. batch'.ops = <<>>
      BY <2>2 DEF EmptyBatch
    <3>6. \A i \in DOMAIN batch'.ops : Faithful(batch'.ops[i])
      BY <3>5
    <3> QED BY <2>2, <3>1, <3>2, <3>3, <3>4, <3>6 DEF ObjectsInv
  <2> QED BY <1>1, <2>1, <2>2 DEF Kept
<1>9. TypeOK'
  <2>1. CallTypes'
    <3>1. calls' \in [CallIds -> Call]
      BY <1>1, <1>3, <1>4
    <3>2. \A m \in CallIds : Sendable(calls'[m])
      BY <1>2, <1>3, <1>5 DEF TypeOK, CallTypes
    <3> QED BY <3>1, <3>2 DEF CallTypes, Sendable
  <2>2. ObjectTypes'
    BY <1>1, <1>2, <1>8 DEF TypeOK, ObjectTypes
  <2>3. RemoteTypes'
    BY <1>1, <1>2 DEF TypeOK, RemoteTypes, remote
  <2>4. ListingTypes'
    BY <1>1, <1>2 DEF TypeOK, ListingTypes, Act
  <2> QED BY <2>1, <2>2, <2>3, <2>4 DEF TypeOK
<1> QED BY <1>7, <1>8, <1>9 DEF Inv

\* The platform settles a call: the call itself is as it was.
LEMMA SettleKeepsInv ==
  ASSUME Inv, NEW n \in CallIds, Arrived(n), NEW outcome \in {"applied", "failed"},
         NEW written \in SUBSET Rows, NEW reply, Settle(n, outcome, written, reply),
         reply \in {"result", "noResult", "committed", "rolledBack", "record", "noData", "list",
                   "file", "problem"},
         outcome = "applied" =>
           /\ reply \notin {"problem", "rolledBack"}
           /\ written = UNION {calls[n].ops[i].meant : i \in DOMAIN calls[n].ops},
         outcome = "failed" => written = {} /\ reply \notin {"result", "committed", "record"},
         reply = "record" /\ calls[n].kind = "get" => calls[n].whole
  PROVE  Inv'
<1>1. TypeOK /\ ObjectsInv /\ CallsInv
  BY DEF Inv
<1>2. /\ decided' = [decided EXCEPT ![n] = outcome] /\ touched' = [touched EXCEPT ![n] = written]
      /\ answer' = IF calls[n].stage = "sent" THEN [answer EXCEPT ![n] = reply] ELSE answer
      /\ UNCHANGED <<client, data, batch, calls, listing, acts>>
  BY DEF Settle
<1>3. RemoteTypes
  BY <1>1 DEF TypeOK
<1>4. /\ decided'[n] = outcome /\ touched'[n] = written
      /\ answer'[n] = IF calls[n].stage = "sent" THEN reply ELSE answer[n]
      /\ \A m \in CallIds \ {n} : /\ decided'[m] = decided[m] /\ touched'[m] = touched[m]
                                /\ answer'[m] = answer[m]
  BY <1>2, <1>3 DEF RemoteTypes
<1>5. CallInv(calls[n], "no", touched[n], answer[n])
  <2>1. decided[n] = "no"
    BY DEF Arrived
  <2> QED BY <1>1, <2>1 DEF CallsInv
<1>6. CallInv(calls[n], decided[n], touched[n], answer[n])'
  <2>1. calls[n].stage = "sent" \/ (calls[n].stage = "over" /\ calls[n].result \in {"transport", "unreadable"})
    <3>1. calls[n].stage \in {"none", "sent", "over"}
      BY <1>1 DEF TypeOK, CallTypes, Call
    <3> QED BY <1>5, <3>1 DEF Arrived, CallInv, Agreed
  <2>2. CallInv(calls[n], outcome, written, answer'[n])
    <3>1. Agreed(calls[n], outcome, written, answer'[n])
      BY <1>4, <1>5, <2>1 DEF CallInv, Agreed
    <3>2. Meant(calls[n], outcome, written)
      BY <1>5 DEF CallInv, Meant
    <3> QED BY <1>5, <3>1, <3>2 DEF CallInv
  <2>3. client' = client /\ calls' = calls /\ decided'[n] = outcome /\ touched'[n] = written
    BY <1>2, <1>4
  <2> QED BY <2>2, <2>3 DEF CallInv, Selected
<1>7. CallsInv'
  <2>1. OnlyCall(n)
    BY <1>2, <1>4 DEF OnlyCall
  <2> QED BY <1>1, <1>6, <2>1, OneCall
<1>8. TypeOK'
  <2>1. RemoteTypes'
    BY <1>2, <1>3 DEF RemoteTypes
  <2>2. ObjectTypes' /\ CallTypes' /\ ListingTypes'
    BY <1>1, <1>2 DEF TypeOK, ObjectTypes, CallTypes, ListingTypes
  <2> QED BY <2>1, <2>2 DEF TypeOK
<1>9. ObjectsInv'
  BY <1>1, <1>2 DEF ObjectsInv
<1> QED BY <1>7, <1>8, <1>9 DEF Inv

LEMMA ApplyKeepsInv ==
  ASSUME Inv, NEW n \in CallIds, Apply(n) PROVE Inv'
<1> DEFINE call == calls[n]
<1>1. PICK reply \in Success(call) : Settle(n, "applied", RowsOf(call.ops), reply)
  BY DEF Apply
<1>2. call \in Call /\ (\A i \in DOMAIN call.ops : Faithful(call.ops[i]))
  BY DEF Inv, TypeOK, CallTypes, CallsInv, CallInv, Meant
<1>3. RowsOf(call.ops) = UNION {call.ops[i].meant : i \in DOMAIN call.ops}
  <2>1. \A i \in DOMAIN call.ops : Written(call.ops[i]) = call.ops[i].meant
    BY <1>2 DEF Apply, Faithful
  <2> QED BY <2>1 DEF RowsOf
<1>4. RowsOf(call.ops) \in SUBSET Rows
  <2>1. call.ops \in Seq(Op)
    BY <1>2 DEF Call
  <2>2. \A i \in DOMAIN call.ops : call.ops[i].meant \in SUBSET Rows
    <3> HIDE DEF call
    <3>1. \A i \in DOMAIN call.ops : call.ops[i] \in Op
      BY <2>1
    <3> QED BY <3>1 DEF Op
  <2> QED BY <1>3, <2>2
<1>5. /\ reply \in {"result", "noResult", "committed", "record", "noData", "list", "file"}
      /\ reply = "record" /\ call.kind = "get" => call.whole
  <2>1. call.kind \in {"get", "list", "schema", "bulk", "invoke", "upload", "batch", "file"}
    BY <1>2 DEF Call, Kinds, Reads, Dispatched
  <2>2. CASE call.kind \in Dispatched
    BY <2>2 DEF Success, Dispatched
  <2>3. CASE call.kind = "get"
    BY <2>3 DEF Success, Dispatched
  <2>4. CASE call.kind \in {"list", "schema", "batch", "file"}
    BY <2>4 DEF Success, Dispatched
  <2> QED BY <2>1, <2>2, <2>3, <2>4 DEF Dispatched
<1>6. Arrived(n)
  BY DEF Apply
<1> QED BY <1>1, <1>3, <1>4, <1>5, <1>6, SettleKeepsInv

LEMMA FailKeepsInv ==
  ASSUME Inv, NEW n \in CallIds, NEW i, Fail(n, i) PROVE Inv'
<1>1. calls[n].atomic
  BY DEF Inv, CallsInv, CallInv, Meant
<1>2. PICK reply \in Failure(calls[n]) : Settle(n, "failed", {}, reply)
  BY <1>1 DEF Fail
<1>3. reply \in {"problem", "rolledBack", "noResult"} /\ Arrived(n)
  BY DEF Failure, Fail
<1> QED BY <1>2, <1>3, SettleKeepsInv

\* What a file read says of the body it read.
LEMMA VerdictFits ==
  ASSUME NEW b \in Bodies, NEW limit \in Nat, NEW verdict, verdict = FileVerdict(b, limit)
  PROVE  verdict \in {"content", "limit", "digest", "unreadable"} /\ Fitting(b, limit, verdict)
<1> DEFINE got == ReadUpTo(b, limit)
<1>1. /\ b.size \in Nat /\ b.arrived \in Nat /\ b.arrived <= b.size /\ b.end \in {"eof", "cut"}
      /\ b.intact \in BOOLEAN
  BY ConstantsAssumption DEF Bodies, Body
<1>2. got = IF b.arrived < limit THEN b.arrived ELSE limit
  BY DEF ReadUpTo, Lesser
<1>3. CASE CutWithin(b, limit)
  BY <1>3 DEF FileVerdict, CutWithin, Fitting
<1>4. CASE ~CutWithin(b, limit) /\ got = limit /\ b.arrived > limit
  BY <1>1, <1>4 DEF FileVerdict, Fitting
<1>5. CASE /\ ~CutWithin(b, limit) /\ ~(got = limit /\ b.arrived > limit)
           /\ got = limit /\ b.end = "cut"
  BY <1>5 DEF FileVerdict, Fitting
<1>6. CASE /\ ~CutWithin(b, limit) /\ ~(got = limit /\ b.arrived > limit)
           /\ ~(got = limit /\ b.end = "cut")
  <2>1. verdict = IF Verified(b, got) THEN "content" ELSE "digest"
    BY <1>6 DEF FileVerdict
  <2>2. got = b.arrived /\ b.arrived <= limit
    BY <1>1, <1>2, <1>6
  <2>3. CASE Verified(b, got)
    BY <1>1, <2>1, <2>2, <2>3 DEF Verified, Fitting
  <2>4. CASE ~Verified(b, got)
    BY <1>1, <2>1, <2>2, <2>4 DEF Verified, Fitting
  <2> QED BY <2>3, <2>4
<1> QED BY <1>3, <1>4, <1>5, <1>6

\* A call returns: what it says must agree with what the platform did.
LEMMA ReturnKeepsInv ==
  ASSUME Inv, NEW n \in CallIds, NEW result, NEW file \in SUBSET Bodies, Return(n, result, file),
         result \in {"transport", "unreadable", "problem", "undecodable", "rows", "empty",
                    "committed", "rolledBack", "row", "page", "content", "limit", "digest"},
         result \in {"rows", "committed"} => decided[n] = "applied",
         result \in {"problem", "rolledBack"} => decided[n] = "failed",
         result = "row" /\ calls[n].kind = "get" => calls[n].whole,
         \A b \in file : Fitting(b, calls[n].limit, result)
  PROVE  Inv'
<1> DEFINE c == [calls[n] EXCEPT !.stage = "over", !.result = result, !.file = file]
<1>1. TypeOK /\ ObjectsInv /\ CallsInv
  BY DEF Inv
<1>2. calls[n] \in Call /\ calls[n].stage = "sent"
  BY <1>1 DEF TypeOK, CallTypes, Return
<1>3. /\ calls' = [calls EXCEPT ![n] = c] /\ answer' = [answer EXCEPT ![n] = "none"]
      /\ UNCHANGED <<client, data, batch, decided, touched, listing, acts>>
  BY DEF Return
<1>4. c \in Call
  BY <1>2 DEF Call
<1>5. /\ c.stage = "over" /\ c.result = result /\ c.file = file /\ c.kind = calls[n].kind
      /\ c.ops = calls[n].ops /\ c.atomic = calls[n].atomic /\ c.whole = calls[n].whole
      /\ c.limit = calls[n].limit /\ c.sent = calls[n].sent /\ c.asked = calls[n].asked
  BY <1>2 DEF Call
<1> HIDE DEF c
<1>6. /\ calls'[n] = c /\ answer'[n] = "none"
      /\ \A m \in CallIds \ {n} : calls'[m] = calls[m] /\ answer'[m] = answer[m]
  BY <1>1, <1>3 DEF TypeOK, CallTypes, RemoteTypes
<1>7. CallInv(calls[n], decided[n], touched[n], answer[n])
  BY <1>1 DEF CallsInv
<1>8. CallInv(c, decided[n], touched[n], "none")
  <2>1. Selected(c)
    BY <1>2, <1>5, <1>7 DEF CallInv, Selected, Agreed
  <2>2. Agreed(c, decided[n], touched[n], "none")
    BY <1>2, <1>5, <1>7 DEF CallInv, Agreed
  <2>3. Meant(c, decided[n], touched[n])
    BY <1>5, <1>7 DEF CallInv, Meant
  <2>4. Judged(c)
    BY <1>5 DEF Judged
  <2> QED BY <2>1, <2>2, <2>3, <2>4 DEF CallInv
<1>9. CallsInv'
  <2>1. OnlyCall(n)
    BY <1>3, <1>6 DEF OnlyCall
  <2>2. CallInv(calls[n], decided[n], touched[n], answer[n])'
    BY <1>3, <1>6, <1>8 DEF CallInv, Selected
  <2> QED BY <1>1, <2>1, <2>2, OneCall
<1>10. TypeOK'
  <2>1. CallTypes'
    BY <1>1, <1>3, <1>4, <1>5, <1>6 DEF TypeOK, CallTypes, Sendable
  <2>2. RemoteTypes'
    BY <1>1, <1>3 DEF TypeOK, RemoteTypes
  <2>3. ObjectTypes' /\ ListingTypes'
    BY <1>1, <1>3 DEF TypeOK, ObjectTypes, ListingTypes
  <2> QED BY <2>1, <2>2, <2>3 DEF TypeOK
<1>11. ObjectsInv'
  BY <1>1, <1>3 DEF ObjectsInv
<1> QED BY <1>9, <1>10, <1>11 DEF Inv

LEMMA FinishKeepsInv ==
  ASSUME Inv, NEW n \in CallIds, Finish(n) PROVE Inv'
<1>1. CallInv(calls[n], decided[n], touched[n], answer[n]) /\ calls[n] \in Call
  BY DEF Inv, CallsInv, TypeOK, CallTypes
<1>2. CASE Receive(n)
  <2> DEFINE result == Decoded(calls[n].kind, answer[n])
  <2>1. Return(n, result, {})
    BY <1>2 DEF Receive
  <2>2. answer[n] \in {"result", "noResult", "committed", "rolledBack", "record", "noData", "list",
                       "problem"}
    BY <1>2 DEF Receive, Inv, TypeOK, RemoteTypes
  <2>3. /\ result \in {"problem", "undecodable", "rows", "empty", "committed", "rolledBack",
                       "row", "page"}
        /\ result \in {"rows", "committed"} => answer[n] \in {"result", "committed"}
        /\ result \in {"problem", "rolledBack"} => answer[n] \in {"problem", "rolledBack"}
        /\ result = "row" => answer[n] = "record"
    BY <2>2 DEF Decoded
  <2> HIDE DEF result
  <2>4. /\ result \in {"rows", "committed"} => decided[n] = "applied"
        /\ result \in {"problem", "rolledBack"} => decided[n] = "failed"
        /\ result = "row" /\ calls[n].kind = "get" => calls[n].whole
    BY <1>1, <2>3 DEF CallInv, Agreed
  <2> QED BY <2>1, <2>3, <2>4, ReturnKeepsInv
<1>3. ASSUME NEW b \in Bodies, ReceiveFile(n, b) PROVE Inv'
  <2> DEFINE result == FileVerdict(b, calls[n].limit)
  <2>1. Return(n, result, {b})
    BY <1>3 DEF ReceiveFile
  <2>2. calls[n].limit \in Nat
    <3>1. calls[n].limit \in Limits \cup {0}
      BY <1>1 DEF Call
    <3>2. Limits \subseteq Nat
      BY ConstantsAssumption
    <3>3. CASE calls[n].limit \in Limits
      BY <3>2, <3>3
    <3>4. CASE calls[n].limit = 0
      BY <3>4
    <3> QED BY <3>1, <3>3, <3>4
  <2>3. result \in {"content", "limit", "digest", "unreadable"} /\ Fitting(b, calls[n].limit, result)
    <3> DEFINE limit == calls[n].limit
    <3>1. limit \in Nat /\ result = FileVerdict(b, limit)
      BY <2>2
    <3> HIDE DEF limit, result
    <3>2. result \in {"content", "limit", "digest", "unreadable"} /\ Fitting(b, limit, result)
      BY <3>1, VerdictFits
    <3> QED BY <3>2 DEF limit
  <2> HIDE DEF result
  <2>4. \A c \in {b} : Fitting(c, calls[n].limit, result)
    BY <2>3
  <2> QED BY <2>1, <2>3, <2>4, ReturnKeepsInv
<1>4. ASSUME NEW result \in {"transport", "unreadable", "undecodable", "empty"}, Return(n, result, {})
      PROVE  Inv'
  BY <1>4, ReturnKeepsInv
<1>5. CASE TransportFails(n) \/ BodyUnreadable(n) \/ ProxyAnswers(n)
  BY <1>4, <1>5 DEF TransportFails, BodyUnreadable, ProxyAnswers
<1> QED BY <1>2, <1>3, <1>5 DEF Finish

-----------------------------------------------------------------------------
(* The program's objects and the listing. *)

\* A step that leaves calls and platform alone keeps the invariant of calls.
LEMMA CallsUntouched ==
  ASSUME Inv, UNCHANGED <<client, calls, decided, touched, answer>>
  PROVE  CallsInv' /\ CallTypes' /\ RemoteTypes'
<1>1. CallTypes' /\ RemoteTypes'
  BY DEF Inv, TypeOK, CallTypes, RemoteTypes
<1>2. ASSUME NEW n \in CallIds PROVE CallInv(calls[n], decided[n], touched[n], answer[n])'
  <2>1. CallInv(calls[n], decided[n], touched[n], answer[n])
    BY DEF Inv, CallsInv
  <2> QED BY <2>1 DEF CallInv, Selected
<1> QED BY <1>1, <1>2 DEF CallsInv

LEMMA PrepareKeepsInv == ASSUME Inv, Prepare PROVE Inv'
<1>1. ObjectTypes /\ ObjectsInv /\ ListingTypes
  BY DEF Inv, TypeOK
<1>2. UNCHANGED <<client, calls, decided, touched, answer, listing>> /\ acts' = acts + 1
  BY DEF Prepare, NewBatch, Data, Derive, SelectBatch, AddOp, Act, remote
<1>3. ListingTypes'
  BY <1>1, <1>2 DEF ListingTypes
\* A new value of one handle, and a new batch.
<1>4. ASSUME NEW h \in Handles, NEW d,
             d \in [request: Seq(Selection), asked: SUBSET Selection],
             Fits(d.request, d.asked), data' = [data EXCEPT ![h] = d], UNCHANGED batch
      PROVE  ObjectTypes' /\ ObjectsInv'
  <2>1. data' \in [Handles -> [request: Seq(Selection), asked: SUBSET Selection]]
    BY <1>1, <1>4 DEF ObjectTypes
  <2>2. \A g \in Handles : data'[g] = IF g = h THEN d ELSE data[g]
    BY <1>1, <1>4 DEF ObjectTypes
  <2>3. \A g \in Handles : Fits(data'[g].request, data'[g].asked)
    BY <1>1, <1>4, <2>2 DEF ObjectsInv
  <2> QED BY <1>1, <1>2, <1>4, <2>1, <2>3 DEF ObjectTypes, ObjectsInv
<1>5. ASSUME NEW b, b \in [ops: Seq(Op), target: Selection, asked: SUBSET Selection],
             Fits(TargetOptions(b.target), b.asked), \A i \in DOMAIN b.ops : Faithful(b.ops[i]),
             batch' = b, UNCHANGED data
      PROVE  ObjectTypes' /\ ObjectsInv'
  BY <1>1, <1>2, <1>5 DEF ObjectTypes, ObjectsInv
<1>6. ASSUME NEW h \in Handles, Data(h) PROVE ObjectTypes' /\ ObjectsInv'
  <2>1. NewData \in [request: Seq(Selection), asked: SUBSET Selection]
    BY DEF NewData
  <2>2. Fits(NewData.request, NewData.asked)
    BY DEF NewData, Fits
  <2> QED BY <1>4, <1>6, <2>1, <2>2 DEF Data
<1>7. ASSUME NEW h \in Handles, NEW g \in Handles, NEW s \in Named, Derive(h, g, s)
      PROVE  ObjectTypes' /\ ObjectsInv'
  <2> DEFINE d == [request |-> <<s>>, asked |-> {s}]
  <2>1. s \in Selection
    BY Choices
  <2>2. d \in [request: Seq(Selection), asked: SUBSET Selection] /\ Fits(d.request, d.asked)
    BY <2>1 DEF Fits
  <2>3. data' = [data EXCEPT ![h] = d] /\ UNCHANGED batch
    BY <1>7, WithNames DEF Derive
  <2> HIDE DEF d
  <2> QED BY <1>4, <2>2, <2>3
<1>8. ASSUME NewBatch PROVE ObjectTypes' /\ ObjectsInv'
  <2>1. EmptyBatch \in [ops: Seq(Op), target: Selection, asked: SUBSET Selection]
    BY Choices DEF EmptyBatch
  <2>2. EmptyBatch.ops = <<>> /\ Fits(TargetOptions(EmptyBatch.target), EmptyBatch.asked)
    BY DEF EmptyBatch, Fits, TargetOptions
  <2>3. \A i \in DOMAIN EmptyBatch.ops : Faithful(EmptyBatch.ops[i])
    BY <2>2
  <2> QED BY <1>5, <1>8, <2>1, <2>2, <2>3 DEF NewBatch
<1>9. batch \in [ops: Seq(Op), target: Selection, asked: SUBSET Selection]
  BY <1>1 DEF ObjectTypes
<1>10. ASSUME NEW s \in Named, SelectBatch(s) PROVE ObjectTypes' /\ ObjectsInv'
  <2> DEFINE b == [batch EXCEPT !.target = s, !.asked = {s}]
  <2>1. s \in Selection
    BY Choices
  <2>2. /\ b \in [ops: Seq(Op), target: Selection, asked: SUBSET Selection]
        /\ b.target = s /\ b.asked = {s} /\ b.ops = batch.ops
    BY <1>9, <2>1
  <2>3. batch' = b /\ UNCHANGED data
    BY <1>10, WithNames DEF SelectBatch
  <2> HIDE DEF b
  <2>4. Fits(TargetOptions(b.target), b.asked)
    BY <2>1, <2>2, TargetFits
  <2>5. \A i \in DOMAIN b.ops : Faithful(b.ops[i])
    BY <1>1, <2>2 DEF ObjectsInv
  <2> QED BY <1>5, <2>2, <2>3, <2>4, <2>5
<1>11. ASSUME NEW op \in Offered, AddOp(op) PROVE ObjectTypes' /\ ObjectsInv'
  <2> DEFINE b == [batch EXCEPT !.ops = Append(batch.ops, op)]
  <2>1. op \in Op /\ Faithful(op)
    BY OfferedIsFaithful
  <2>2. batch' = b /\ UNCHANGED data
    BY <1>11 DEF AddOp
  <2> DEFINE ops == Append(batch.ops, op)
  <2>3. batch.ops \in Seq(Op)
    BY <1>9
  <2>4. ops \in Seq(Op)
    BY <2>1, <2>3
  <2>5. b = [batch EXCEPT !.ops = ops]
    OBVIOUS
  <2> HIDE DEF ops
  <2>6. /\ b \in [ops: Seq(Op), target: Selection, asked: SUBSET Selection]
        /\ b.target = batch.target /\ b.asked = batch.asked /\ b.ops = ops
    BY <1>9, <2>4, <2>5
  <2> HIDE DEF b
  <2>7. \A i \in DOMAIN b.ops : Faithful(b.ops[i])
    BY <1>1, <2>1, <2>3, <2>6 DEF ObjectsInv, ops
  <2>8. Fits(TargetOptions(b.target), b.asked)
    BY <1>1, <2>6 DEF ObjectsInv
  <2> QED BY <1>5, <2>2, <2>6, <2>7, <2>8
<1>12. ObjectTypes' /\ ObjectsInv'
  BY <1>6, <1>7, <1>8, <1>10, <1>11 DEF Prepare
<1> QED BY <1>2, <1>3, <1>12, CallsUntouched DEF Inv, TypeOK

LEMMA ListingKeepsInv == ASSUME Inv, StartListing \/ Page PROVE Inv'
<1>1. UNCHANGED <<client, data, batch, calls, decided, touched, answer>>
  BY DEF StartListing, Page, remote
<1>2. ObjectTypes' /\ ObjectsInv'
  BY <1>1 DEF Inv, TypeOK, ObjectTypes, ObjectsInv
<1>3. ListingTypes'
  <2>1. ListingTypes
    BY DEF Inv, TypeOK
  <2>2. \A stage \in {"paging", "tools", "repeated", "error"} :
          Over(stage) \in [stage: {"none", "paging", "tools", "repeated", "error"},
                          at: Cursors \cup {None}, seen: SUBSET Cursors, twice: BOOLEAN,
                          odd: BOOLEAN]
    BY DEF Over, Idle
  <2>3. CASE StartListing
    BY <2>1, <2>2, <2>3 DEF StartListing, Act, ListingTypes
  <2>4. CASE Page
    <3>1. acts' = acts
      BY <2>4 DEF Page
    <3>2. CASE listing' = Over("error")
      BY <2>1, <2>2, <3>1, <3>2 DEF ListingTypes
    <3>3. ASSUME NEW next \in Cursors \cup {None}, listing' = AfterPage(listing, next)
          PROVE  ListingTypes'
      <4>1. CASE next = None \/ next = listing.at
        BY <2>1, <2>2, <3>1, <3>3, <4>1 DEF AfterPage, ListingTypes
      <4>2. CASE next # None /\ next # listing.at
        BY <2>1, <3>1, <3>3, <4>2 DEF AfterPage, On, ListingTypes
      <4> QED BY <4>1, <4>2
    <3> QED BY <2>4, <3>2, <3>3 DEF Page
  <2> QED BY <2>3, <2>4
<1> QED BY <1>1, <1>2, <1>3, CallsUntouched DEF Inv, TypeOK

-----------------------------------------------------------------------------
(* The theorems. *)

LEMMA InitInv == Init => Inv
<1> SUFFICES ASSUME Init PROVE Inv
  OBVIOUS
<1>1. EmptyBatch \in [ops: Seq(Op), target: Selection, asked: SUBSET Selection]
  BY Choices DEF EmptyBatch
<1>2. ObjectTypes
  BY <1>1 DEF Init, ObjectTypes, NewData
<1>3. ObjectsInv
  <2>1. EmptyBatch.ops = <<>> /\ Fits(TargetOptions(EmptyBatch.target), EmptyBatch.asked)
    BY DEF EmptyBatch, Fits, TargetOptions
  <2>2. \A h \in Handles : Fits(data[h].request, data[h].asked)
    BY DEF Init, NewData, Fits
  <2>3. \A i \in DOMAIN batch.ops : Faithful(batch.ops[i])
    BY <2>1 DEF Init
  <2> QED BY <2>1, <2>2, <2>3 DEF Init, ObjectsInv
<1> DEFINE c == Draft("get", <<>>, {})
<1>4. /\ c \in Call /\ c.stage = "none" /\ c.result = "none" /\ c.file = {}
      /\ c.atomic /\ c.ops = <<>>
  BY Choices DEF Draft, Call, Kinds, Reads
<1>5. CallInv(c, "no", {}, "none") /\ Sendable(c)
  <2> HIDE DEF c
  <2>1. Selected(c) /\ Judged(c) /\ Sendable(c)
    BY <1>4 DEF Selected, Judged, Sendable
  <2>2. Agreed(c, "no", {}, "none")
    BY <1>4 DEF Agreed
  <2>3. Meant(c, "no", {})
    BY <1>4 DEF Meant
  <2> QED BY <2>1, <2>2, <2>3 DEF CallInv
<1>6. calls = [n \in CallIds |-> c]
  BY DEF Init
<1> HIDE DEF c
<1>7. CallTypes /\ CallsInv
  BY <1>4, <1>5, <1>6 DEF Init, CallTypes, CallsInv
<1>8. RemoteTypes /\ ListingTypes
  BY DEF Init, RemoteTypes, ListingTypes, Idle
<1> QED BY <1>2, <1>3, <1>7, <1>8 DEF Inv, TypeOK

LEMMA NextKeepsInv == Inv /\ [Next]_vars => Inv'
<1> SUFFICES ASSUME Inv, [Next]_vars PROVE Inv'
  OBVIOUS
<1>1. CASE Prepare
  BY <1>1, PrepareKeepsInv
<1>2. ASSUME NEW n \in CallIds, Start(n) PROVE Inv'
  <2>1. PICK c \in Call, options \in Seq(Selection), good \in BOOLEAN : Makes(n, c, options, good)
    BY <1>2, StartMakes DEF MakesOne
  <2> QED BY <2>1, MakeKeepsInv
<1>3. ASSUME NEW n \in CallIds, Serve(n) PROVE Inv'
  BY <1>3, ApplyKeepsInv, FailKeepsInv DEF Serve
<1>4. ASSUME NEW n \in CallIds, Finish(n) PROVE Inv'
  BY <1>4, FinishKeepsInv
<1>5. CASE StartListing \/ Page
  BY <1>5, ListingKeepsInv
<1>6. CASE UNCHANGED vars
  <2>1. UNCHANGED <<client, data, batch, calls, decided, touched, answer, listing, acts>>
    BY <1>6 DEF vars, remote
  <2>2. ObjectTypes' /\ ObjectsInv' /\ ListingTypes'
    BY <2>1 DEF Inv, TypeOK, ObjectTypes, ObjectsInv, ListingTypes
  <2> QED BY <2>1, <2>2, CallsUntouched DEF Inv, TypeOK
<1> QED BY <1>1, <1>2, <1>3, <1>4, <1>5, <1>6 DEF Next

LEMMA Invariance == Spec => []Inv
BY InitInv, NextKeepsInv, PTL DEF Spec

\* Every variable keeps to its values; a batch on the wire holds an operation, and a
\* file read on the wire a limit.
THEOREM TypeCorrect == Spec => []TypeOK
<1>1. Inv => TypeOK
  BY DEF Inv
<1> QED BY <1>1, Invariance, PTL

\* The last target tenant chosen on a data client, a batch or a call is the one its
\* request carries, and without a choice it is the client's own.
THEOREM SelectionCorrect == Spec => []LastSelectionWins
<1>1. Inv => LastSelectionWins
  BY DEF Inv, CallsInv, CallInv, Selected, LastSelectionWins
<1> QED BY <1>1, Invariance, PTL

\* What a call returns agrees with what the platform did with it, whatever the network
\* and a proxy did to its request and its answer.
THEOREM OutcomeCorrect == Spec => []OutcomeIsTrue
<1>1. ASSUME Inv PROVE OutcomeIsTrue
  <2> SUFFICES ASSUME NEW n \in CallIds
      PROVE  /\ calls[n].result \in {"rows", "committed"} => decided[n] = "applied"
             /\ calls[n].result \in {"problem", "rolledBack", "invalid", "noBaseURL", "conflict",
                                     "noSelection"} => touched[n] = {}
             /\ calls[n].result = "row" /\ calls[n].kind = "get" => calls[n].whole
    BY DEF OutcomeIsTrue
  <2>1. Agreed(calls[n], decided[n], touched[n], answer[n])
    BY <1>1 DEF Inv, CallsInv, CallInv
  <2> QED BY <2>1 DEF Agreed
<1> QED BY <1>1, Invariance, PTL

\* A write that is applied writes the rows the program named and no others.
THEOREM WritesCorrect == Spec => []WritesWhatWasNamed
<1>1. Inv => WritesWhatWasNamed
  BY DEF Inv, CallsInv, CallInv, Meant, WritesWhatWasNamed
<1> QED BY <1>1, Invariance, PTL

\* What a file read returns fits the body it read and the limit it was given.
THEOREM FileVerdictCorrect == Spec => []FileVerdictFits
<1>1. Inv => FileVerdictFits
  BY DEF Inv, CallsInv, CallInv, Judged, Fitting, FileVerdictFits
<1> QED BY <1>1, Invariance, PTL
=============================================================================
