----------------------------- MODULE ErrorJourney -----------------------------
(***************************************************************************)
(* One failure on its way through handlers, sidecars, the platform and     *)
(* clients (errs/errs.go, errs/render.go, runtime/serve.go,                *)
(* runtime/jsonrpc.go, platform/errors.go).                                *)
(*                                                                         *)
(* An `error` is a pointer: objects are a heap, and a chain is followed    *)
(* from one to its cause.  A package-level error is one object every call  *)
(* may return, which is why who assigns a cause to what matters.  What no  *)
(* one can reach once a step is over is not kept.                          *)
(*                                                                         *)
(* A call goes from a handler that returns an error, through the sidecar's *)
(* JSON-RPC answer and the platform's rendering, to the client of another  *)
(* handler, which may return it in its turn.  Sidecars load no catalogue.  *)
(***************************************************************************)
EXTENDS Naturals, Sequences, FiniteSetsExt

CONSTANTS
  Calls,      \* calls in progress
  Codes,      \* types that handlers raise
  Misspelled, \* those that ValidCode refuses, none and that of about:blank included
  Shared,     \* the type of a package-level error
  Members,    \* how much the members of a raised error take
  Catalogues, \* what the platform may declare, from code to [retryable, title]
  TypeBytes,  \* how much a type takes, from code
  DefaultMaxBytes, OffendingTypeMaxBytes,
  MaxBytes,   \* the platform's error_max_bytes
  MaxObjects  \* bound: errors made

CodeInternalError == "platform.internal_error"
CodeUndeclaredType == "platform.undeclared_type"
CodeTooLarge == "platform.error_too_large"
NotRegistered == "handler.not_registered"
TypeTransportFailed == "transport.request_failed"
TypeUnreadableResponse == "transport.unreadable_response"

NoCode == "none"
TransportTypes == {TypeTransportFailed, TypeUnreadableResponse}
OwnCodes == TransportTypes
              \cup {CodeInternalError, CodeUndeclaredType, CodeTooLarge, NotRegistered}
AllCodes == Codes \cup OwnCodes

ASSUME ConstantsAssumption ==
  /\ Shared \in Codes /\ Codes \cap {CodeTooLarge, NoCode} = {}
  /\ Misspelled \subseteq Codes \ OwnCodes
  /\ Members \subseteq Nat
  /\ \A c \in Catalogues :
       DOMAIN c \subseteq AllCodes
         /\ \A d \in DOMAIN c : c[d] \in [retryable: BOOLEAN, title: Nat]
  /\ Catalogues # {}
  /\ TypeBytes \in [AllCodes -> Nat]
  /\ DefaultMaxBytes \in Nat /\ OffendingTypeMaxBytes \in Nat /\ MaxBytes \in Nat
  /\ MaxObjects \in Nat

VARIABLES
  objects,   \* errors made, each a Node
  hand,      \* the error a call's handler holds, 0 for none
  wire,      \* what travels to whoever made the call
  catalogue, \* the platform's process catalogue
  owed,      \* history: the type a call's answer is to carry
  received   \* history: what the client made of the last answer

vars == <<objects, hand, wire, catalogue, owed, received>>

-----------------------------------------------------------------------------
(* Errors. *)

\* The members an Error has on a wire; offending is that of a replacement.
Error == [code: AllCodes, retryable: BOOLEAN, members: Nat, title: Nat,
          offending: AllCodes \cup {NoCode}]

\* New in a process without a catalogue.
New(code, members) ==
  [code |-> code, retryable |-> FALSE, members |-> members, title |-> 0,
   offending |-> NoCode]

\* A Go error: an Error, what fmt.Errorf returns, or dispatch.ErrNotFound; what
\* is the Error it is, and says nothing of another kind.
Kinds == {"error", "plain", "not found"}
Node(kind, what, cause) == [kind |-> kind, what |-> what, cause |-> cause]
Raised(e, cause) == Node("error", e, cause)
Other(kind, cause) == Node(kind, New(CodeInternalError, 0), cause)

IsError(i) == objects[i].kind = "error"

\* transportErr fills in what a catalogue would have.
TransportErr(code) == [New(code, 1) EXCEPT !.retryable = TRUE, !.title = 1]

\* The k-th error of the chain that starts at i, 0 beyond its end.
Chain(i) ==
  LET link[k \in Nat] ==
        IF k = 0 THEN i
        ELSE IF link[k - 1] \in DOMAIN objects THEN objects[link[k - 1]].cause ELSE 0
  IN [k \in 0..Len(objects) |-> link[k]]

Links(i) == {Chain(i)[k] : k \in DOMAIN Chain(i)} \cap DOMAIN objects

\* From: the first Error that errors.As meets, 0 for none.
From(i) ==
  LET at == {k \in DOMAIN Chain(i) : Chain(i)[k] \in DOMAIN objects /\ IsError(Chain(i)[k])}
  IN IF at = {} THEN 0 ELSE Chain(i)[Min(at)]

-----------------------------------------------------------------------------
(* Bounds and rendering. *)

Bytes(e) == TypeBytes[e.code] + e.members + e.title

Bound(maxBytes) == IF maxBytes = 0 THEN DefaultMaxBytes ELSE maxBytes

Fits(e, maxBytes) == Bytes(e) <= Bound(maxBytes)

\* Mutant: the offending type is not cut.
TooLargeUncut(e) ==
  [New(CodeTooLarge, TypeBytes[e.code]) EXCEPT !.offending = e.code]

TooLarge(e) ==
  [New(CodeTooLarge, Min({TypeBytes[e.code], OffendingTypeMaxBytes}))
     EXCEPT !.offending = e.code]

Bounded(e, maxBytes) == IF Fits(e, maxBytes) THEN e ELSE TooLarge(e)

\* render: what the type declares replaces what the producer said.
Rendered(e, c) ==
  IF e.code \in DOMAIN c
    THEN [e EXCEPT !.retryable = c[e.code].retryable, !.title = c[e.code].title]
    ELSE [e EXCEPT !.retryable = FALSE,
                   !.title = IF CodeUndeclaredType \in DOMAIN c
                               THEN c[CodeUndeclaredType].title ELSE 0]

\* The title that rendering by c gives a replacement.
TooLargeTitle(c) == Rendered(New(CodeTooLarge, 0), c).title

\* Bounds that a replacement fits; no code checks that error_max_bytes is one.
RoomForReplacement ==
  \A c \in Catalogues, m \in {0, MaxBytes} :
    TypeBytes[CodeTooLarge] + OffendingTypeMaxBytes + TooLargeTitle(c) <= Bound(m)

\* Mutant: the bound is checked before the title is there.
RenderBoundedFirst(e, c) == Rendered(Bounded(e, MaxBytes), c)

Render(e, c) ==
  IF Fits(Rendered(e, c), MaxBytes) THEN Rendered(e, c) ELSE Rendered(TooLarge(e), c)

-----------------------------------------------------------------------------
(* A handler. *)

Parties == {"nobody", "sidecar", "platform", "proxy"}
Nothing == [by |-> "nobody", problem |-> FALSE, error |-> New(CodeInternalError, 0)]

Running(s) == wire[s].by = "nobody"

Room(n) == Len(objects) + n <= MaxObjects

\* The handler of call s now holds a new error.
Holds(s, node) ==
  /\ Running(s) /\ Room(1)
  /\ objects' = Append(objects, node)
  /\ hand' = [hand EXCEPT ![s] = Len(objects) + 1]
  /\ UNCHANGED <<wire, catalogue, owed, received>>

\* errs.New, alone or with what the handler holds as its cause.
Raise(s, code, members) == \E cause \in {0, hand[s]} : Holds(s, Raised(New(code, members), cause))

\* fmt.Errorf with %w, or dispatch's own error.
Wrap(s) == hand[s] # 0 /\ Holds(s, Other("plain", hand[s]))
Fail(s) == \E kind \in Kinds \ {"error"} : Holds(s, Other(kind, 0))

\* An error every call may return.
ReturnsShared(s) ==
  /\ Running(s)
  /\ hand' = [hand EXCEPT ![s] = 1]
  /\ UNCHANGED <<objects, wire, catalogue, owed, received>>

\* What writeHandlerError makes of the error i.
Answer(i) ==
  IF From(i) # 0 THEN objects[From(i)].what
  ELSE IF \E j \in Links(i) : objects[j].kind = "not found" THEN New(NotRegistered, 1)
  ELSE New(CodeInternalError, 0)

\* Mutant: the wrapping text is attached to the Error found, not to a copy.
ReturnAttaching(s) ==
  /\ Running(s) /\ hand[s] # 0
  /\ wire' = [wire EXCEPT ![s] =
       [by |-> "sidecar", problem |-> FALSE, error |-> Bounded(Answer(hand[s]), 0)]]
  /\ owed' = [owed EXCEPT ![s] = Answer(hand[s]).code]
  /\ objects' = IF From(hand[s]) \in {0, hand[s]} THEN objects
                ELSE [objects EXCEPT ![From(hand[s])].cause = hand[s]]
  /\ UNCHANGED <<hand, catalogue, received>>

\* The handler returns what it holds: writeHandlerError, NewErrorResponse. The
\* cause of the copy it makes of a wrapped Error is only logged.
Return(s) ==
  /\ Running(s) /\ hand[s] # 0
  /\ wire' = [wire EXCEPT ![s] =
       [by |-> "sidecar", problem |-> FALSE, error |-> Bounded(Answer(hand[s]), 0)]]
  /\ owed' = [owed EXCEPT ![s] = Answer(hand[s]).code]
  /\ UNCHANGED <<objects, hand, catalogue, received>>

-----------------------------------------------------------------------------
(* The platform, and what lies between it and the client. *)

Answers(s) ==
  /\ wire[s].by = "sidecar"
  /\ wire' = [wire EXCEPT ![s] =
       [by |-> "platform", problem |-> TRUE, error |-> Render(wire[s].error, catalogue)]]
  /\ UNCHANGED <<objects, hand, catalogue, owed, received>>

\* Something else answers; its body may look like an error object. Only the platform
\* says problem and names a code in it (isProblemResponse).
Interposes(s, code, problem) ==
  /\ wire[s].by = "platform" /\ (problem => code \in Misspelled)
  /\ wire' = [wire EXCEPT ![s] =
       [by |-> "proxy", problem |-> problem, error |-> New(code, 0)]]
  /\ UNCHANGED <<objects, hand, catalogue, owed, received>>

Reload(c) ==
  /\ catalogue' = c
  /\ UNCHANGED <<objects, hand, wire, owed, received>>

-----------------------------------------------------------------------------
(* The client of the handler that made the call. *)

\* How much of an answer's body was read, within MaxResponseSize.
Reads == {"nothing", "part", "all"}

\* It holds a new error; under it, the one it replaced.
Gets(s, e, replaced, read) ==
  LET under == IF e = replaced THEN <<>> ELSE <<Raised(replaced, 0)>>
      top   == Raised(e, IF e = replaced THEN 0 ELSE Len(objects) + 1)
  IN /\ Room(Len(under) + 1)
     /\ objects' = objects \o Append(under, top)
     /\ hand' = [hand EXCEPT ![s] = Len(objects) + Len(under) + 1]
     /\ received' = [received EXCEPT ![s] = [by |-> wire[s].by, read |-> read, error |-> e]]
     /\ wire' = [wire EXCEPT ![s] = Nothing]
     /\ UNCHANGED <<catalogue, owed>>

\* Mutant: a body that carries a type is believed, whatever its media type.
ReceiveAny(s) ==
  /\ wire[s].by \in {"platform", "proxy"}
  /\ Gets(s, Bounded(wire[s].error, 0), wire[s].error, "all")

\* A client's own error replaces none.
Mints(s, code, read) == Gets(s, TransportErr(code), TransportErr(code), read)

\* errorFromResponse: the media type says whether the platform is speaking; the body
\* must then be an object whose type is spelled as a code.
Believed(w) == w.problem /\ w.error.code \notin Misspelled

Receive(s) ==
  /\ wire[s].by \in {"platform", "proxy"}
  /\ IF Believed(wire[s])
       THEN Gets(s, Bounded(wire[s].error, 0), wire[s].error, "all")
       ELSE Mints(s, TypeUnreadableResponse, "all")

\* errorFromUnreadable, after the headers: the body breaks off, or exceeds
\* MaxResponseSize. What is left of it is no JSON, where a stream is opened.
BreakOff(s) ==
  /\ wire[s].by \in {"platform", "proxy"}
  /\ Mints(s, TypeUnreadableResponse, "part")

\* errorFromTransport: no response at all.
Lose(s) ==
  /\ ~Running(s)
  /\ Mints(s, TypeTransportFailed, "nothing")

-----------------------------------------------------------------------------
Init ==
  /\ objects = <<Raised(New(Shared, 0), 0)>>
  /\ hand = [s \in Calls |-> 0]
  /\ wire = [s \in Calls |-> Nothing]
  /\ catalogue \in Catalogues
  /\ owed = [s \in Calls |-> NoCode]
  /\ received = [s \in Calls |-> [by |-> "nobody", read |-> "nothing", error |-> Nothing.error]]

Next ==
  \/ \E s \in Calls :
       \/ \E code \in Codes, members \in Members : Raise(s, code, members)
       \/ Wrap(s) \/ Fail(s) \/ ReturnsShared(s) \/ Return(s)
       \/ Answers(s) \/ Receive(s) \/ BreakOff(s) \/ Lose(s)
       \/ \E code \in Codes, problem \in BOOLEAN : Interposes(s, code, problem)
  \/ \E c \in Catalogues : Reload(c)

Spec == Init /\ [][Next]_vars

-----------------------------------------------------------------------------
(***************************************************************************)
(* Properties.                                                             *)
(***************************************************************************)

\* An error is a replacement or offends no one, and a replacement is small.
Sound == {e \in Error :
            IF e.code = CodeTooLarge
              THEN e.offending # NoCode /\ e.members <= OffendingTypeMaxBytes
              ELSE e.offending = NoCode}

\* Types; what replaces an error names its type in at most so many bytes.
TypeOK ==
  /\ objects \in Seq([kind: Kinds, what: Sound, cause: Nat])
  /\ hand \in [Calls -> 0..Len(objects)]
  /\ wire \in [Calls -> [by: Parties, problem: BOOLEAN, error: Sound]]
  /\ catalogue \in Catalogues
  /\ owed \in [Calls -> AllCodes \cup {NoCode}]
  /\ received \in [Calls -> [by: Parties, read: Reads, error: Sound]]

\* Because assigns to its receiver: were it ever called on an error that its own
\* cause wraps, errors.Is and Error() would not return.
ChainsEnd == \A i \in DOMAIN objects : objects[i].cause < i

\* Nothing that answers one call changes an error another may be reading
\* (writeHandlerError, "a copy the caller never sees").
ErrorsNeverChange ==
  [][\A i \in DOMAIN objects : i \in DOMAIN objects' /\ objects'[i] = objects[i]]_vars

\* writeHandlerError, "identity surviving the hop is the whole point": whoever
\* passes it on, the type the handler raised is the one its caller gets, in person
\* or named by its replacement, unless the client did not read the whole answer or no
\* code is spelled as that type is; and what the platform did not say does not pass for
\* its word.
IdentitySurvives ==
  \A s \in Calls :
    LET got == received[s] IN
    /\ wire[s].by \in {"sidecar", "platform"} =>
         owed[s] \in {wire[s].error.code, wire[s].error.offending}
    /\ got.by \in {"sidecar", "proxy"} => got.error.code \in TransportTypes
    /\ got.read # "all" => got.by = "nobody" \/ got.error.code \in TransportTypes
    /\ got.by = "platform" /\ got.read = "all" /\ Running(s) =>
         \/ owed[s] \in {got.error.code, got.error.offending}
         \/ owed[s] \in Misspelled /\ got.error.code = TypeUnreadableResponse

\* Bounded, "the one validate-or-replace, called at every ... boundary": no answer
\* exceeds the bound of who sent it, title and all. It takes bounds that the
\* replacement itself fits, RoomForReplacement.
AnswersFit ==
  \A s \in Calls :
    /\ wire[s].by = "sidecar" => Fits(wire[s].error, 0)
    /\ wire[s].by = "platform" => Fits(wire[s].error, MaxBytes)
=============================================================================
