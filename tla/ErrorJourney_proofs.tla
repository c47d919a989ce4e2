------------------------ MODULE ErrorJourney_proofs ------------------------
(***************************************************************************)
(* Proofs about ErrorJourney, for any calls, types, catalogues and sizes.  *)
(*                                                                         *)
(* TypeOK is inductive: it says that a replacement is small, which is what *)
(* the two properties about bounds rest on.  Both also need that the       *)
(* bounds leave room for a replacement, which no code ensures: it is the   *)
(* hypothesis RoomForReplacement.                                          *)
(***************************************************************************)
EXTENDS ErrorJourney, WellFoundedInduction, TLAPS

-----------------------------------------------------------------------------
(* The operators. *)

\* Min returns a least member of a set of naturals.
LEMMA MinProperty ==
  ASSUME NEW S \in SUBSET Nat, S # {}
  PROVE  Min(S) \in S /\ \A n \in S : Min(S) <= n
<1> DEFINE Less == {ss \in Nat \X Nat : ss[1] < ss[2]}
<1>1. IsWellFoundedOn(Less, Nat)
  BY NatLessThanWellFounded DEF OpToRel
<1>2. PICK m \in S : \A n \in S : ~ (<<n, m>> \in Less)
  <2> HIDE DEF Less
  <2> QED BY <1>1, WFMin
<1>3. \A n \in S : m <= n
  <2> SUFFICES ASSUME NEW n \in S PROVE m <= n
    OBVIOUS
  <2>1. ~ (n < m)
    <3> n \in Nat /\ m \in Nat /\ ~ (<<n, m>> \in Less)
      BY <1>2
    <3> QED OBVIOUS
  <2> QED BY <2>1
<1> QED BY <1>3 DEF Min

\* The Error that From finds is one of those made.
LEMMA FromIsMade ==
  ASSUME NEW i, From(i) # 0, TypeOK, i \in 0..Len(objects)
  PROVE  From(i) \in DOMAIN objects /\ IsError(From(i))
<1> DEFINE at == {k \in DOMAIN Chain(i) : Chain(i)[k] \in DOMAIN objects /\ IsError(Chain(i)[k])}
<1>1. From(i) = IF at = {} THEN 0 ELSE Chain(i)[Min(at)]
  BY DEF From
<1>2. Len(objects) \in Nat /\ DOMAIN objects = 1..Len(objects)
  BY DEF TypeOK
<1>3. at # {} /\ From(i) = Chain(i)[Min(at)]
  <2> HIDE DEF at
  <2> QED BY <1>1
<1>4. at \in SUBSET Nat
  BY <1>2, 0..Len(objects) \subseteq Nat DEF Chain
<1>5. Min(at) \in at
  <2> HIDE DEF at
  <2> QED BY <1>3, <1>4, MinProperty
<1> QED BY <1>3, <1>5

\* No type is the one that replacements alone name.
LEMMA CodesAreNamed == NoCode \notin AllCodes /\ CodeTooLarge \in AllCodes
BY ConstantsAssumption
DEF AllCodes, OwnCodes, TransportTypes, NoCode, CodeInternalError, CodeUndeclaredType, CodeTooLarge,
    NotRegistered, TypeTransportFailed, TypeUnreadableResponse

\* A raised error is no replacement.
LEMMA NewIsSound ==
  ASSUME NEW code \in AllCodes \ {CodeTooLarge}, NEW members \in Nat
  PROVE  New(code, members) \in Sound /\ New(code, members).code = code
BY DEF New, Sound, Error

\* Nor is one that the client mints.
LEMMA TransportErrIsSound ==
  ASSUME NEW code \in TransportTypes
  PROVE  TransportErr(code) \in Sound /\ TransportErr(code).code = code
BY DEF TransportErr, New, Sound, Error, AllCodes, OwnCodes, TransportTypes, CodeTooLarge,
       TypeTransportFailed, TypeUnreadableResponse

\* A replacement names what it replaces and is small.
LEMMA TooLargeIsSound ==
  ASSUME NEW e \in Sound
  PROVE  /\ TooLarge(e) \in Sound
         /\ TooLarge(e).code = CodeTooLarge
         /\ TooLarge(e).offending = e.code
         /\ TooLarge(e).title = 0
<1> DEFINE cut == Min({TypeBytes[e.code], OffendingTypeMaxBytes})
<1>1. e.code \in AllCodes /\ e \in Error
  BY DEF Sound, Error
<1>2. TypeBytes[e.code] \in Nat /\ OffendingTypeMaxBytes \in Nat
  BY <1>1, ConstantsAssumption
<1>3. cut \in Nat /\ cut <= OffendingTypeMaxBytes
  BY <1>2, MinProperty
<1>4. TooLarge(e) = [code |-> CodeTooLarge, retryable |-> FALSE, members |-> cut, title |-> 0,
                     offending |-> e.code]
  <2>1. TooLarge(e) = [New(CodeTooLarge, cut) EXCEPT !.offending = e.code]
    BY Zenon DEF TooLarge
  <2> HIDE DEF cut
  <2> QED BY <2>1 DEF New
<1> HIDE DEF cut
<1>5. TooLarge(e) \in Error
  BY <1>1, <1>3, <1>4, CodesAreNamed DEF Error
<1> QED BY <1>1, <1>3, <1>4, <1>5, CodesAreNamed DEF Sound

\* Validate or replace.
LEMMA BoundedIsSound ==
  ASSUME NEW e \in Sound, NEW m
  PROVE  /\ Bounded(e, m) \in Sound
         /\ e.code \in {Bounded(e, m).code, Bounded(e, m).offending}
BY TooLargeIsSound DEF Bounded

\* A declaration decides retryability and title, and nothing else.
LEMMA RenderedIsSound ==
  ASSUME NEW e \in Sound, NEW c \in Catalogues
  PROVE  /\ Rendered(e, c) \in Sound
         /\ Rendered(e, c).code = e.code
         /\ Rendered(e, c).members = e.members
         /\ Rendered(e, c).offending = e.offending
         /\ e.code = CodeTooLarge => Rendered(e, c).title = TooLargeTitle(c)
<1>1. \A d \in DOMAIN c : c[d].retryable \in BOOLEAN /\ c[d].title \in Nat
  BY ConstantsAssumption
<1>2. PICK r \in BOOLEAN, t \in Nat :
        /\ Rendered(e, c) = [e EXCEPT !.retryable = r, !.title = t]
        /\ e.code = CodeTooLarge => t = TooLargeTitle(c)
  <2>1. CASE e.code \in DOMAIN c
    BY <1>1, <2>1 DEF Rendered, TooLargeTitle, New
  <2>2. CASE e.code \notin DOMAIN c
    BY <1>1, <2>2 DEF Rendered, TooLargeTitle, New
  <2> QED BY <2>1, <2>2
<1> QED BY <1>2 DEF Sound, Error

\* What is rendered is rendered or a replacement is.
LEMMA RenderIsSound ==
  ASSUME NEW e \in Sound, NEW c \in Catalogues
  PROVE  /\ Render(e, c) \in Sound
         /\ \/ Render(e, c).code = e.code /\ Render(e, c).offending = e.offending
            \/ Render(e, c).code = CodeTooLarge /\ Render(e, c).offending = e.code
BY RenderedIsSound, TooLargeIsSound DEF Render

\* What writeHandlerError answers.
LEMMA AnswerIsSound ==
  ASSUME TypeOK, NEW i \in 0..Len(objects)
  PROVE  Answer(i) \in Sound /\ Answer(i).code \in AllCodes
<1>1. CASE From(i) # 0
  <2>1. From(i) \in DOMAIN objects
    BY <1>1, FromIsMade
  <2>2. objects[From(i)].what \in Sound
    <3> DEFINE N == [kind: Kinds, what: Sound, cause: Nat]
    <3>1. objects \in Seq(N)
      BY DEF TypeOK
    <3>2. objects[From(i)] \in N
      <4> HIDE DEF N
      <4> QED BY <2>1, <3>1
    <3> QED BY <3>2
  <2>3. Answer(i) = objects[From(i)].what
    BY <1>1 DEF Answer
  <2> QED BY <2>2, <2>3 DEF Sound, Error
<1>2. CASE From(i) = 0
  <2>1. /\ NotRegistered \in AllCodes \ {CodeTooLarge}
        /\ CodeInternalError \in AllCodes \ {CodeTooLarge}
    BY DEF AllCodes, OwnCodes, NotRegistered, CodeInternalError, CodeTooLarge
  <2>2. New(NotRegistered, 1) \in Sound /\ New(CodeInternalError, 0) \in Sound
    BY <2>1, NewIsSound
  <2>3. Answer(i) \in {New(NotRegistered, 1), New(CodeInternalError, 0)}
    BY <1>2 DEF Answer
  <2> QED BY <2>2, <2>3 DEF Sound, Error
<1> QED BY <1>1, <1>2

-----------------------------------------------------------------------------
(* Types, and the ends of chains. *)

\* The package-level error is there.
SharedIsMade == Len(objects) >= 1

Inv == TypeOK /\ ChainsEnd /\ SharedIsMade

\* A step may add errors and does no more to them.
ObjectsKept == \A i \in DOMAIN objects : i \in DOMAIN objects' /\ objects'[i] = objects[i]

LEMMA BlankIsSound == New(CodeInternalError, 0) \in Sound
<1> CodeInternalError \in AllCodes \ {CodeTooLarge}
  BY DEF AllCodes, OwnCodes, CodeInternalError, CodeTooLarge
<1> QED BY NewIsSound

LEMMA InitInv == Init => Inv
<1> SUFFICES ASSUME Init PROVE Inv
  OBVIOUS
<1>1. Shared \in AllCodes \ {CodeTooLarge}
  BY ConstantsAssumption DEF AllCodes, OwnCodes
<1>2. New(Shared, 0) \in Sound
  BY <1>1, NewIsSound
<1>3. objects = <<[kind |-> "error", what |-> New(Shared, 0), cause |-> 0]>>
  BY DEF Init, Raised, Node
<1>4. objects \in Seq([kind: Kinds, what: Sound, cause: Nat]) /\ Len(objects) = 1
  BY <1>2, <1>3 DEF Kinds
<1>5. ChainsEnd
  BY <1>3 DEF ChainsEnd
<1> QED
  BY <1>4, <1>5, BlankIsSound DEF Init, Inv, TypeOK, Nothing, Parties, Reads, SharedIsMade

\* A handler's error is made under one it held.
LEMMA HoldsInv ==
  ASSUME Inv, NEW s \in Calls, NEW node \in [kind: Kinds, what: Sound, cause: 0..Len(objects)],
         Holds(s, node)
  PROVE  Inv' /\ ObjectsKept
<1> USE DEF Inv, Holds
<1>1. Len(objects) \in Nat /\ node \in [kind: Kinds, what: Sound, cause: Nat]
  BY DEF TypeOK
<1>2. /\ objects' \in Seq([kind: Kinds, what: Sound, cause: Nat])
      /\ Len(objects') = Len(objects) + 1
      /\ \A i \in DOMAIN objects : objects'[i] = objects[i]
      /\ objects'[Len(objects) + 1] = node
  BY <1>1 DEF TypeOK
<1>3. TypeOK'
  BY <1>1, <1>2 DEF TypeOK
<1>4. ChainsEnd'
  BY <1>1, <1>2 DEF TypeOK, ChainsEnd
<1>5. ObjectsKept
  BY <1>1, <1>2 DEF TypeOK, ObjectsKept
<1> QED BY <1>1, <1>2, <1>3, <1>4, <1>5 DEF SharedIsMade

\* What the client gives its handler stands on at most the error it replaced.
LEMMA GetsInv ==
  ASSUME Inv, NEW s \in Calls, NEW e \in Sound, NEW replaced \in Sound, NEW read \in Reads,
         Gets(s, e, replaced, read)
  PROVE  Inv' /\ ObjectsKept
<1> DEFINE N == [kind: Kinds, what: Sound, cause: Nat]
           under == IF e = replaced THEN <<>> ELSE <<Raised(replaced, 0)>>
           top   == Raised(e, IF e = replaced THEN 0 ELSE Len(objects) + 1)
<1>0. Len(objects) \in Nat
  BY DEF Inv, TypeOK
<1>1. objects \in Seq(N) /\ Len(objects) \in Nat
  BY DEF Inv, TypeOK
<1>2. /\ top \in N /\ top.cause < Len(objects) + Len(under) + 1
      /\ Raised(replaced, 0) \in N /\ Raised(replaced, 0).cause = 0
  <2>1. Raised(replaced, 0) \in N /\ Raised(replaced, 0).cause = 0
    BY DEF Raised, Node, Kinds
  <2>2. CASE e = replaced
    <3>1. top = Raised(e, 0)
      BY <2>2
    <3>2. Raised(e, 0) \in N /\ Raised(e, 0).cause = 0
      BY DEF Raised, Node, Kinds
    <3>3. Len(under) = 0
      BY <2>2
    <3> HIDE DEF under, top, N
    <3> QED BY <1>0, <2>1, <3>1, <3>2, <3>3
  <2>3. CASE e # replaced
    <3>1. Len(under) = 1 /\ top = Raised(e, Len(objects) + 1)
      BY <2>3
    <3>2. Raised(e, Len(objects) + 1) \in N /\ Raised(e, Len(objects) + 1).cause = Len(objects) + 1
      BY <1>0 DEF Raised, Node, Kinds
    <3> HIDE DEF under, top, N
    <3> QED BY <1>0, <2>1, <3>1, <3>2
  <2> QED BY <2>1, <2>2, <2>3
<1>3. /\ objects' = objects \o Append(under, top)
      /\ hand' = [hand EXCEPT ![s] = Len(objects) + Len(under) + 1]
      /\ received' = [received EXCEPT ![s] = [by |-> wire[s].by, read |-> read, error |-> e]]
      /\ wire' = [wire EXCEPT ![s] = Nothing]
      /\ UNCHANGED <<catalogue, owed>>
  BY DEF Gets
<1>4. /\ objects' \in Seq(N)
      /\ Len(objects') = Len(objects) + Len(under) + 1
      /\ \A i \in DOMAIN objects : objects'[i] = objects[i]
      /\ \A i \in (DOMAIN objects') \ DOMAIN objects : objects'[i].cause < i
  <2>1. CASE e = replaced
    <3>1. objects' = objects \o <<top>> /\ Len(under) = 0
      BY <2>1, <1>3
    <3>2. top \in N /\ top.cause < Len(objects) + 1
      <4> HIDE DEF top, N
      <4> QED BY <3>1, <1>1, <1>2
    <3> HIDE DEF top, N, under
    <3>3. /\ objects' \in Seq(N) /\ Len(objects') = Len(objects) + 1
          /\ \A i \in DOMAIN objects : objects'[i] = objects[i]
          /\ objects'[Len(objects) + 1] = top /\ DOMAIN objects' = 1..Len(objects) + 1
      BY <3>1, <3>2, <1>1
    <3> QED BY <3>1, <3>2, <3>3, <1>1
  <2>2. CASE e # replaced
    <3>1. objects' = objects \o <<Raised(replaced, 0), top>> /\ Len(under) = 1
      BY <2>2, <1>3
    <3> DEFINE first == Raised(replaced, 0)
    <3>2. first \in N /\ first.cause = 0 /\ top \in N /\ top.cause < Len(objects) + 2
      <4> HIDE DEF top, N
      <4> QED BY <3>1, <1>1, <1>2
    <3>3. objects' = objects \o <<first, top>>
      BY <3>1
    <3> HIDE DEF top, N, under, first
    <3>4. /\ objects' \in Seq(N) /\ Len(objects') = Len(objects) + 2
          /\ \A i \in DOMAIN objects : objects'[i] = objects[i]
          /\ objects'[Len(objects) + 1] = first /\ objects'[Len(objects) + 2] = top
          /\ DOMAIN objects' = 1..Len(objects) + 2
      BY <3>2, <3>3, <1>1
    <3> QED BY <3>1, <3>2, <3>4, <1>1
  <2> QED BY <2>1, <2>2
<1>5. Len(under) \in Nat
  OBVIOUS
<1>6. TypeOK'
  <2> HIDE DEF under, top
  <2> QED BY <1>1, <1>3, <1>4, <1>5, BlankIsSound DEF Inv, TypeOK, Nothing, Parties
<1>7. ChainsEnd'
  <2> HIDE DEF under, top, N
  <2> QED BY <1>1, <1>4, <1>5 DEF Inv, ChainsEnd
<1>8. SharedIsMade'
  <2> HIDE DEF under, top, N
  <2> QED BY <1>0, <1>4, <1>5 DEF Inv, SharedIsMade
<1>9. ObjectsKept
  <2> HIDE DEF under, top, N
  <2> QED BY <1>1, <1>4, <1>5 DEF ObjectsKept
<1> QED BY <1>6, <1>7, <1>8, <1>9 DEF Inv

LEMMA NextInv == Inv /\ [Next]_vars => Inv' /\ ObjectsKept
<1> SUFFICES ASSUME Inv, [Next]_vars PROVE Inv' /\ ObjectsKept
  OBVIOUS
<1>1. Len(objects) \in Nat /\ hand \in [Calls -> 0..Len(objects)]
  BY DEF Inv, TypeOK
<1>2. wire \in [Calls -> [by: Parties, problem: BOOLEAN, error: Sound]] /\ catalogue \in Catalogues
  BY DEF Inv, TypeOK
<1>3. ASSUME NEW s \in Calls, NEW code \in Codes, NEW members \in Members, Raise(s, code, members)
      PROVE  Inv' /\ ObjectsKept
  <2>1. code \in AllCodes \ {CodeTooLarge} /\ members \in Nat
    BY ConstantsAssumption DEF AllCodes, OwnCodes
  <2>2. PICK cause \in 0..Len(objects) : Holds(s, Raised(New(code, members), cause))
    BY <1>1, <1>3 DEF Raise
  <2>3. Raised(New(code, members), cause) \in [kind: Kinds, what: Sound, cause: 0..Len(objects)]
    BY <2>1, NewIsSound DEF Raised, Node, Kinds
  <2> QED BY <2>2, <2>3, HoldsInv
<1>4. ASSUME NEW s \in Calls, Wrap(s) \/ Fail(s)
      PROVE  Inv' /\ ObjectsKept
  <2>1. PICK kind \in Kinds, cause \in 0..Len(objects) : Holds(s, Other(kind, cause))
    <3>1. CASE Wrap(s)
      BY <1>1, <3>1 DEF Wrap, Kinds
    <3>2. CASE Fail(s)
      BY <1>1, <3>2 DEF Fail
    <3> QED BY <1>4, <3>1, <3>2
  <2>2. Other(kind, cause) \in [kind: Kinds, what: Sound, cause: 0..Len(objects)]
    BY BlankIsSound DEF Other, Node
  <2> QED BY <2>1, <2>2, HoldsInv
<1>5. ASSUME NEW s \in Calls, ReturnsShared(s)
      PROVE  Inv' /\ ObjectsKept
  <2>1. 1 \in 0..Len(objects)
    BY <1>1 DEF Inv, SharedIsMade
  <2> QED BY <1>5, <2>1 DEF ReturnsShared, Inv, TypeOK, ChainsEnd, SharedIsMade, ObjectsKept
<1>6. ASSUME NEW s \in Calls, Return(s)
      PROVE  Inv' /\ ObjectsKept
  <2>1. Answer(hand[s]) \in Sound /\ Answer(hand[s]).code \in AllCodes
    BY <1>1, AnswerIsSound DEF Inv
  <2>2. Bounded(Answer(hand[s]), 0) \in Sound
    BY <2>1, BoundedIsSound
  <2> QED BY <1>6, <2>1, <2>2 DEF Return, Inv, TypeOK, ChainsEnd, SharedIsMade, ObjectsKept, Parties
<1>7. ASSUME NEW s \in Calls, Answers(s)
      PROVE  Inv' /\ ObjectsKept
  <2>1. Render(wire[s].error, catalogue) \in Sound
    BY <1>2, RenderIsSound
  <2> QED BY <1>7, <2>1 DEF Answers, Inv, TypeOK, ChainsEnd, SharedIsMade, ObjectsKept, Parties
<1>8. ASSUME NEW s \in Calls, NEW code \in Codes, NEW problem \in BOOLEAN,
             Interposes(s, code, problem)
      PROVE  Inv' /\ ObjectsKept
  <2>1. New(code, 0) \in Sound
    BY ConstantsAssumption, NewIsSound DEF AllCodes, OwnCodes
  <2> QED BY <1>8, <2>1 DEF Interposes, Inv, TypeOK, ChainsEnd, SharedIsMade, ObjectsKept, Parties
<1>9. ASSUME NEW s \in Calls, Receive(s) \/ BreakOff(s) \/ Lose(s)
      PROVE  Inv' /\ ObjectsKept
  <2>1. /\ wire[s].error \in Sound /\ Bounded(wire[s].error, 0) \in Sound
        /\ TransportErr(TypeUnreadableResponse) \in Sound
        /\ TransportErr(TypeTransportFailed) \in Sound
    BY <1>2, BoundedIsSound, TransportErrIsSound DEF TransportTypes
  <2>2. \E e \in Sound, replaced \in Sound, read \in Reads : Gets(s, e, replaced, read)
    BY <1>9, <2>1 DEF Receive, BreakOff, Lose, Mints, Reads
  <2> QED BY <2>2, GetsInv
<1>10. ASSUME NEW c \in Catalogues, Reload(c)
       PROVE  Inv' /\ ObjectsKept
  BY <1>10 DEF Reload, Inv, TypeOK, ChainsEnd, SharedIsMade, ObjectsKept
<1>11. CASE UNCHANGED vars
  BY <1>11 DEF vars, Inv, TypeOK, ChainsEnd, SharedIsMade, ObjectsKept
<1> QED BY <1>3, <1>4, <1>5, <1>6, <1>7, <1>8, <1>9, <1>10, <1>11 DEF Next

\* Every answer is an error or the small replacement of one, whatever is made of
\* it on its way (tooLarge, "bounded by construction").
THEOREM TypeCorrect == Spec => []TypeOK
<1>1. Inv => TypeOK
  BY DEF Inv
<1> QED BY InitInv, NextInv, <1>1, PTL DEF Spec

\* However errors are wrapped, returned, received and passed on, no chain of
\* causes runs into a circle (writeHandlerError copies what it attaches to).
THEOREM ChainsAlwaysEnd == Spec => []ChainsEnd
<1>1. Inv => ChainsEnd
  BY DEF Inv
<1> QED BY InitInv, NextInv, <1>1, PTL DEF Spec

-----------------------------------------------------------------------------
(* What is answered changes no error. *)

\* No step of any call writes to an error that is there: a handler may keep or
\* share one while it is being answered (writeHandlerError, "a copy the caller
\* never sees").
THEOREM ErrorsStayAsMade == Spec => ErrorsNeverChange
<1>1. Inv /\ [Next]_vars => [ObjectsKept]_vars
  BY NextInv
<1> QED BY <1>1, InitInv, NextInv, PTL DEF Spec, ErrorsNeverChange, ObjectsKept

-----------------------------------------------------------------------------
(* Bounds. *)

\* Where a replacement has room, one with any title it may be given fits.
LEMMA ReplacementFits ==
  ASSUME RoomForReplacement, NEW e \in Sound, e.code = CodeTooLarge, NEW m \in {0, MaxBytes},
         e.title = 0 \/ \E c \in Catalogues : e.title = TooLargeTitle(c)
  PROVE  Fits(e, m)
<1>1. PICK c \in Catalogues : e.title <= TooLargeTitle(c)
  <2>1. \A c \in Catalogues : TooLargeTitle(c) \in Nat
    <3>1. New(CodeTooLarge, 0).title = 0 /\ New(CodeTooLarge, 0).code = CodeTooLarge
      BY DEF New
    <3>2. \A c \in Catalogues : \A d \in DOMAIN c : c[d].title \in Nat
      BY ConstantsAssumption
    <3> QED BY <3>2 DEF TooLargeTitle, Rendered, New
  <2>2. \E c \in Catalogues : TRUE
    BY ConstantsAssumption
  <2> QED BY <2>1, <2>2 DEF Sound, Error
<1>2. TypeBytes[CodeTooLarge] + OffendingTypeMaxBytes + TooLargeTitle(c) <= Bound(m)
  BY DEF RoomForReplacement
<1>3. e.members \in Nat /\ e.title \in Nat /\ e.members <= OffendingTypeMaxBytes
  BY DEF Sound, Error
<1>4. TypeBytes[CodeTooLarge] \in Nat /\ OffendingTypeMaxBytes \in Nat /\ Bound(m) \in Nat
  BY ConstantsAssumption, CodesAreNamed DEF Bound
<1>5. TooLargeTitle(c) \in Nat
  <2>1. \A d \in DOMAIN c : c[d].title \in Nat
    BY ConstantsAssumption
  <2> QED BY <2>1 DEF TooLargeTitle, Rendered, New
<1> QED BY <1>1, <1>2, <1>3, <1>4, <1>5 DEF Fits, Bytes

\* At the boundaries that give no title.
LEMMA BoundedFits ==
  ASSUME RoomForReplacement, NEW e \in Sound
  PROVE  Fits(Bounded(e, 0), 0)
BY TooLargeIsSound, ReplacementFits DEF Bounded

\* At the one that does.
LEMMA RenderFits ==
  ASSUME RoomForReplacement, NEW e \in Sound, NEW c \in Catalogues
  PROVE  Fits(Render(e, c), MaxBytes)
<1>1. /\ Rendered(TooLarge(e), c) \in Sound
      /\ Rendered(TooLarge(e), c).code = CodeTooLarge
      /\ Rendered(TooLarge(e), c).title = TooLargeTitle(c)
  BY TooLargeIsSound, RenderedIsSound
<1>2. Fits(Rendered(TooLarge(e), c), MaxBytes)
  BY <1>1, ReplacementFits
<1> QED BY <1>2 DEF Render

\* No answer exceeds the bound of who sent it, provided that the bounds leave room
\* for a replacement with its title (Bounded, Render).
THEOREM AnswersAlwaysFit ==
  ASSUME RoomForReplacement
  PROVE  Spec => []AnswersFit
<1>1. Init => AnswersFit
  BY DEF Init, AnswersFit, Nothing
<1>2. Inv /\ AnswersFit /\ [Next]_vars => AnswersFit'
  <2> SUFFICES ASSUME Inv, AnswersFit, [Next]_vars PROVE AnswersFit'
    OBVIOUS
  <2>1. /\ wire \in [Calls -> [by: Parties, problem: BOOLEAN, error: Sound]]
        /\ catalogue \in Catalogues /\ hand \in [Calls -> 0..Len(objects)]
    BY DEF Inv, TypeOK
  <2>2. ASSUME UNCHANGED wire PROVE AnswersFit'
    BY <2>2 DEF AnswersFit
  <2>3. ASSUME NEW s \in Calls, Return(s) PROVE AnswersFit'
    <3>1. Fits(Bounded(Answer(hand[s]), 0), 0)
      BY <2>1, AnswerIsSound, BoundedFits DEF Inv
    <3> QED BY <2>1, <2>3, <3>1 DEF Return, AnswersFit
  <2>4. ASSUME NEW s \in Calls, Answers(s) PROVE AnswersFit'
    <3>1. Fits(Render(wire[s].error, catalogue), MaxBytes)
      BY <2>1, RenderFits
    <3> QED BY <2>1, <2>4, <3>1 DEF Answers, AnswersFit
  <2>5. ASSUME NEW s \in Calls, NEW code \in Codes, NEW problem \in BOOLEAN,
               Interposes(s, code, problem)
        PROVE  AnswersFit'
    BY <2>1, <2>5 DEF Interposes, AnswersFit
  <2>6. ASSUME NEW s \in Calls, Receive(s) \/ BreakOff(s) \/ Lose(s) PROVE AnswersFit'
    <3>1. wire' = [wire EXCEPT ![s] = Nothing]
      BY <2>6 DEF Receive, BreakOff, Lose, Mints, Gets
    <3> QED BY <2>1, <3>1 DEF AnswersFit, Nothing
  <2> QED BY <2>2, <2>3, <2>4, <2>5, <2>6
       DEF Next, vars, Raise, Wrap, Fail, Holds, ReturnsShared, Reload
<1> QED BY <1>1, <1>2, InitInv, NextInv, PTL DEF Spec

-----------------------------------------------------------------------------
(* Identity. *)

\* What keeps the name: an answer's type is one that was raised, the platform sends a
\* problem and nobody else one with a code, and a replacement it sends has a title of
\* some catalogue's, so that no boundary replaces it again.
NameIsKept ==
  \A s \in Calls :
    /\ wire[s].by \in {"sidecar", "platform"} => owed[s] \in AllCodes
    /\ wire[s].by = "platform" => wire[s].problem
    /\ wire[s].by = "proxy" => ~ Believed(wire[s])
    /\ wire[s].by = "platform" /\ wire[s].error.code = CodeTooLarge =>
         \E c \in Catalogues : wire[s].error.title = TooLargeTitle(c)

IdentityInv == IdentitySurvives /\ NameIsKept

\* Rendering leaves the name on an answer that bears it.
LEMMA RenderKeepsName ==
  ASSUME RoomForReplacement, NEW e \in Sound, NEW c \in Catalogues,
         NEW code \in AllCodes, code \in {e.code, e.offending}
  PROVE  /\ code \in {Render(e, c).code, Render(e, c).offending}
         /\ Render(e, c).code = CodeTooLarge => Render(e, c).title = TooLargeTitle(c)
<1>1. CASE e.code = CodeTooLarge
  <2>1. Fits(Rendered(e, c), MaxBytes)
    BY <1>1, RenderedIsSound, ReplacementFits
  <2> QED BY <1>1, <2>1, RenderedIsSound DEF Render
<1>2. CASE e.code # CodeTooLarge
  <2>1. code = e.code
    BY <1>2, CodesAreNamed DEF Sound
  <2> QED BY <1>2, <2>1, RenderIsSound, RenderedIsSound, TooLargeIsSound DEF Render
<1> QED BY <1>1, <1>2

\* So does the client's own bound.
LEMMA BoundedKeepsName ==
  ASSUME RoomForReplacement, NEW e \in Sound, NEW code \in AllCodes, code \in {e.code, e.offending},
         e.code = CodeTooLarge => \E c \in Catalogues : e.title = TooLargeTitle(c)
  PROVE  code \in {Bounded(e, 0).code, Bounded(e, 0).offending}
<1>1. CASE e.code = CodeTooLarge
  BY <1>1, ReplacementFits DEF Bounded
<1>2. CASE e.code # CodeTooLarge
  <2>1. code = e.code
    BY <1>2, CodesAreNamed DEF Sound
  <2> QED BY <2>1, BoundedIsSound
<1> QED BY <1>1, <1>2

LEMMA InitIdentity == Init => IdentityInv
<1> SUFFICES ASSUME Init PROVE IdentityInv
  OBVIOUS
<1>1. \A s \in Calls : wire[s].by = "nobody" /\ wire[s].problem = FALSE /\ received[s].by = "nobody"
  BY DEF Init, Nothing
<1>2. IdentitySurvives
  BY <1>1 DEF IdentitySurvives
<1>3. NameIsKept
  BY <1>1 DEF NameIsKept
<1> QED BY <1>2, <1>3 DEF IdentityInv

LEMMA NextIdentity ==
  ASSUME RoomForReplacement, Inv, IdentityInv, [Next]_vars
  PROVE  IdentityInv'
<1> USE DEF IdentityInv, IdentitySurvives, NameIsKept, Running
<1>1. /\ wire \in [Calls -> [by: Parties, problem: BOOLEAN, error: Sound]]
      /\ catalogue \in Catalogues /\ hand \in [Calls -> 0..Len(objects)]
      /\ owed \in [Calls -> AllCodes \cup {NoCode}]
      /\ received \in [Calls -> [by: Parties, read: Reads, error: Sound]]
  BY DEF Inv, TypeOK
<1>2. ASSUME UNCHANGED <<wire, owed, received>> PROVE IdentityInv'
  BY <1>2
<1>3. ASSUME NEW s \in Calls, Return(s) PROVE IdentityInv'
  <2>1. /\ Answer(hand[s]).code \in AllCodes
        /\ Answer(hand[s]).code \in {Bounded(Answer(hand[s]), 0).code,
                                     Bounded(Answer(hand[s]), 0).offending}
    BY <1>1, AnswerIsSound, BoundedIsSound DEF Inv
  <2> QED BY <1>1, <1>3, <2>1 DEF Return
<1>4. ASSUME NEW s \in Calls, Answers(s) PROVE IdentityInv'
  <2>1. /\ owed[s] \in {Render(wire[s].error, catalogue).code,
                        Render(wire[s].error, catalogue).offending}
        /\ Render(wire[s].error, catalogue).code = CodeTooLarge =>
             Render(wire[s].error, catalogue).title = TooLargeTitle(catalogue)
    BY <1>1, <1>4, RenderKeepsName DEF Answers
  <2> QED BY <1>1, <1>4, <2>1 DEF Answers
<1>5. ASSUME NEW s \in Calls, NEW code \in Codes, NEW problem \in BOOLEAN,
             Interposes(s, code, problem)
      PROVE  IdentityInv'
  BY <1>1, <1>5 DEF Interposes, Believed, New
<1>6. ASSUME NEW s \in Calls, Receive(s) \/ BreakOff(s) \/ Lose(s) PROVE IdentityInv'
  <2>1. \A code \in TransportTypes : TransportErr(code).code = code
    BY TransportErrIsSound
  <2> DEFINE Told(e, read) ==
               /\ read # "all" => e.code \in TransportTypes
               /\ wire[s].by \in {"sidecar", "proxy"} => e.code \in TransportTypes
               /\ wire[s].by = "platform" /\ read = "all" =>
                    \/ owed[s] \in {e.code, e.offending}
                    \/ owed[s] \in Misspelled /\ e.code = TypeUnreadableResponse
  <2>2. ASSUME NEW e, NEW replaced, NEW read \in Reads, Gets(s, e, replaced, read), Told(e, read)
        PROVE  IdentityInv'
    <3>1. /\ wire' = [wire EXCEPT ![s] = Nothing]
          /\ received' = [received EXCEPT ![s] = [by |-> wire[s].by, read |-> read, error |-> e]]
          /\ UNCHANGED owed
      BY <2>2 DEF Gets
    <3> QED BY <1>1, <2>2, <3>1 DEF Nothing
  <2>3. TypeTransportFailed \in TransportTypes /\ TypeUnreadableResponse \in TransportTypes
    BY DEF TransportTypes
  <2>4. CASE Lose(s)
    <3>1. Gets(s, TransportErr(TypeTransportFailed), TransportErr(TypeTransportFailed), "nothing")
      BY <2>4 DEF Lose, Mints
    <3>2. Told(TransportErr(TypeTransportFailed), "nothing")
      BY <2>1, <2>3
    <3> HIDE DEF Told
    <3> QED BY <2>2, <3>1, <3>2 DEF Reads
  <2>5. CASE BreakOff(s)
    <3>1. Gets(s, TransportErr(TypeUnreadableResponse), TransportErr(TypeUnreadableResponse), "part")
      BY <2>5 DEF BreakOff, Mints
    <3>2. Told(TransportErr(TypeUnreadableResponse), "part")
      BY <2>1, <2>3
    <3> HIDE DEF Told
    <3> QED BY <2>2, <3>1, <3>2 DEF Reads
  <2>6. CASE Receive(s) /\ ~ Believed(wire[s])
    <3>1. Gets(s, TransportErr(TypeUnreadableResponse), TransportErr(TypeUnreadableResponse), "all")
      BY <2>6 DEF Receive, Mints
    <3>2. wire[s].by = "platform" => owed[s] \in Misspelled
      <4> SUFFICES ASSUME wire[s].by = "platform" PROVE owed[s] \in Misspelled
        OBVIOUS
      <4>1. wire[s].error.code \in Misspelled
        BY <2>6 DEF Believed
      <4>2. wire[s].error \in Sound /\ wire[s].error.code # CodeTooLarge
        BY <1>1, <4>1, ConstantsAssumption DEF OwnCodes
      <4>3. owed[s] \in AllCodes /\ owed[s] \in {wire[s].error.code, wire[s].error.offending}
        OBVIOUS
      <4> QED BY <4>1, <4>2, <4>3, CodesAreNamed DEF Sound
    <3>3. Told(TransportErr(TypeUnreadableResponse), "all")
      BY <2>1, <2>3, <3>2
    <3> HIDE DEF Told
    <3> QED BY <2>2, <3>1, <3>3 DEF Reads
  <2>7. CASE Receive(s) /\ Believed(wire[s])
    <3>1. wire[s].by = "platform"
      BY <2>7 DEF Receive
    <3>2. owed[s] \in {Bounded(wire[s].error, 0).code, Bounded(wire[s].error, 0).offending}
      BY <1>1, <3>1, BoundedKeepsName
    <3>3. Gets(s, Bounded(wire[s].error, 0), wire[s].error, "all")
      BY <2>7 DEF Receive
    <3>4. Told(Bounded(wire[s].error, 0), "all")
      BY <3>1, <3>2
    <3> HIDE DEF Told
    <3> QED BY <2>2, <3>3, <3>4 DEF Reads
  <2> QED BY <1>6, <2>4, <2>5, <2>6, <2>7
<1> QED BY <1>2, <1>3, <1>4, <1>5, <1>6
     DEF Next, vars, Raise, Wrap, Fail, Holds, ReturnsShared, Reload

\* Whoever passes it on, and however often it is replaced for its size on the way,
\* the client learns the type that the handler raised, and takes nobody else's
\* answer for the platform's (writeHandlerError, errorFromResponse).
THEOREM IdentityAlwaysSurvives ==
  ASSUME RoomForReplacement
  PROVE  Spec => []IdentitySurvives
<1>1. Inv /\ IdentityInv /\ [Next]_vars => IdentityInv'
  BY NextIdentity
<1>2. IdentityInv => IdentitySurvives
  BY DEF IdentityInv
<1> QED BY <1>1, <1>2, InitIdentity, InitInv, NextInv, PTL DEF Spec
=============================================================================
