------------------------------- MODULE Authority ------------------------------
(***************************************************************************)
(* Clients and handler contexts derived from one another                   *)
(* (execution/elevation.go, platform/elevation.go, runtime/elevation.go),  *)
(* down to the memory their slices share.                                  *)
(*                                                                         *)
(* A derivation copies a Go struct, and with it the headers of its slices; *)
(* what keeps two clients apart is that Normalize clones before it sorts   *)
(* and compacts in place.  So a slice is an array and a length, the arrays *)
(* are a heap, and the handler - which may keep, reorder and overwrite any *)
(* slice it was handed - writes to the arrays of those slices.             *)
(*                                                                         *)
(* Grants are only compared and sorted: the order sort gives is one fixed  *)
(* order of a set.  What an intermediate array of one call held is dropped *)
(* with the call.                                                          *)
(***************************************************************************)
EXTENDS Naturals, SequencesExt

CONSTANTS
  Grants,    \* grant strings
  Star,      \* the grant "*"
  Blank,     \* the empty string slices.Compact leaves behind
  Arguments, \* what a handler passes to WithGrants
  Ink,       \* what a handler writes over an element of a slice
  MaxArrays  \* bound: arrays allocated

ASSUME ConstantsAssumption ==
  /\ IsFiniteSet(Grants)
  /\ Star \in Grants /\ Blank \notin Grants
  /\ Arguments \subseteq Seq(Grants)
  /\ Ink \subseteq Grants
  /\ MaxArrays \in Nat

VARIABLES
  arrays,   \* the elements of every array, up to its capacity
  claims,   \* the permissions of HandlerCtx.claims, or NoClaims
  clients,  \* every platform.Client of the call
  contexts, \* every runtime.HandlerCtx of the call
  handed,   \* slices returned by Client.Elevation
  written   \* history: arrays the handler wrote to

vars == <<arrays, claims, clients, contexts, handed, written>>

-----------------------------------------------------------------------------
(* Slices. *)

\* Mutant: Normalize without slices.Compact.
SliceUncompacted(q, array) == [array |-> array, len |-> Len(q)]

\* The slice of an array that holds the sequence q, normalised.
SliceOf(q, array) == [array |-> array, len |-> Cardinality(ToSet(q))]

Elements(s) == SubSeq(arrays[s.array], 1, s.len)

\* Normalize: the array of a sorted and compacted clone of q.
Normalized(q) ==
  SetToSeq(ToSet(q)) \o [i \in 1..(Len(q) - Cardinality(ToSet(q))) |-> Blank]

NoClaims == [array |-> 0, len |-> 0]

-----------------------------------------------------------------------------
(* Deriving. *)

\* The grants of a client derived from c, before they are normalised.
Wanted(c, grants) == Elements(clients[c].grants) \o grants

\* The client derived from c: its grants are in array a.
DerivedClient(c, grants, system, a) ==
  [grants   |-> SliceOf(Wanted(c, grants), a),
   system   |-> clients[c].system \/ system,
   selected |-> TRUE,
   broken   |-> clients[c].broken]

\* Mutant: a context is projected from the one it was copied from.
SnapshotOfParent(x) == Elements(contexts[x].permissions)

\* The permissions projectAuthority starts from: the signed ones, not those of x.
Snapshot(x) == Elements(claims)

\* ... and ends with: those, and what the client selected.
Projection(snapshot, selection, system) ==
  snapshot \o SetToSeq(ToSet(selection)) \o IF system THEN <<Star>> ELSE <<>>

\* WithSystemRole, or WithGrants of a client that has an inherited selection.
MayDerive(c, grants, system) ==
  \/ system /\ grants = <<>>
  \/ ~system /\ grants \in Arguments /\ ~clients[c].broken

Room(n) == Len(arrays) + n <= MaxArrays

ClientDerives(c, grants, system) ==
  /\ Room(1) /\ MayDerive(c, grants, system)
  /\ arrays' = Append(arrays, Normalized(Wanted(c, grants)))
  /\ clients' = Append(clients, DerivedClient(c, grants, system, Len(arrays) + 1))
  /\ UNCHANGED <<claims, contexts, handed, written>>

\* HandlerCtx.WithSystemRole and WithGrants. A context that has no claims keeps
\* the permissions of the one it was copied from.
ContextDerives(x, grants, system) ==
  LET c    == contexts[x].client
      a    == Len(arrays) + 1
      next == DerivedClient(c, grants, system, a)
      p    == Projection(Snapshot(x), Wanted(c, grants), next.system)
  IN /\ Room(2) /\ MayDerive(c, grants, system)
     /\ clients' = Append(clients, next)
     /\ IF claims = NoClaims
          THEN /\ arrays' = Append(arrays, Normalized(Wanted(c, grants)))
               /\ contexts' = Append(contexts,
                    [contexts[x] EXCEPT !.client = Len(clients) + 1])
          ELSE /\ arrays' = arrays \o <<Normalized(Wanted(c, grants)), Normalized(p)>>
               /\ contexts' = Append(contexts,
                    [client |-> Len(clients) + 1, permissions |-> SliceOf(p, a + 1),
                     isSystem |-> next.system])
     /\ UNCHANGED <<claims, handed, written>>

\* Mutant: the client's own slice is returned.
ElevationUncloned(c) ==
  /\ handed' = handed \cup {clients[c].grants}
  /\ UNCHANGED <<arrays, claims, clients, contexts, written>>

\* Client.Elevation
Elevation(c) ==
  LET q == Elements(clients[c].grants) IN
  /\ Room(1)
  /\ arrays' = Append(arrays, Normalized(q))
  /\ handed' = handed \cup {SliceOf(q, Len(arrays) + 1)}
  /\ UNCHANGED <<claims, clients, contexts, written>>

\* The handler overwrites, or appends in place to, a slice it was handed.
Scribble(s, i, grant) ==
  /\ arrays' = [arrays EXCEPT ![s.array][i] = grant]
  /\ written' = written \cup {s.array}
  /\ UNCHANGED <<claims, clients, contexts, handed>>

Handed == handed \cup {contexts[x].permissions : x \in DOMAIN contexts}

\* A call arrives: its client inherits the selection granted, its context the
\* permissions signed - when they are known.
Arrives(granted, signed, system, broken, known) ==
  LET p == Projection(signed, granted, system) IN
  /\ clients = <<[grants |-> SliceOf(granted, 1), system |-> system,
                  selected |-> FALSE, broken |-> broken]>>
  /\ claims = IF known THEN [array |-> 2, len |-> Len(signed)] ELSE NoClaims
  /\ arrays = <<Normalized(granted), Append(signed, Blank),
                IF known THEN Normalized(p) ELSE <<>>>>
  /\ contexts = <<[client |-> 1,
                   permissions |-> IF known THEN SliceOf(p, 3) ELSE [array |-> 3, len |-> 0],
                   isSystem |-> known /\ system]>>
  /\ handed = {} /\ written = {}

Init ==
  \E granted, signed \in Arguments : \E system, broken, known \in BOOLEAN :
    /\ broken => granted = <<>> /\ ~system
    /\ Arrives(granted, signed, system, broken, known)

Next ==
  \/ \E grants \in Arguments : \E system \in BOOLEAN :
       \/ \E c \in DOMAIN clients : ClientDerives(c, grants, system)
       \/ \E x \in DOMAIN contexts : ContextDerives(x, grants, system)
  \/ \E c \in DOMAIN clients : Elevation(c)
  \/ \E s \in Handed, grant \in Ink :
       \E i \in DOMAIN arrays[s.array] : Scribble(s, i, grant)

Spec == Init /\ [][Next]_vars

-----------------------------------------------------------------------------
(***************************************************************************)
(* Properties.                                                             *)
(***************************************************************************)

Slice  == [array: Nat, len: Nat]
Client == [grants: Slice, system: BOOLEAN, selected: BOOLEAN, broken: BOOLEAN]
Context == [client: Nat, permissions: Slice, isSystem: BOOLEAN]

SliceOK(s) ==
  /\ s \in Slice
  /\ s.array \in DOMAIN arrays /\ s.len <= Len(arrays[s.array])

ClientsOK ==
  /\ clients \in Seq(Client)
  /\ \A c \in DOMAIN clients :
       /\ SliceOK(clients[c].grants)
       /\ ToSet(Elements(clients[c].grants)) \subseteq Grants
       /\ IsInjective(Elements(clients[c].grants))

ContextsOK ==
  /\ contexts \in Seq(Context)
  /\ \A x \in DOMAIN contexts : contexts[x].client \in DOMAIN clients
  /\ \A s \in Handed : SliceOK(s)

\* Types; every client holds its selection in normal form, without the blanks
\* and duplicates that sorting and compacting leave behind.
TypeOK ==
  /\ arrays \in Seq(Seq(Grants \cup {Blank}))
  /\ claims # NoClaims => SliceOK(claims) /\ ToSet(Elements(claims)) \subseteq Grants
  /\ ClientsOK
  /\ ContextsOK
  /\ written \subseteq DOMAIN arrays

\* README, "Handler authority": derivation is immutable, accumulates what was
\* selected, and leaves originals and siblings as they were, whatever the handler
\* does to the slices it is handed. A client whose token's metadata cannot be read
\* sends nothing, nor does any client derived from it.
Selections == INSTANCE Selections WITH
  branches <- [c \in DOMAIN clients |->
                 [grants |-> ToSet(Elements(clients[c].grants)), system |-> clients[c].system,
                  chosen |-> clients[c].selected, silent |-> clients[c].broken]]

ImplementsSelections == Selections!Spec

\* Context x checks against what its client speaks with.
Agrees(x) ==
  LET client == clients[contexts[x].client]
      held   == contexts[x].permissions
  IN /\ contexts[x].isSystem = client.system
     /\ held.array \notin written =>
          ToSet(Elements(held)) =
            ToSet(Elements(claims)) \cup ToSet(Elements(client.grants))
              \cup IF client.system THEN {Star} ELSE {}

\* projectAuthority: the permissions a handler checks against are the ones it
\* speaks with - those signed and those its client selects - unless it has written
\* to them itself; what it wrote to another context's never gets in.
PermissionsAgree == claims # NoClaims => \A x \in DOMAIN contexts : Agrees(x)
=============================================================================
