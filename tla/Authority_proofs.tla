--------------------------- MODULE Authority_proofs ---------------------------
(***************************************************************************)
(* That clients derived from one another are values: Authority implements  *)
(* Selections, for any grants, any handler and any number of derivations.  *)
(***************************************************************************)
EXTENDS Authority, TLAPS, FiniteSetTheorems, SequenceTheorems

-----------------------------------------------------------------------------
(* Listing the elements of a sequence once. *)

\* SetToSeq lists the elements of a finite set, each once.
LEMMA Listing ==
  ASSUME NEW S, IsFiniteSet(S)
  PROVE  /\ SetToSeq(S) \in Seq(S)
         /\ Len(SetToSeq(S)) = Cardinality(S)
         /\ IsInjective(SetToSeq(S))
         /\ ToSet(SetToSeq(S)) = S
<1> DEFINE n == Cardinality(S)
           f == SetToSeq(S)
<1>1. n \in Nat
  BY FS_CardinalityType
<1>2. PICK b \in [1..n -> S] : IsInjective(b)
  <2>1. ExistsBijection(1..n, S)
    BY FS_CardinalityType
  <2> QED
    BY <2>1 DEF ExistsBijection, Bijection, Injection, IsInjective
<1>3. f \in [1..n -> S] /\ IsInjective(f)
  BY <1>2 DEF SetToSeq
<1> HIDE DEF f, n
<1>4. f \in Injection(1..n, S)
  BY <1>3 DEF Injection, IsInjective
<1>5. Cardinality(1..n) = Cardinality(S)
  BY <1>1, FS_Interval DEF n
<1>6. f \in Surjection(1..n, S)
  BY <1>4, <1>5, FS_Injection
<1>7. {f[i] : i \in 1..n} = S
  BY <1>3, <1>6 DEF Surjection
<1>8. f \in Seq(S) /\ Len(f) = n /\ DOMAIN f = 1..n
  BY <1>1, <1>3
<1> QED
  BY <1>3, <1>7, <1>8 DEF ToSet, f, n

\* A sequence over S lists a finite set, of no more elements than it is long.
LEMMA Elems ==
  ASSUME NEW S, NEW q \in Seq(S)
  PROVE  /\ ToSet(q) \subseteq S
         /\ IsFiniteSet(ToSet(q))
         /\ Cardinality(ToSet(q)) \in 0..Len(q)
<1>1. Len(q) \in Nat /\ DOMAIN q = 1..Len(q) /\ q \in [1..Len(q) -> S]
  BY SeqDef
<1>2. IsFiniteSet(1..Len(q)) /\ Cardinality(1..Len(q)) = Len(q)
  BY <1>1, FS_Interval
<1>3. q \in Surjection(1..Len(q), ToSet(q))
  BY <1>1 DEF Surjection, ToSet
<1>4. IsFiniteSet(ToSet(q)) /\ Cardinality(ToSet(q)) <= Len(q)
  BY <1>2, <1>3, FS_Surjection
<1>5. Cardinality(ToSet(q)) \in Nat
  BY <1>4, FS_CardinalityType
<1> QED
  BY <1>1, <1>4, <1>5 DEF ToSet

\* Normalize: the elements of q once each at the front of an array as long as q.
LEMMA NormalForm ==
  ASSUME NEW q \in Seq(Grants)
  PROVE  LET n == Cardinality(ToSet(q)) IN
         /\ Normalized(q) \in Seq(Grants \cup {Blank})
         /\ n \in Nat /\ n <= Len(Normalized(q))
         /\ SubSeq(Normalized(q), 1, n) = SetToSeq(ToSet(q))
<1> DEFINE n == Cardinality(ToSet(q))
           f == SetToSeq(ToSet(q))
           z == [i \in 1..(Len(q) - n) |-> Blank]
<1>1. ToSet(q) \subseteq Grants /\ IsFiniteSet(ToSet(q)) /\ n \in 0..Len(q)
  BY Elems
<1>2. f \in Seq(ToSet(q)) /\ Len(f) = n
  BY <1>1, Listing
<1>3. f \in Seq(Grants \cup {Blank})
  BY <1>1, <1>2
<1>4. Len(q) - n \in Nat
  BY <1>1
<1>5. z \in Seq(Grants \cup {Blank}) /\ Len(z) = Len(q) - n
  BY <1>4
<1>6. Normalized(q) = f \o z
  BY DEF Normalized
<1> HIDE DEF f, z, n
<1>7. f \o z \in Seq(Grants \cup {Blank}) /\ Len(f \o z) = Len(f) + Len(z)
  BY <1>3, <1>5, ConcatProperties
<1>8. \A i \in 1..n : (f \o z)[i] = f[i]
  BY <1>1, <1>2, <1>3, <1>5, ConcatProperties
<1>9. SubSeq(f \o z, 1, n) = f
  <2>1. n \in Nat /\ n <= Len(f \o z)
    BY <1>1, <1>2, <1>4, <1>5, <1>7
  <2> QED
    BY <2>1, <1>2, <1>3, <1>7, <1>8
<1> QED
  BY <1>1, <1>2, <1>4, <1>5, <1>6, <1>7, <1>9 DEF n, f

\* Appending sequences joins what they list.
LEMMA Joined ==
  ASSUME NEW S, NEW p \in Seq(S), NEW q \in Seq(S)
  PROVE  /\ p \o q \in Seq(S)
         /\ ToSet(p \o q) = ToSet(p) \cup ToSet(q)
<1>1. /\ p \o q \in Seq(S) /\ Len(p \o q) = Len(p) + Len(q)
      /\ \A i \in 1..(Len(p) + Len(q)) :
           (p \o q)[i] = IF i <= Len(p) THEN p[i] ELSE q[i - Len(p)]
  BY ConcatProperties
<1>2. /\ DOMAIN p = 1..Len(p) /\ DOMAIN q = 1..Len(q) /\ DOMAIN (p \o q) = 1..Len(p \o q)
      /\ Len(p) \in Nat /\ Len(q) \in Nat
  BY <1>1
<1>3. ToSet(p \o q) \subseteq ToSet(p) \cup ToSet(q)
  <2>1. SUFFICES ASSUME NEW i \in 1..Len(p \o q)
                 PROVE  (p \o q)[i] \in ToSet(p) \cup ToSet(q)
    BY <1>2 DEF ToSet
  <2>2. CASE i <= Len(p)
    BY <2>2, <1>1, <1>2 DEF ToSet
  <2>3. CASE i > Len(p)
    <3>1. i - Len(p) \in DOMAIN q /\ (p \o q)[i] = q[i - Len(p)]
      BY <2>3, <1>1, <1>2
    <3> QED
      BY <3>1 DEF ToSet
  <2> QED
    BY <2>2, <2>3, <1>1, <1>2
<1>4. ToSet(p) \subseteq ToSet(p \o q)
  <2>1. \A i \in DOMAIN p : i \in DOMAIN (p \o q) /\ p[i] = (p \o q)[i]
    BY <1>1, <1>2
  <2> QED
    BY <2>1 DEF ToSet
<1>5. ToSet(q) \subseteq ToSet(p \o q)
  <2>1. \A i \in DOMAIN q : i + Len(p) \in DOMAIN (p \o q) /\ q[i] = (p \o q)[i + Len(p)]
    BY <1>1, <1>2
  <2> QED
    BY <2>1 DEF ToSet
<1> QED
  BY <1>1, <1>3, <1>4, <1>5

-----------------------------------------------------------------------------
(* Slices of the heap. *)

Heap == Seq(Seq(Grants \cup {Blank}))

\* A slice of grants is a sequence of grants.
LEMMA SliceElements ==
  ASSUME arrays \in Heap, NEW s, SliceOK(s), ToSet(Elements(s)) \subseteq Grants
  PROVE  Elements(s) \in Seq(Grants)
<1>1. /\ s.len \in Nat /\ arrays[s.array] \in Seq(Grants \cup {Blank})
      /\ s.len <= Len(arrays[s.array])
  BY DEF SliceOK, Slice, Heap
<1>2. \A i \in 1..s.len : arrays[s.array][i] \in Grants \cup {Blank}
  BY <1>1
<1>3. Elements(s) \in Seq(Grants \cup {Blank}) /\ Len(Elements(s)) = s.len
  BY <1>1, <1>2, SubSeqProperties DEF Elements
<1>4. \A i \in 1..Len(Elements(s)) : Elements(s)[i] \in Grants
  BY <1>3 DEF ToSet
<1> QED
  BY <1>3, <1>4, SeqDef

\* What a handler passes to a derivation is a sequence of grants.
LEMMA ArgumentsAreGrants ==
  ASSUME ConstantsAssumption, NEW c, NEW grants, NEW system, MayDerive(c, grants, system)
  PROVE  grants \in Seq(Grants)
<1>1. grants = <<>> \/ grants \in Arguments
  BY Zenon DEF MayDerive
<1>2. <<>> \in Seq(Grants)
  OBVIOUS
<1> QED
  BY <1>1, <1>2 DEF ConstantsAssumption

\* WithGrants adds to what the client selected.
LEMMA WantedGrants ==
  ASSUME ConstantsAssumption, TypeOK, NEW c \in DOMAIN clients, NEW grants \in Seq(Grants)
  PROVE  /\ Wanted(c, grants) \in Seq(Grants)
         /\ ToSet(Wanted(c, grants)) = ToSet(Elements(clients[c].grants)) \cup ToSet(grants)
<1>1. Elements(clients[c].grants) \in Seq(Grants)
  BY SliceElements DEF TypeOK, ClientsOK, Heap
<1> QED
  BY <1>1, Joined DEF Wanted

-----------------------------------------------------------------------------
(* What a derivation does to the clients, wherever it comes from. *)

\* No slice the handler was handed shares an array with a client, nor with the
\* signed permissions.
Separate ==
  \A s \in Handed :
    /\ \A c \in DOMAIN clients : clients[c].grants.array # s.array
    /\ claims # NoClaims => claims.array # s.array

\* Arrays are only added.
Grown ==
  /\ arrays' \in Heap
  /\ DOMAIN arrays \subseteq DOMAIN arrays'
  /\ \A i \in DOMAIN arrays : arrays'[i] = arrays[i]

\* The array next is a normalised clone of q.
Holds(next, q) == next \in DOMAIN arrays' /\ arrays'[next] = Normalized(q)

Derives(c, grants, system) ==
  /\ MayDerive(c, grants, system)
  /\ Grown /\ Holds(Len(arrays) + 1, Wanted(c, grants))
  /\ clients' = Append(clients, DerivedClient(c, grants, system, Len(arrays) + 1))

\* A slice of a fresh array lists q once.
LEMMA FreshSlice ==
  ASSUME NEW q \in Seq(Grants), NEW a \in Nat, Grown, Holds(a, q)
  PROVE  LET s == SliceOf(q, a) IN
         /\ s \in Slice /\ s.array = a
         /\ s.array \in DOMAIN arrays' /\ s.len <= Len(arrays'[s.array])
         /\ SubSeq(arrays'[s.array], 1, s.len) = SetToSeq(ToSet(q))
         /\ ToSet(SetToSeq(ToSet(q))) = ToSet(q)
         /\ IsInjective(SetToSeq(ToSet(q)))
<1>1. IsFiniteSet(ToSet(q))
  BY Elems
<1>2. ToSet(SetToSeq(ToSet(q))) = ToSet(q) /\ IsInjective(SetToSeq(ToSet(q)))
  BY <1>1, Listing
<1> QED
  BY <1>2, NormalForm DEF SliceOf, Slice, Holds

\* The client derived.
LEMMA DerivedOne ==
  ASSUME ConstantsAssumption, TypeOK,
         NEW c \in DOMAIN clients, NEW grants, NEW system \in BOOLEAN,
         Derives(c, grants, system)
  PROVE  LET d == DerivedClient(c, grants, system, Len(arrays) + 1) IN
         /\ d \in Client
         /\ d.grants.array \in DOMAIN arrays' /\ d.grants.len <= Len(arrays'[d.grants.array])
         /\ d.grants.array = Len(arrays) + 1
         /\ d.system = (clients[c].system \/ system)
         /\ d.selected = TRUE /\ d.broken = clients[c].broken
         /\ IsInjective(SubSeq(arrays'[d.grants.array], 1, d.grants.len))
         /\ ToSet(SubSeq(arrays'[d.grants.array], 1, d.grants.len)) =
              ToSet(Elements(clients[c].grants)) \cup ToSet(grants)
<1> DEFINE q == Wanted(c, grants)
           a == Len(arrays) + 1
           d == DerivedClient(c, grants, system, a)
<1>1. grants \in Seq(Grants)
  BY ArgumentsAreGrants DEF Derives
<1>2. q \in Seq(Grants) /\ ToSet(q) = ToSet(Elements(clients[c].grants)) \cup ToSet(grants)
  BY <1>1, WantedGrants
<1>3. a \in Nat
  BY DEF TypeOK
<1>4. clients[c] \in Client
  BY DEF TypeOK, ClientsOK
<1>5. /\ d.grants = SliceOf(q, a) /\ d.system = (clients[c].system \/ system)
      /\ d.selected = TRUE /\ d.broken = clients[c].broken
      /\ d = [grants |-> d.grants, system |-> d.system, selected |-> d.selected,
              broken |-> d.broken]
  BY Zenon DEF DerivedClient
<1> HIDE DEF d, q, a
<1>6. /\ d.grants \in Slice /\ d.grants.array = a
      /\ d.grants.array \in DOMAIN arrays' /\ d.grants.len <= Len(arrays'[d.grants.array])
      /\ SubSeq(arrays'[d.grants.array], 1, d.grants.len) = SetToSeq(ToSet(q))
      /\ ToSet(SetToSeq(ToSet(q))) = ToSet(q)
      /\ IsInjective(SetToSeq(ToSet(q)))
  BY <1>2, <1>3, <1>5, FreshSlice DEF Derives, q, a
<1>7. d.system \in BOOLEAN /\ d.selected \in BOOLEAN /\ d.broken \in BOOLEAN
  BY <1>4, <1>5 DEF Client
<1>8. d \in Client
  BY <1>5, <1>6, <1>7 DEF Client
<1> QED
  BY <1>2, <1>5, <1>6, <1>8 DEF d, q, a

\* The clients already made keep their types and their grants while arrays grow.
LEMMA ClientsDerived ==
  ASSUME ConstantsAssumption, TypeOK,
         NEW c \in DOMAIN clients, NEW grants, NEW system \in BOOLEAN,
         Derives(c, grants, system)
  PROVE  ClientsOK'
<1> DEFINE d == DerivedClient(c, grants, system, Len(arrays) + 1)
<1>1. /\ d \in Client /\ d.grants \in Slice
      /\ d.grants.array \in DOMAIN arrays' /\ d.grants.len <= Len(arrays'[d.grants.array])
      /\ IsInjective(SubSeq(arrays'[d.grants.array], 1, d.grants.len))
      /\ ToSet(SubSeq(arrays'[d.grants.array], 1, d.grants.len)) \subseteq Grants
  <2>1. grants \in Seq(Grants)
    BY ArgumentsAreGrants DEF Derives
  <2>2. ToSet(grants) \subseteq Grants /\ ToSet(Elements(clients[c].grants)) \subseteq Grants
    BY <2>1, Elems DEF TypeOK, ClientsOK
  <2>3. /\ d \in Client
        /\ d.grants.array \in DOMAIN arrays' /\ d.grants.len <= Len(arrays'[d.grants.array])
        /\ IsInjective(SubSeq(arrays'[d.grants.array], 1, d.grants.len))
        /\ ToSet(SubSeq(arrays'[d.grants.array], 1, d.grants.len)) =
             ToSet(Elements(clients[c].grants)) \cup ToSet(grants)
    BY DerivedOne DEF DerivedClient
  <2> HIDE DEF d
  <2>4. d.grants \in Slice
    BY <2>3 DEF Client
  <2> QED
    BY <2>2, <2>3, <2>4
<1>2. clients \in Seq(Client) /\ clients' = Append(clients, d)
  BY DEF TypeOK, ClientsOK, Derives
<1> HIDE DEF d
<1>3. clients' \in Seq(Client) /\ DOMAIN clients' = DOMAIN clients \cup {Len(clients) + 1}
  BY <1>1, <1>2
<1>4. clients'[Len(clients) + 1] = d /\ \A i \in DOMAIN clients : clients'[i] = clients[i]
  BY <1>1, <1>2
<1>5. ASSUME NEW i \in DOMAIN clients'
      PROVE  /\ clients'[i].grants \in Slice
             /\ clients'[i].grants.array \in DOMAIN arrays'
             /\ clients'[i].grants.len <= Len(arrays'[clients'[i].grants.array])
             /\ ToSet(SubSeq(arrays'[clients'[i].grants.array], 1, clients'[i].grants.len))
                  \subseteq Grants
             /\ IsInjective(SubSeq(arrays'[clients'[i].grants.array], 1, clients'[i].grants.len))
  <2>1. CASE i \in DOMAIN clients
    <3>1. /\ SliceOK(clients[i].grants) /\ ToSet(Elements(clients[i].grants)) \subseteq Grants
          /\ IsInjective(Elements(clients[i].grants))
      BY <2>1 DEF TypeOK, ClientsOK
    <3>2. arrays'[clients[i].grants.array] = arrays[clients[i].grants.array]
          /\ clients[i].grants.array \in DOMAIN arrays'
      BY <3>1 DEF SliceOK, Derives, Grown
    <3> QED
      BY <3>1, <3>2, <2>1, <1>4 DEF SliceOK, Elements
  <2>2. CASE i = Len(clients) + 1
    BY <2>2, <1>1, <1>4
  <2> QED
    BY <2>1, <2>2, <1>3
<1> QED
  BY <1>3, <1>5 DEF ClientsOK, SliceOK, Elements

-----------------------------------------------------------------------------
(* The refinement. *)

\* The branch that client k is, its grants in heap h, and all of them.
BranchOf(h, k) ==
  [grants |-> ToSet(SubSeq(h[k.grants.array], 1, k.grants.len)), system |-> k.system,
   chosen |-> k.selected, silent |-> k.broken]

Branches(h, ks) == [i \in DOMAIN ks |-> BranchOf(h, ks[i])]

LEMMA BranchesGrow ==
  ASSUME NEW h, NEW g, NEW ks \in Seq(Client), NEW d \in Client,
         \A i \in DOMAIN ks : g[ks[i].grants.array] = h[ks[i].grants.array]
  PROVE  Branches(g, Append(ks, d)) = Append(Branches(h, ks), BranchOf(g, d))
<1> DEFINE n  == Len(ks)
           B  == {BranchOf(h, ks[i]) : i \in DOMAIN ks} \cup {BranchOf(g, d)}
           bs == Branches(h, ks)
<1>1. n \in Nat /\ DOMAIN ks = 1..n
  OBVIOUS
<1>2. bs \in [1..n -> B]
  BY <1>1 DEF Branches
<1>3. bs \in Seq(B) /\ Len(bs) = n
  BY <1>1, <1>2
<1> HIDE DEF B, bs
<1>4. BranchOf(g, d) \in B
  BY DEF B
<1>5. /\ Append(bs, BranchOf(g, d)) \in Seq(B)
      /\ Len(Append(bs, BranchOf(g, d))) = n + 1
      /\ \A i \in 1..n : Append(bs, BranchOf(g, d))[i] = bs[i]
      /\ Append(bs, BranchOf(g, d))[n + 1] = BranchOf(g, d)
  BY <1>3, <1>4, AppendProperties
<1>6. /\ DOMAIN Append(ks, d) = 1..(n + 1) /\ Append(ks, d)[n + 1] = d
      /\ \A i \in 1..n : Append(ks, d)[i] = ks[i]
  BY <1>1
<1>7. \A i \in 1..n : BranchOf(g, ks[i]) = bs[i]
  BY <1>1 DEF bs, Branches, BranchOf
<1>8. \A i \in 1..(n + 1) : BranchOf(g, Append(ks, d)[i]) = Append(bs, BranchOf(g, d))[i]
  BY <1>1, <1>5, <1>6, <1>7
<1>9. Append(bs, BranchOf(g, d)) = [i \in 1..(n + 1) |-> Append(bs, BranchOf(g, d))[i]]
  <2> DEFINE next == Append(bs, BranchOf(g, d))
  <2>1. next \in Seq(B) /\ Len(next) = n + 1
    BY <1>5
  <2> HIDE DEF next
  <2>2. next = [i \in 1..(n + 1) |-> next[i]]
    BY <1>1, <2>1
  <2> QED
    BY <2>2 DEF next
<1>10. Branches(g, Append(ks, d)) = [i \in 1..(n + 1) |-> BranchOf(g, Append(ks, d)[i])]
  BY <1>6 DEF Branches
<1>11. QED
  BY <1>8, <1>9, <1>10 DEF bs

\* Every derivation adds a branch that selects what its client did, and more.
LEMMA DerivesABranch ==
  ASSUME ConstantsAssumption, TypeOK,
         NEW c \in DOMAIN clients, NEW grants, NEW system \in BOOLEAN,
         Derives(c, grants, system)
  PROVE  Selections!Next
<1> DEFINE d  == DerivedClient(c, grants, system, Len(arrays) + 1)
           b  == BranchOf(arrays, clients[c])
           bs == Branches(arrays, clients)
           new == BranchOf(arrays', d)
           sys == clients[c].system \/ system
<1>1. /\ d \in Client
      /\ d.system = (clients[c].system \/ system)
      /\ d.selected = TRUE /\ d.broken = clients[c].broken
      /\ ToSet(SubSeq(arrays'[d.grants.array], 1, d.grants.len)) =
           ToSet(Elements(clients[c].grants)) \cup ToSet(grants)
  BY DerivedOne DEF DerivedClient
<1>2. new = [grants |-> b.grants \cup ToSet(grants), system |-> sys,
             chosen |-> TRUE, silent |-> b.silent]
  BY <1>1 DEF BranchOf, Elements
<1>3. clients' = Append(clients, d) /\ clients \in Seq(Client)
  BY DEF Derives, TypeOK, ClientsOK
<1>4. \A i \in DOMAIN clients : arrays'[clients[i].grants.array] = arrays[clients[i].grants.array]
  BY DEF Derives, Grown, TypeOK, ClientsOK, SliceOK
<1>5. Branches(arrays', clients') = Append(bs, new)
  BY <1>1, <1>3, <1>4, BranchesGrow
<1>6. bs[c] = b /\ c \in DOMAIN bs
  BY DEF Branches
<1>7. clients[c].system \in BOOLEAN
  <2>1. clients[c] \in Client
    BY DEF TypeOK, ClientsOK
  <2> QED
    BY <2>1 DEF Client
<1> DEFINE map == [k \in DOMAIN clients |->
                    [grants |-> ToSet(Elements(clients[k].grants)), system |-> clients[k].system,
                     chosen |-> clients[k].selected, silent |-> clients[k].broken]]
<1>10. map = bs /\ map' = Branches(arrays', clients')
  BY DEF Branches, BranchOf, Elements
<1>11. map' = Append(map, new) /\ c \in DOMAIN map /\ map[c] = b
  BY <1>5, <1>6, <1>10
<1> HIDE DEF d, new, sys
<1>8. CASE system /\ grants = <<>>
  <2>1. ToSet(grants) = {}
    BY <1>8 DEF ToSet
  <2>2. sys = TRUE
    BY <1>8, Zenon DEF sys
  <2>3. new = Selections!WithSystemRole(b)
    BY <1>2, <2>1, <2>2 DEF Selections!WithSystemRole, BranchOf
  <2> QED
    BY <1>11, <2>3 DEF Selections!Next, Selections!Derive
<1>9. CASE ~system /\ grants \in Arguments /\ ~clients[c].broken
  <2>1. ToSet(grants) \in SUBSET Grants
    BY <1>9, Elems DEF ConstantsAssumption
  <2>2. sys = clients[c].system
    BY <1>7, <1>9, Zenon DEF sys
  <2>3. new = Selections!WithGrants(b, ToSet(grants)) /\ ~b.silent
    BY <1>2, <1>9, <2>2 DEF Selections!WithGrants, BranchOf
  <2> QED
    BY <1>11, <2>1, <2>3 DEF Selections!Next, Selections!Derive
<1> QED
  BY <1>8, <1>9 DEF Derives, MayDerive

-----------------------------------------------------------------------------
(* The initial states. *)

Starred(system) == IF system THEN {Star} ELSE {}

\* projectAuthority's permissions: the snapshot, the selection, and "*" for System.
LEMMA Projected ==
  ASSUME ConstantsAssumption,
         NEW snapshot \in Seq(Grants), NEW selection \in Seq(Grants), NEW system \in BOOLEAN
  PROVE  LET p == Projection(snapshot, selection, system) IN
         /\ p \in Seq(Grants)
         /\ ToSet(p) = ToSet(snapshot) \cup ToSet(selection) \cup Starred(system)
<1> DEFINE f == SetToSeq(ToSet(selection))
           z == IF system THEN <<Star>> ELSE <<>>
<1>1. f \in Seq(ToSet(selection)) /\ ToSet(f) = ToSet(selection)
  BY Elems, Listing
<1>2. f \in Seq(Grants)
  <2>1. ToSet(selection) \subseteq Grants
    BY Elems
  <2> HIDE DEF f
  <2> QED
    BY <1>1, <2>1
<1>3. z \in Seq(Grants) /\ ToSet(z) = Starred(system)
  <2>1. CASE system
    <3>1. z = <<Star>> /\ Starred(system) = {Star}
      BY <2>1, Zenon DEF Starred
    <3> QED
      BY <3>1 DEF ToSet, ConstantsAssumption
  <2>2. CASE ~system
    <3>1. z = <<>> /\ Starred(system) = {}
      BY <2>2, Zenon DEF Starred
    <3> QED
      BY <3>1 DEF ToSet
  <2> QED
    BY <2>1, <2>2
<1>4. Projection(snapshot, selection, system) = (snapshot \o f) \o z
  <2>1. Projection(snapshot, selection, system) = snapshot \o f \o z
    BY Zenon DEF Projection
  <2> QED
    BY <2>1
<1> HIDE DEF f, z
<1> DEFINE g == snapshot \o f
<1>5. g \in Seq(Grants) /\ ToSet(g) = ToSet(snapshot) \cup ToSet(f)
  BY <1>2, Joined
<1>6. Projection(snapshot, selection, system) = g \o z
  BY <1>4
<1> HIDE DEF g
<1>7. g \o z \in Seq(Grants) /\ ToSet(g \o z) = ToSet(g) \cup ToSet(z)
  BY <1>3, <1>5, Joined
<1> QED
  BY <1>1, <1>3, <1>5, <1>6, <1>7 DEF f

\* A slice of a normalised array, in any heap.
LEMMA NormalSlice ==
  ASSUME NEW q \in Seq(Grants), NEW a \in Nat, NEW h, h[a] = Normalized(q)
  PROVE  LET s == SliceOf(q, a) IN
         /\ s \in Slice /\ s.array = a /\ s.len <= Len(h[a])
         /\ ToSet(SubSeq(h[s.array], 1, s.len)) = ToSet(q)
         /\ IsInjective(SubSeq(h[s.array], 1, s.len))
<1>1. IsFiniteSet(ToSet(q))
  BY Elems
<1>2. ToSet(SetToSeq(ToSet(q))) = ToSet(q) /\ IsInjective(SetToSeq(ToSet(q)))
  BY <1>1, Listing
<1> QED
  BY <1>2, NormalForm DEF SliceOf, Slice

\* A decoded claim leaves spare capacity behind its elements.
LEMMA SpareSlice ==
  ASSUME NEW q \in Seq(Grants), NEW h, h[2] = Append(q, Blank)
  PROVE  LET s == [array |-> 2, len |-> Len(q)] IN
         /\ Append(q, Blank) \in Seq(Grants \cup {Blank})
         /\ s \in Slice /\ s.len <= Len(h[2])
         /\ SubSeq(h[s.array], 1, s.len) = q
<1>1. q \in Seq(Grants \cup {Blank}) /\ Len(q) \in Nat
  OBVIOUS
<1>2. /\ Append(q, Blank) \in Seq(Grants \cup {Blank}) /\ Len(Append(q, Blank)) = Len(q) + 1
      /\ \A i \in 1..Len(q) : Append(q, Blank)[i] = q[i]
  BY <1>1, AppendProperties
<1>3. SubSeq(Append(q, Blank), 1, Len(q)) = q
  BY <1>1, <1>2
<1> QED
  BY <1>1, <1>2, <1>3 DEF Slice

IInv == TypeOK /\ Separate /\ PermissionsAgree

LEMMA ArrivesInv ==
  ASSUME ConstantsAssumption,
         NEW granted \in Arguments, NEW signed \in Arguments,
         NEW system \in BOOLEAN, NEW broken \in BOOLEAN, NEW known \in BOOLEAN,
         Arrives(granted, signed, system, broken, known)
  PROVE  IInv
<1> DEFINE p == Projection(signed, granted, system)
           k == clients[1]
           x == contexts[1]
<1>2. granted \in Seq(Grants) /\ signed \in Seq(Grants)
  BY DEF ConstantsAssumption
<1>3. p \in Seq(Grants) /\ ToSet(p) = ToSet(signed) \cup ToSet(granted) \cup Starred(system)
  BY <1>2, Projected
<1> HIDE DEF p
<1> DEFINE third == IF known THEN Normalized(p) ELSE <<>>
<1>1. /\ arrays = <<Normalized(granted), Append(signed, Blank), third>>
      /\ clients = <<[grants |-> SliceOf(granted, 1), system |-> system,
                      selected |-> FALSE, broken |-> broken]>>
      /\ claims = IF known THEN [array |-> 2, len |-> Len(signed)] ELSE NoClaims
      /\ contexts = <<[client |-> 1,
                       permissions |-> IF known THEN SliceOf(p, 3) ELSE [array |-> 3, len |-> 0],
                       isSystem |-> known /\ system]>>
      /\ handed = {} /\ written = {}
  BY Zenon DEF Arrives, p
<1>4. DOMAIN arrays = 1..3 /\ arrays[1] = Normalized(granted) /\ arrays[2] = Append(signed, Blank)
      /\ arrays[3] = IF known THEN Normalized(p) ELSE <<>>
  BY <1>1
<1> HIDE DEF third
<1>5. arrays \in Heap
  <2>1. Normalized(granted) \in Seq(Grants \cup {Blank})
    BY <1>2, NormalForm
  <2>2. Append(signed, Blank) \in Seq(Grants \cup {Blank})
    BY <1>2
  <2>3. arrays[3] \in Seq(Grants \cup {Blank})
    BY <1>3, <1>4, NormalForm
  <2> DEFINE n == Normalized(granted)
             t == Append(signed, Blank)
  <2>4. n \in Seq(Grants \cup {Blank}) /\ t \in Seq(Grants \cup {Blank})
        /\ third \in Seq(Grants \cup {Blank})
    BY <1>1, <2>1, <2>2, <2>3
  <2>5. arrays = <<n, t, third>>
    BY <1>1
  <2> HIDE DEF n, t
  <2> QED
    BY <2>4, <2>5 DEF Heap
<1>6. /\ k = [grants |-> SliceOf(granted, 1), system |-> system,
              selected |-> FALSE, broken |-> broken]
      /\ clients = <<k>> /\ DOMAIN clients = {1} /\ Len(clients) = 1
  BY <1>1
<1>7. /\ k.grants = SliceOf(granted, 1) /\ k.grants \in Slice /\ k.grants.array = 1
      /\ k.system = system
      /\ k.grants.len <= Len(arrays[1])
      /\ ToSet(Elements(k.grants)) = ToSet(granted) /\ IsInjective(Elements(k.grants))
  BY <1>2, <1>4, <1>6, NormalSlice DEF Elements
<1>8. k \in Client
  BY <1>6, <1>7 DEF Client
<1>9. ToSet(granted) \subseteq Grants /\ ToSet(signed) \subseteq Grants
  BY <1>2, Elems
<1>10. ClientsOK
  <2>2. clients[1] = k
    OBVIOUS
  <2>3. SliceOK(k.grants)
    BY <1>4, <1>7 DEF SliceOK
  <2>4. ToSet(Elements(k.grants)) \subseteq Grants /\ IsInjective(Elements(k.grants))
    BY <1>7, <1>9
  <2> HIDE DEF k
  <2>1. clients \in Seq(Client)
    BY <1>6, <1>8
  <2>5. ASSUME NEW c \in DOMAIN clients
        PROVE  /\ SliceOK(clients[c].grants)
               /\ ToSet(Elements(clients[c].grants)) \subseteq Grants
               /\ IsInjective(Elements(clients[c].grants))
    <3>1. clients[c] = k
      BY <1>6, <2>2
    <3> QED
      BY <3>1, <2>3, <2>4
  <2> QED
    BY <2>1, <2>5 DEF ClientsOK
<1>11. claims # NoClaims =>
         /\ known /\ claims = [array |-> 2, len |-> Len(signed)] /\ claims.array = 2
         /\ SliceOK(claims) /\ Elements(claims) = signed
  BY <1>1, <1>2, <1>4, SpareSlice DEF SliceOK, Elements
<1>12. /\ x.client = 1 /\ x.isSystem = (known /\ system)
       /\ x.permissions = IF known THEN SliceOf(p, 3) ELSE [array |-> 3, len |-> 0]
       /\ x = [client |-> 1, permissions |-> x.permissions, isSystem |-> x.isSystem]
       /\ contexts = <<x>> /\ DOMAIN contexts = {1} /\ Handed = {x.permissions}
  <2> DEFINE held  == IF known THEN SliceOf(p, 3) ELSE [array |-> 3, len |-> 0]
             alone == known /\ system
  <2>1. contexts = <<[client |-> 1, permissions |-> held, isSystem |-> alone]>> /\ handed = {}
    BY <1>1, Zenon
  <2> HIDE DEF held, alone
  <2>2. /\ x.client = 1 /\ x.isSystem = alone /\ x.permissions = held
        /\ x = [client |-> 1, permissions |-> x.permissions, isSystem |-> x.isSystem]
        /\ contexts = <<x>> /\ DOMAIN contexts = {1} /\ Handed = {x.permissions}
    BY <2>1 DEF Handed
  <2> QED
    BY <2>2, Zenon DEF held, alone
<1>13. /\ x.permissions \in Slice /\ x.permissions.array = 3
       /\ x.permissions.len <= Len(arrays[3])
       /\ known => ToSet(Elements(x.permissions)) = ToSet(p)
  <2> HIDE DEF x
  <2>1. CASE known
    <3>1. x.permissions = SliceOf(p, 3) /\ arrays[3] = Normalized(p)
      BY <2>1, <1>4, <1>12, Zenon
    <3> QED
      BY <3>1, <1>3, NormalSlice DEF Elements
  <2>2. CASE ~known
    <3>1. x.permissions = [array |-> 3, len |-> 0] /\ arrays[3] = <<>>
      BY <2>2, <1>4, <1>12, Zenon
    <3> QED
      BY <2>2, <3>1 DEF Slice
  <2> QED
    BY <2>1, <2>2
<1>14. x.isSystem \in BOOLEAN
  BY <1>12, Zenon
<1> HIDE DEF k, x
<1>15. ContextsOK
  <2>1. x \in Context
    BY <1>12, <1>13, <1>14 DEF Context
  <2>2. contexts \in Seq(Context)
    BY <1>12, <2>1
  <2>3. \A s \in Handed : SliceOK(s)
    BY <1>4, <1>12, <1>13 DEF SliceOK
  <2>4. \A y \in DOMAIN contexts : contexts[y].client \in DOMAIN clients
    BY <1>6, <1>12 DEF x
  <2> QED
    BY <2>2, <2>3, <2>4 DEF ContextsOK
<1>16. TypeOK
  BY <1>1, <1>5, <1>9, <1>10, <1>11, <1>15 DEF TypeOK, Heap
<1>17. Separate
  BY <1>6, <1>7, <1>11, <1>12, <1>13 DEF Separate, k
<1>18. PermissionsAgree
  <2> SUFFICES ASSUME claims # NoClaims
               PROVE  /\ x.isSystem = clients[x.client].system
                      /\ ToSet(Elements(x.permissions)) =
                           ToSet(Elements(claims)) \cup ToSet(Elements(clients[x.client].grants))
                             \cup Starred(clients[x.client].system)
    BY <1>12 DEF PermissionsAgree, Agrees, Starred, x
  <2>1. known /\ Elements(claims) = signed
    BY <1>11
  <2>2. clients[x.client] = k
    BY <1>6, <1>12
  <2>3. x.isSystem = k.system
    BY <2>1, <1>7, <1>12, Zenon
  <2> QED
    BY <2>1, <2>2, <2>3, <1>3, <1>7, <1>13
<1> QED
  BY <1>16, <1>17, <1>18 DEF IInv

-----------------------------------------------------------------------------
(* Steps that only add arrays. *)

\* What a slice holds, and that it is one, survives.
LEMMA Kept ==
  ASSUME Grown, NEW s, SliceOK(s)
  PROVE  /\ s \in Slice /\ s.array \in DOMAIN arrays'
         /\ s.len <= Len(arrays'[s.array])
         /\ SubSeq(arrays'[s.array], 1, s.len) = Elements(s)
BY DEF Grown, SliceOK, Elements

\* The clients that exist stay, and none gets a slice of an older array.
ClientsGrow ==
  /\ DOMAIN clients \subseteq DOMAIN clients'
  /\ \A c \in DOMAIN clients : clients'[c] = clients[c]
  /\ \A c \in DOMAIN clients' :
       c \in DOMAIN clients \/ clients'[c].grants.array \notin DOMAIN arrays

\* A slice of an array of its own.
Fresh(s) ==
  /\ s \in Slice
  /\ s.array \in DOMAIN arrays' /\ s.array \notin DOMAIN arrays
  /\ s.len <= Len(arrays'[s.array])
  /\ \A c \in DOMAIN clients' : clients'[c].grants.array # s.array

\* So the contexts stay right if what is new is handed out fresh and agrees.
LEMMA ContextsKept ==
  ASSUME IInv, Grown, ClientsGrow, claims' = claims, written' = written,
         contexts' \in Seq(Context),
         \A s \in Handed' : s \in Handed \/ Fresh(s),
         \A y \in DOMAIN contexts' :
           \/ y \in DOMAIN contexts /\ contexts'[y] = contexts[y]
           \/ contexts'[y].client \in DOMAIN clients' /\ (claims # NoClaims => Agrees(y)')
  PROVE  ContextsOK' /\ Separate' /\ PermissionsAgree'
<1>1. ASSUME NEW s \in Handed'
      PROVE  /\ s \in Slice /\ s.array \in DOMAIN arrays' /\ s.len <= Len(arrays'[s.array])
             /\ \A c \in DOMAIN clients' : clients'[c].grants.array # s.array
             /\ claims # NoClaims => claims.array # s.array
  <2>1. CASE s \in Handed
    <3>1. SliceOK(s)
      BY <2>1 DEF IInv, TypeOK, ContextsOK
    <3>2. s \in Slice /\ s.array \in DOMAIN arrays' /\ s.len <= Len(arrays'[s.array])
      BY <3>1, Kept
    <3>3. s.array \in DOMAIN arrays
      BY <3>1 DEF SliceOK
    <3>4. /\ \A c \in DOMAIN clients : clients[c].grants.array # s.array
          /\ claims # NoClaims => claims.array # s.array
      BY <2>1 DEF IInv, Separate
    <3> QED
      BY <3>2, <3>3, <3>4 DEF ClientsGrow
  <2>2. CASE Fresh(s)
    <3>1. claims # NoClaims => claims.array \in DOMAIN arrays
      BY DEF IInv, TypeOK, SliceOK
    <3> QED
      BY <2>2, <3>1 DEF Fresh
  <2> QED
    BY <2>1, <2>2
<1>2. ASSUME NEW y \in DOMAIN contexts'
      PROVE  /\ contexts'[y].client \in DOMAIN clients'
             /\ claims # NoClaims => Agrees(y)'
  <2>1. CASE y \in DOMAIN contexts /\ contexts'[y] = contexts[y]
    <3>1. contexts[y].client \in DOMAIN clients
      BY <2>1 DEF IInv, TypeOK, ContextsOK
    <3>2. contexts[y].permissions \in Handed
      BY <2>1 DEF Handed
    <3>3. SliceOK(contexts[y].permissions) /\ SliceOK(clients[contexts[y].client].grants)
      BY <3>1, <3>2 DEF IInv, TypeOK, ContextsOK, ClientsOK
    <3>4. clients'[contexts[y].client] = clients[contexts[y].client]
          /\ contexts[y].client \in DOMAIN clients'
      BY <3>1 DEF ClientsGrow
    <3>5. ASSUME claims # NoClaims
          PROVE  Agrees(y)'
      <4>1. SliceOK(claims) /\ Agrees(y)
        BY <3>5, <2>1 DEF IInv, TypeOK, PermissionsAgree
      <4>2. /\ SubSeq(arrays'[claims.array], 1, claims.len) = Elements(claims)
            /\ SubSeq(arrays'[contexts[y].permissions.array], 1, contexts[y].permissions.len)
                 = Elements(contexts[y].permissions)
            /\ SubSeq(arrays'[clients[contexts[y].client].grants.array], 1,
                      clients[contexts[y].client].grants.len)
                 = Elements(clients[contexts[y].client].grants)
        BY <3>3, <4>1, Kept
      <4> QED
        BY <2>1, <3>4, <4>1, <4>2 DEF Agrees, Elements
    <3> QED
      BY <2>1, <3>4, <3>5
  <2> QED
    BY <2>1
<1>3. ContextsOK'
  BY <1>1, <1>2 DEF ContextsOK, SliceOK
<1>4. Separate'
  BY <1>1 DEF Separate
<1>5. PermissionsAgree'
  BY <1>2 DEF PermissionsAgree
<1> QED
  BY <1>3, <1>4, <1>5

\* The rest of the types.
LEMMA TypesKept ==
  ASSUME IInv, Grown, claims' = claims, written' = written, ClientsOK', ContextsOK'
  PROVE  TypeOK'
<1>1. claims # NoClaims =>
        /\ claims \in Slice /\ claims.array \in DOMAIN arrays'
        /\ claims.len <= Len(arrays'[claims.array])
        /\ ToSet(SubSeq(arrays'[claims.array], 1, claims.len)) \subseteq Grants
  BY Kept DEF IInv, TypeOK
<1>2. written' \subseteq DOMAIN arrays'
  BY DEF IInv, TypeOK, Grown
<1> QED
  BY <1>1, <1>2 DEF TypeOK, SliceOK, Elements, Grown, Heap

-----------------------------------------------------------------------------
(* The actions. *)

\* Allocating one array.
LEMMA OneArray ==
  ASSUME arrays \in Heap, NEW q \in Seq(Grants), arrays' = Append(arrays, Normalized(q))
  PROVE  Grown /\ Holds(Len(arrays) + 1, q)
<1>1. Normalized(q) \in Seq(Grants \cup {Blank})
  BY NormalForm
<1> DEFINE z == Normalized(q)
<1>2. arrays' = Append(arrays, z) /\ z \in Seq(Grants \cup {Blank})
  BY <1>1
<1> HIDE DEF z
<1>3. arrays' \in Heap /\ DOMAIN arrays' = DOMAIN arrays \cup {Len(arrays) + 1}
      /\ arrays'[Len(arrays) + 1] = z /\ \A i \in DOMAIN arrays : arrays'[i] = arrays[i]
  BY <1>2 DEF Heap
<1> QED
  BY <1>3 DEF Grown, Holds, z

\* Allocating two.
LEMMA TwoArrays ==
  ASSUME arrays \in Heap, NEW q \in Seq(Grants), NEW p \in Seq(Grants),
         arrays' = arrays \o <<Normalized(q), Normalized(p)>>
  PROVE  Grown /\ Holds(Len(arrays) + 1, q) /\ Holds(Len(arrays) + 2, p)
<1>1. Normalized(q) \in Seq(Grants \cup {Blank}) /\ Normalized(p) \in Seq(Grants \cup {Blank})
  BY NormalForm
<1> DEFINE z == Normalized(q)
           t == Normalized(p)
<1>2. arrays' = arrays \o <<z, t>> /\ z \in Seq(Grants \cup {Blank}) /\ t \in Seq(Grants \cup {Blank})
  BY <1>1
<1> HIDE DEF z, t
<1>3. /\ arrays' \in Heap /\ DOMAIN arrays' = DOMAIN arrays \cup {Len(arrays) + 1, Len(arrays) + 2}
      /\ arrays'[Len(arrays) + 1] = z /\ arrays'[Len(arrays) + 2] = t
      /\ \A i \in DOMAIN arrays : arrays'[i] = arrays[i]
  BY <1>2 DEF Heap
<1> QED
  BY <1>3 DEF Grown, Holds, z, t

\* A derived client joins the others, with a slice of its own.
LEMMA ClientsJoined ==
  ASSUME ConstantsAssumption, TypeOK,
         NEW c \in DOMAIN clients, NEW grants, NEW system \in BOOLEAN,
         Derives(c, grants, system)
  PROVE  /\ ClientsGrow
         /\ DOMAIN clients' = DOMAIN clients \cup {Len(clients) + 1}
         /\ clients'[Len(clients) + 1] = DerivedClient(c, grants, system, Len(arrays) + 1)
         /\ clients'[Len(clients) + 1].grants.array = Len(arrays) + 1
<1> DEFINE d == DerivedClient(c, grants, system, Len(arrays) + 1)
<1>1. d \in Client /\ d.grants.array = Len(arrays) + 1
  BY DerivedOne DEF DerivedClient
<1>2. clients' = Append(clients, d) /\ clients \in Seq(Client)
  BY DEF Derives, TypeOK, ClientsOK
<1> HIDE DEF d
<1>3. /\ DOMAIN clients' = DOMAIN clients \cup {Len(clients) + 1}
      /\ clients'[Len(clients) + 1] = d
      /\ \A i \in DOMAIN clients : clients'[i] = clients[i]
  BY <1>1, <1>2
<1>4. Len(arrays) + 1 \notin DOMAIN arrays
  BY DEF TypeOK
<1>5. ClientsGrow
  BY <1>1, <1>3, <1>4 DEF ClientsGrow
<1> QED
  BY <1>1, <1>3, <1>5 DEF d

LEMMA ClientDerivesStep ==
  ASSUME ConstantsAssumption, IInv,
         NEW c \in DOMAIN clients, NEW grants, NEW system \in BOOLEAN,
         ClientDerives(c, grants, system)
  PROVE  IInv' /\ Selections!Next
<1>1. Wanted(c, grants) \in Seq(Grants) /\ MayDerive(c, grants, system)
  BY ArgumentsAreGrants, WantedGrants DEF ClientDerives, IInv
<1>2. Grown /\ Holds(Len(arrays) + 1, Wanted(c, grants))
  BY <1>1, OneArray DEF ClientDerives, IInv, TypeOK, Heap
<1>3. Derives(c, grants, system)
  BY <1>1, <1>2 DEF ClientDerives, Derives
<1>4. Selections!Next
  BY <1>3, DerivesABranch DEF IInv
<1>5. ClientsOK' /\ ClientsGrow
  BY <1>3, ClientsDerived, ClientsJoined DEF IInv
<1>6. claims' = claims /\ written' = written /\ contexts' = contexts /\ handed' = handed
  BY DEF ClientDerives
<1>7. ContextsOK' /\ Separate' /\ PermissionsAgree'
  <2>1. contexts' \in Seq(Context)
    BY <1>6 DEF IInv, TypeOK, ContextsOK
  <2>2. Handed' = Handed
    BY <1>6 DEF Handed
  <2> QED
    BY <1>2, <1>5, <1>6, <2>1, <2>2, ContextsKept
<1>8. TypeOK'
  BY <1>2, <1>5, <1>6, <1>7, TypesKept
<1> QED
  BY <1>4, <1>7, <1>8 DEF IInv

\* A context whose claims are not known.
LEMMA UnsignedContext ==
  ASSUME ConstantsAssumption, IInv, claims = NoClaims,
         NEW x \in DOMAIN contexts, NEW grants, NEW system \in BOOLEAN,
         ContextDerives(x, grants, system)
  PROVE  IInv' /\ Selections!Next
<1> DEFINE c == contexts[x].client
           y == [contexts[x] EXCEPT !.client = Len(clients) + 1]
           a == Len(arrays) + 1
<1>1. c \in DOMAIN clients /\ contexts \in Seq(Context)
  BY DEF IInv, TypeOK, ContextsOK
<1>2. /\ MayDerive(c, grants, system)
      /\ clients' = Append(clients, DerivedClient(c, grants, system, a))
      /\ arrays' = Append(arrays, Normalized(Wanted(c, grants)))
      /\ contexts' = Append(contexts, y)
      /\ claims' = claims /\ handed' = handed /\ written' = written
  BY DEF ContextDerives
<1>3. Wanted(c, grants) \in Seq(Grants)
  BY <1>1, <1>2, ArgumentsAreGrants, WantedGrants DEF IInv
<1>4. Grown /\ Holds(a, Wanted(c, grants))
  BY <1>2, <1>3, OneArray DEF IInv, TypeOK, Heap
<1>5. Derives(c, grants, system)
  BY <1>2, <1>4 DEF Derives
<1>6. Selections!Next
  BY <1>1, <1>5, DerivesABranch DEF IInv
<1>7. /\ ClientsOK' /\ ClientsGrow
      /\ DOMAIN clients' = DOMAIN clients \cup {Len(clients) + 1}
  BY <1>1, <1>5, ClientsDerived, ClientsJoined DEF IInv
<1>8. Len(clients) \in Nat
  BY DEF IInv, TypeOK, ClientsOK
<1>9. y \in Context /\ y.client = Len(clients) + 1 /\ y.permissions = contexts[x].permissions
  <2> DEFINE k == contexts[x]
  <2>1. k \in Context
    BY <1>1
  <2>2. y = [k EXCEPT !.client = Len(clients) + 1]
    OBVIOUS
  <2> HIDE DEF k, y
  <2>3. y \in Context /\ y.client = Len(clients) + 1 /\ y.permissions = k.permissions
    BY <2>1, <2>2, <1>8 DEF Context
  <2> QED
    BY <2>3 DEF k
<1> HIDE DEF y, c
<1>10. /\ contexts' \in Seq(Context) /\ DOMAIN contexts' = DOMAIN contexts \cup {Len(contexts) + 1}
       /\ contexts'[Len(contexts) + 1] = y
       /\ \A i \in DOMAIN contexts : contexts'[i] = contexts[i]
  BY <1>1, <1>2, <1>9
<1>11. Handed' = Handed
  BY <1>2, <1>9, <1>10 DEF Handed
<1>12. ContextsOK' /\ Separate' /\ PermissionsAgree'
  BY <1>2, <1>4, <1>7, <1>9, <1>10, <1>11, ContextsKept
<1>13. TypeOK'
  BY <1>2, <1>4, <1>7, <1>12, TypesKept
<1> QED
  BY <1>6, <1>12, <1>13 DEF IInv

\* A context whose permissions are projected from those that were signed.
LEMMA SignedContext ==
  ASSUME ConstantsAssumption, IInv, claims # NoClaims,
         NEW x \in DOMAIN contexts, NEW grants, NEW system \in BOOLEAN,
         ContextDerives(x, grants, system)
  PROVE  IInv' /\ Selections!Next
<1> DEFINE c == contexts[x].client
           a == Len(arrays) + 1
           b == a + 1
           q == Wanted(c, grants)
           d == DerivedClient(c, grants, system, a)
           p == Projection(Elements(claims), q, d.system)
           y == [client |-> Len(clients) + 1, permissions |-> SliceOf(p, b),
                 isSystem |-> d.system]
<1>1. c \in DOMAIN clients /\ contexts \in Seq(Context)
  BY DEF IInv, TypeOK, ContextsOK
<1>2. /\ MayDerive(c, grants, system)
      /\ clients' = Append(clients, d)
      /\ arrays' = arrays \o <<Normalized(q), Normalized(p)>>
      /\ contexts' = Append(contexts, y)
      /\ claims' = claims /\ handed' = handed /\ written' = written
  BY DEF ContextDerives, Snapshot
<1>3. q \in Seq(Grants)
  BY <1>1, <1>2, ArgumentsAreGrants, WantedGrants DEF IInv
<1>4. SliceOK(claims) /\ Elements(claims) \in Seq(Grants)
  BY SliceElements DEF IInv, TypeOK, Heap
<1>5. d.system \in BOOLEAN
  <2>1. d.system = (clients[c].system \/ system)
    BY Zenon DEF DerivedClient
  <2>2. clients[c] \in Client
    BY <1>1 DEF IInv, TypeOK, ClientsOK
  <2> QED
    BY <2>1, <2>2 DEF Client
<1> HIDE DEF d, q, c, b
<1>6. p \in Seq(Grants) /\ ToSet(p) = ToSet(Elements(claims)) \cup ToSet(q) \cup Starred(d.system)
  BY <1>3, <1>4, <1>5, Projected
<1> HIDE DEF p
<1>7. Grown /\ Holds(a, q) /\ Holds(b, p)
  <2>1. Grown /\ Holds(Len(arrays) + 1, q) /\ Holds(Len(arrays) + 2, p)
    BY <1>2, <1>3, <1>6, TwoArrays DEF IInv, TypeOK, Heap
  <2>2. b = Len(arrays) + 2
    BY DEF IInv, TypeOK, b
  <2> QED
    BY <2>1, <2>2
<1>8. Derives(c, grants, system)
  BY <1>2, <1>7 DEF Derives, d, q
<1>9. Selections!Next
  BY <1>1, <1>8, DerivesABranch DEF IInv
<1>10. /\ ClientsOK' /\ ClientsGrow
       /\ DOMAIN clients' = DOMAIN clients \cup {Len(clients) + 1}
       /\ clients'[Len(clients) + 1] = d /\ d.grants.array = a
  BY <1>1, <1>8, ClientsDerived, ClientsJoined DEF IInv, d
<1>11. Len(clients) \in Nat /\ a \in Nat /\ b \in Nat
  BY DEF IInv, TypeOK, ClientsOK, b
<1>12. LET s == SliceOf(p, b) IN
       /\ s \in Slice /\ s.array = b
       /\ s.array \in DOMAIN arrays' /\ s.len <= Len(arrays'[s.array])
       /\ ToSet(SubSeq(arrays'[s.array], 1, s.len)) = ToSet(p)
  BY <1>6, <1>7, <1>11, FreshSlice
<1>13. y \in Context
  BY <1>5, <1>11, <1>12 DEF Context
<1>14. y.client = Len(clients) + 1 /\ y.permissions = SliceOf(p, b) /\ y.isSystem = d.system
  OBVIOUS
<1> HIDE DEF y
<1>15. /\ contexts' \in Seq(Context) /\ DOMAIN contexts' = DOMAIN contexts \cup {Len(contexts) + 1}
       /\ contexts'[Len(contexts) + 1] = y
       /\ \A i \in DOMAIN contexts : contexts'[i] = contexts[i]
  BY <1>1, <1>2, <1>13
<1>16. Fresh(y.permissions)
  <2>1. \A i \in DOMAIN clients' : clients'[i].grants.array # b
    BY <1>10, <1>11 DEF b, ClientsGrow, IInv, TypeOK, ClientsOK, SliceOK
  <2>2. b \notin DOMAIN arrays
    BY DEF IInv, TypeOK, b
  <2> QED
    BY <1>12, <1>14, <2>1, <2>2 DEF Fresh
<1>17. \A s \in Handed' : s \in Handed \/ Fresh(s)
  BY <1>2, <1>15, <1>16 DEF Handed
<1>18. ASSUME NEW z, z = Len(contexts) + 1
       PROVE  Agrees(z)'
  <2>1. SubSeq(arrays'[claims.array], 1, claims.len) = Elements(claims)
    BY <1>4, <1>7, Kept
  <2>2. ToSet(SubSeq(arrays'[d.grants.array], 1, d.grants.len)) = ToSet(q)
    <3>1. d.grants = SliceOf(q, a)
      BY DEF d, q, DerivedClient
    <3> QED
      BY <3>1, <1>3, <1>7, <1>11, FreshSlice
  <2> DEFINE o == contexts'[z].permissions
  <2>3. /\ o = SliceOf(p, b) /\ contexts'[z].isSystem = d.system
        /\ clients'[contexts'[z].client] = d
    BY <1>10, <1>14, <1>15, <1>18
  <2>4. ToSet(SubSeq(arrays'[o.array], 1, o.len)) =
          ToSet(Elements(claims)) \cup ToSet(q) \cup Starred(d.system)
    BY <1>6, <1>12, <2>3
  <2> QED
    BY <1>2, <2>1, <2>2, <2>3, <2>4 DEF Agrees, Elements, Starred
<1>19. ContextsOK' /\ Separate' /\ PermissionsAgree'
  <2>1. ASSUME NEW z \in DOMAIN contexts'
        PROVE  \/ z \in DOMAIN contexts /\ contexts'[z] = contexts[z]
               \/ contexts'[z].client \in DOMAIN clients' /\ (claims # NoClaims => Agrees(z)')
    <3>1. CASE z \in DOMAIN contexts
      BY <3>1, <1>15
    <3>2. CASE z = Len(contexts) + 1
      <4>1. Agrees(z)'
        BY <3>2, <1>18
      <4> QED
        BY <4>1, <3>2, <1>10, <1>14, <1>15
    <3> QED
      BY <3>1, <3>2, <1>15
  <2> QED
    BY <1>2, <1>7, <1>10, <1>15, <1>17, <2>1, ContextsKept
<1>20. TypeOK'
  BY <1>2, <1>7, <1>10, <1>19, TypesKept
<1> QED
  BY <1>9, <1>19, <1>20 DEF IInv

\* A client keeps its grants while arrays are only added.
LEMMA ElevationStep ==
  ASSUME ConstantsAssumption, IInv, NEW c \in DOMAIN clients, Elevation(c)
  PROVE  IInv' /\ Branches(arrays', clients') = Branches(arrays, clients)
<1> DEFINE q == Elements(clients[c].grants)
           a == Len(arrays) + 1
<1>1. /\ arrays' = Append(arrays, Normalized(q))
      /\ handed' = handed \cup {SliceOf(q, a)}
      /\ claims' = claims /\ clients' = clients /\ contexts' = contexts /\ written' = written
  BY DEF Elevation
<1>2. q \in Seq(Grants)
  BY SliceElements DEF IInv, TypeOK, ClientsOK, Heap
<1> HIDE DEF q
<1>3. Grown /\ Holds(a, q) /\ a \in Nat /\ a \notin DOMAIN arrays
  BY <1>1, <1>2, OneArray DEF IInv, TypeOK, Heap
<1> HIDE DEF a
<1>4. ASSUME NEW i \in DOMAIN clients
      PROVE  LET s == clients[i].grants IN
             /\ SliceOK(s) /\ s.array # a
             /\ s \in Slice /\ s.array \in DOMAIN arrays' /\ s.len <= Len(arrays'[s.array])
             /\ SubSeq(arrays'[s.array], 1, s.len) = Elements(s)
  <2>1. SliceOK(clients[i].grants)
    BY DEF IInv, TypeOK, ClientsOK
  <2>2. clients[i].grants.array # a
    BY <2>1, <1>3 DEF SliceOK
  <2> QED
    BY <2>1, <2>2, <1>3, Kept
<1>5. ClientsOK'
  BY <1>1, <1>4 DEF IInv, TypeOK, ClientsOK, SliceOK, Elements
<1>6. ClientsGrow
  BY <1>1 DEF ClientsGrow
<1>7. Fresh(SliceOf(q, a))
  BY <1>1, <1>2, <1>3, <1>4, FreshSlice DEF Fresh
<1>8. contexts' \in Seq(Context) /\ \A s \in Handed' : s \in Handed \/ Fresh(s)
  BY <1>1, <1>7 DEF Handed, IInv, TypeOK, ContextsOK
<1>9. ContextsOK' /\ Separate' /\ PermissionsAgree'
  BY <1>1, <1>3, <1>6, <1>8, ContextsKept
<1>10. TypeOK'
  BY <1>1, <1>3, <1>5, <1>9, TypesKept
<1>11. Branches(arrays', clients') = Branches(arrays, clients)
  BY <1>1, <1>4 DEF Branches, BranchOf, Elements
<1> QED
  BY <1>9, <1>10, <1>11 DEF IInv

\* What the handler writes reaches no client, and no signed permission: only the
\* slice it wrote to, and those that share its array.
LEMMA ScribbleStep ==
  ASSUME ConstantsAssumption, IInv, NEW s \in Handed, NEW grant \in Ink,
         NEW i \in DOMAIN arrays[s.array], Scribble(s, i, grant)
  PROVE  IInv' /\ Branches(arrays', clients') = Branches(arrays, clients)
<1> DEFINE o == arrays[s.array]
           z == [o EXCEPT ![i] = grant]
<1>1. /\ arrays' = [arrays EXCEPT ![s.array] = z]
      /\ written' = written \cup {s.array}
      /\ claims' = claims /\ clients' = clients /\ contexts' = contexts /\ handed' = handed
  BY DEF Scribble
<1>2. SliceOK(s) /\ s.array \in DOMAIN arrays /\ arrays \in Heap
  BY DEF IInv, TypeOK, ContextsOK, SliceOK, Heap
<1>3. o \in Seq(Grants \cup {Blank}) /\ i \in DOMAIN o
  BY <1>2 DEF Heap
<1>4. z \in Seq(Grants \cup {Blank}) /\ Len(z) = Len(o)
  <2>1. grant \in Grants \cup {Blank}
    BY DEF ConstantsAssumption
  <2> HIDE DEF o
  <2> QED
    BY <1>3, <2>1
<1> HIDE DEF z
<1>5. /\ arrays' \in Heap /\ DOMAIN arrays' = DOMAIN arrays
      /\ \A k \in DOMAIN arrays : Len(arrays'[k]) = Len(arrays[k])
      /\ \A k \in DOMAIN arrays : k # s.array => arrays'[k] = arrays[k]
  BY <1>1, <1>2, <1>4 DEF Heap
<1>6. /\ \A c \in DOMAIN clients :
           SliceOK(clients[c].grants) /\ clients[c].grants.array # s.array
      /\ claims # NoClaims => SliceOK(claims) /\ claims.array # s.array
  BY DEF IInv, TypeOK, ClientsOK, Separate
<1>7. ClientsOK'
  BY <1>1, <1>5, <1>6 DEF IInv, TypeOK, ClientsOK, SliceOK, Elements
<1>8. Handed' = Handed
  BY <1>1 DEF Handed
<1>9. ContextsOK'
  BY <1>1, <1>5, <1>8 DEF IInv, TypeOK, ContextsOK, SliceOK
<1>10. TypeOK'
  <2>1. claims # NoClaims =>
          /\ claims \in Slice /\ claims.array \in DOMAIN arrays'
          /\ claims.len <= Len(arrays'[claims.array])
          /\ ToSet(SubSeq(arrays'[claims.array], 1, claims.len)) \subseteq Grants
    BY <1>5, <1>6 DEF IInv, TypeOK, SliceOK, Elements
  <2>2. written' \subseteq DOMAIN arrays'
    BY <1>1, <1>2, <1>5 DEF IInv, TypeOK
  <2> QED
    BY <2>1, <2>2, <1>1, <1>5, <1>7, <1>9 DEF TypeOK, SliceOK, Elements, Heap
<1>11. Separate'
  BY <1>1, <1>8 DEF IInv, Separate
<1>12. ASSUME NEW x \in DOMAIN contexts, claims # NoClaims
       PROVE  Agrees(x)'
  <2>1. Agrees(x) /\ contexts[x].client \in DOMAIN clients
    BY <1>12 DEF IInv, TypeOK, ContextsOK, PermissionsAgree
  <2>2. contexts[x].permissions \in Handed
    BY DEF Handed
  <2>3. contexts[x].permissions.array \in DOMAIN arrays
    BY <2>2 DEF IInv, TypeOK, ContextsOK, SliceOK
  <2>4. arrays'[claims.array] = arrays[claims.array]
        /\ arrays'[clients[contexts[x].client].grants.array]
             = arrays[clients[contexts[x].client].grants.array]
    BY <1>5, <1>6, <1>12, <2>1 DEF SliceOK
  <2>5. contexts[x].permissions.array \notin written' =>
          /\ contexts[x].permissions.array \notin written
          /\ arrays'[contexts[x].permissions.array] = arrays[contexts[x].permissions.array]
    BY <1>1, <1>5, <2>3
  <2> QED
    BY <1>1, <2>1, <2>4, <2>5 DEF Agrees, Elements
<1>13. PermissionsAgree'
  BY <1>1, <1>12 DEF PermissionsAgree
<1>14. Branches(arrays', clients') = Branches(arrays, clients)
  BY <1>1, <1>5, <1>6 DEF Branches, BranchOf, SliceOK
<1> QED
  BY <1>10, <1>11, <1>13, <1>14 DEF IInv

-----------------------------------------------------------------------------
(* The theorems. *)

\* The branches a state stands for.
Seen == [c \in DOMAIN clients |->
          [grants |-> ToSet(Elements(clients[c].grants)), system |-> clients[c].system,
           chosen |-> clients[c].selected, silent |-> clients[c].broken]]

\* The call's own client is an inherited branch.
LEMMA InitMaps ==
  ASSUME ConstantsAssumption, Init
  PROVE  IInv /\ Selections!Init
<1>1. PICK granted \in Arguments, signed \in Arguments,
           system \in BOOLEAN, broken \in BOOLEAN, known \in BOOLEAN :
        /\ broken => granted = <<>> /\ ~system
        /\ Arrives(granted, signed, system, broken, known)
  BY Zenon DEF Init
<1>2. IInv
  BY <1>1, ArrivesInv
<1> DEFINE k == [grants |-> SliceOf(granted, 1), system |-> system,
                 selected |-> FALSE, broken |-> broken]
           b == [grants |-> ToSet(granted), system |-> system, chosen |-> FALSE,
                 silent |-> broken]
           rest == <<Append(signed, Blank),
                     IF known THEN Normalized(Projection(signed, granted, system)) ELSE <<>>>>
<1>3. clients = <<k>> /\ arrays = <<Normalized(granted), rest[1], rest[2]>>
  BY <1>1 DEF Arrives
<1>4. granted \in Seq(Grants)
  BY DEF ConstantsAssumption
<1> HIDE DEF rest
<1>5. arrays[1] = Normalized(granted)
  BY <1>3
<1>6. ToSet(Elements(k.grants)) = ToSet(granted)
  BY <1>4, <1>5, NormalSlice DEF Elements
<1>7. /\ k.system = system /\ k.selected = FALSE /\ k.broken = broken
      /\ DOMAIN clients = {1} /\ clients[1] = k
  BY <1>3
<1> HIDE DEF k
<1>8. Seen = <<b>>
  <2>1. Seen = [c \in {1} |-> b]
    BY <1>6, <1>7 DEF Seen
  <2> HIDE DEF b
  <2> QED
    BY <2>1
<1>9. b \in Selections!Inherited
  <2>1. ToSet(granted) \subseteq Grants
    BY <1>4, Elems
  <2>2. broken => ToSet(granted) = {}
    BY <1>1 DEF ToSet
  <2> QED
    BY <1>1, <2>1, <2>2 DEF Selections!Inherited, Selections!Branch
<1> QED
  BY <1>2, <1>8, <1>9 DEF Selections!Init, Seen

\* Every step keeps the invariant, and adds a branch or changes none.
LEMMA NextMaps ==
  ASSUME ConstantsAssumption, IInv, [Next]_vars
  PROVE  IInv' /\ (Selections!Next \/ UNCHANGED Seen)
<1>1. ASSUME NEW grants \in Arguments, NEW system \in BOOLEAN, NEW c \in DOMAIN clients,
             ClientDerives(c, grants, system)
      PROVE  IInv' /\ Selections!Next
  BY <1>1, ClientDerivesStep
<1>2. ASSUME NEW grants \in Arguments, NEW system \in BOOLEAN, NEW x \in DOMAIN contexts,
             ContextDerives(x, grants, system)
      PROVE  IInv' /\ Selections!Next
  BY <1>2, SignedContext, UnsignedContext
<1>3. Seen = Branches(arrays, clients) /\ Seen' = Branches(arrays', clients')
  BY DEF Seen, Branches, BranchOf, Elements
<1>4. ASSUME NEW c \in DOMAIN clients, Elevation(c)
      PROVE  IInv' /\ UNCHANGED Seen
  BY <1>3, <1>4, ElevationStep
<1>5. ASSUME NEW s \in Handed, NEW grant \in Ink, NEW i \in DOMAIN arrays[s.array],
             Scribble(s, i, grant)
      PROVE  IInv' /\ UNCHANGED Seen
  BY <1>3, <1>5, ScribbleStep
<1>6. CASE UNCHANGED vars
  BY <1>6 DEF vars, IInv, TypeOK, ClientsOK, ContextsOK, Separate, PermissionsAgree, Agrees,
              SliceOK, Elements, Handed, Seen
<1> QED
  BY <1>1, <1>2, <1>4, <1>5, <1>6 DEF Next

\* Every slice is one, and every client's grants are in normal form.
THEOREM TypeCorrect == Spec => []TypeOK
<1>1. Init => IInv
  BY ConstantsAssumption, InitMaps
<1>2. IInv /\ [Next]_vars => IInv'
  BY ConstantsAssumption, NextMaps
<1> QED
  BY <1>1, <1>2, PTL DEF Spec, IInv

\* The permissions of a context are the signed ones and those its client selects,
\* as long as the handler has not written to them.
THEOREM PermissionsAlwaysAgree == Spec => []PermissionsAgree
<1>1. Init => IInv
  BY ConstantsAssumption, InitMaps
<1>2. IInv /\ [Next]_vars => IInv'
  BY ConstantsAssumption, NextMaps
<1> QED
  BY <1>1, <1>2, PTL DEF Spec, IInv

\* Clients are values: nothing a handler derives from one, or writes to what it
\* was handed, changes what another selects.
THEOREM Refines == Spec => ImplementsSelections
<1>1. Init => IInv /\ Selections!Init
  BY ConstantsAssumption, InitMaps
<1>2. IInv /\ [Next]_vars => IInv' /\ (Selections!Next \/ UNCHANGED Seen)
  BY ConstantsAssumption, NextMaps
<1>3. UNCHANGED Seen =>
        UNCHANGED [c \in DOMAIN clients |->
                     [grants |-> ToSet(Elements(clients[c].grants)),
                      system |-> clients[c].system,
                      chosen |-> clients[c].selected, silent |-> clients[c].broken]]
  BY DEF Seen
<1> QED
  BY <1>1, <1>2, <1>3, PTL DEF Spec, ImplementsSelections, Selections!Spec
=============================================================================
