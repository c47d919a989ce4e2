------------------------- MODULE JsonNumbers_proofs -------------------------
(***************************************************************************)
(* Proofs about JsonNumbers, for any values, places and documents.         *)
(*                                                                         *)
(* The calls in progress descend from the root (Descends); of each, what   *)
(* its loop has come past was checked, or is what the next call is about   *)
(* (Behind); and what was checked is closed under elements, has no unsafe  *)
(* number in it and no endless part (Settled).  Once the root is checked,  *)
(* all that can be reached from it is.                                     *)
(***************************************************************************)
EXTENDS JsonNumbers, SequenceTheorems, TLAPS

Marks(d, p) == {d.place[p[i].value] : i \in {j \in DOMAIN p : IsTracked(d, p[j].value)}}

Descends(d, p) ==
  /\ p # << >> => p[1].value = d.root
  /\ \A i \in DOMAIN p : /\ d.kind[p[i].value] \notin Scalars
                         /\ p[i].value \in Seen(d)
                         /\ p[i].todo \subseteq Elements(d, p[i].value)
  /\ \A i \in DOMAIN p : i + 1 \in DOMAIN p => p[i + 1].value \in Elements(d, p[i].value)
  /\ \A i, j \in DOMAIN p : SameVisit(d, p[i].value, p[j].value) => i = j

\* now: what the loop of the last call is at.
Behind(d, p, c, now) ==
  \A i \in DOMAIN p :
    Elements(d, p[i].value) \ p[i].todo \subseteq c \cup (IF i + 1 \in DOMAIN p THEN {p[i + 1].value} ELSE now)

Settled(d, c) ==
  /\ Closed(d, c)
  /\ \A v \in c : d.kind[v] # "unsafe"
  /\ \A C \in SUBSET c : ~ Endless(d, C)

\* v is what the last of the calls p has come to, or the root.
ComesTo(d, p, v) ==
  /\ v \in Seen(d)
  /\ p = << >> => v = d.root
  /\ p # << >> => v \in Elements(d, p[Len(p)].value)

Shared(d) == \E v, w \in Seen(d) : v # w /\ SameVisit(d, v, w)

VerdictFits(d, p, c, r) ==
  /\ r # "none" => p = << >>
  /\ r = "ok" => d.root \in c
  /\ r = "unsafe" => \E v \in Seen(d) : d.kind[v] = "unsafe"
  /\ r = "cyclic" => ContainsItself(d) \/ Shared(d)

IInv ==
  /\ TypeOK
  /\ Descends(doc, path)
  /\ Behind(doc, path, checked, {})
  /\ Settled(doc, checked)
  /\ VerdictFits(doc, path, checked, verdict)

-----------------------------------------------------------------------------
(* What a document reaches. *)

\* A document's parts.
LEMMA DocumentParts ==
  ASSUME NEW d \in Documents
  PROVE  /\ IsGo(d)
         /\ d.root \in Values
         /\ \A v \in Values : d.kind[v] \in Kinds /\ Elements(d, v) \in SUBSET Values
         /\ \A v \in Values : d.place[v] \in Places
BY ConstantsAssumption DEF Document, Elements

\* The root is reached, and so are the elements of what is.
LEMMA ReachesOn ==
  ASSUME NEW d \in Documents
  PROVE  /\ d.root \in Seen(d)
         /\ \A v \in Seen(d) : v \in Values /\ Elements(d, v) \subseteq Seen(d)
BY DocumentParts DEF Seen, Closed

\* A closed set with the root in it has all that is reached.
LEMMA ReachedIsIn ==
  ASSUME NEW d \in Documents, NEW c \in SUBSET Values, d.root \in c, Closed(d, c)
  PROVE  Seen(d) \subseteq c
BY DEF Seen

\* One more value may be checked when its elements are: a part without an end that
\* it belonged to would have had none without it.
LEMMA SettledGrows ==
  ASSUME NEW d \in Documents, NEW c \in SUBSET Values, NEW v \in Values,
         Settled(d, c), Elements(d, v) \subseteq c, d.kind[v] # "unsafe"
  PROVE  Settled(d, c \cup {v})
<1>1. Closed(d, c \cup {v})
  BY DEF Settled, Closed
<1>2. \A w \in c \cup {v} : d.kind[w] # "unsafe"
  BY DEF Settled
<1>3. ASSUME NEW C \in SUBSET (c \cup {v}), Endless(d, C) PROVE FALSE
  <2>1. CASE v \in c
    <3>1. C \in SUBSET c
      BY <2>1
    <3> QED BY <1>3, <3>1 DEF Settled
  <2>2. CASE v \notin c
    <3> DEFINE D == C \ {v}
    <3>1. D \in SUBSET c
      OBVIOUS
    <3>2. v \in C
      <4>1. v \notin C => C \in SUBSET c
        OBVIOUS
      <4> QED BY <1>3, <4>1 DEF Settled
    <3>3. D # {}
      <4>1. Elements(d, v) \cap C # {}
        BY <1>3, <3>2 DEF Endless
      <4> QED BY <2>2, <4>1
    <3>4. \A w \in D : Elements(d, w) \cap D # {}
      <4> SUFFICES ASSUME NEW w \in D PROVE Elements(d, w) \cap D # {}
        OBVIOUS
      <4>1. Elements(d, w) \cap C # {}
        BY <1>3 DEF Endless
      <4>2. Elements(d, w) \subseteq c
        BY <3>1 DEF Settled, Closed
      <4> QED BY <2>2, <4>1, <4>2
    <3>5. Endless(d, D)
      BY <3>3, <3>4 DEF Endless
    <3> QED BY <3>1, <3>5 DEF Settled
  <2> QED BY <2>1, <2>2
<1> QED BY <1>1, <1>2, <1>3 DEF Settled

-----------------------------------------------------------------------------
(* The calls in progress. *)

\* What a call that returns was about is behind its caller.
LEMMA PassedIsBehind ==
  ASSUME NEW d, NEW p, NEW c, NEW v, Behind(d, p, c, {v})
  PROVE  Behind(d, p, c \cup {v}, {})
<1> SUFFICES ASSUME NEW i \in DOMAIN p
             PROVE  Elements(d, p[i].value) \ p[i].todo \subseteq
                      (c \cup {v}) \cup (IF i + 1 \in DOMAIN p THEN {p[i + 1].value} ELSE {})
  BY DEF Behind
<1>1. Elements(d, p[i].value) \ p[i].todo \subseteq
        c \cup (IF i + 1 \in DOMAIN p THEN {p[i + 1].value} ELSE {v})
  BY DEF Behind
<1> QED BY <1>1

\* A call is entered.
LEMMA Entered ==
  ASSUME NEW d \in Documents, NEW p \in Seq(Call), NEW c, NEW v,
         Descends(d, p), ComesTo(d, p, v), Behind(d, p, c, {v}), d.kind[v] \notin Scalars,
         IsTracked(d, v) => d.place[v] \notin Marks(d, p),
         NEW q, q = Append(p, [value |-> v, todo |-> Elements(d, v)])
  PROVE  /\ q \in Seq(Call)
         /\ Descends(d, q)
         /\ Behind(d, q, c, {})
         /\ Marks(d, q) = Marks(d, p) \cup (IF IsTracked(d, v) THEN {d.place[v]} ELSE {})
<1> DEFINE n == Len(p)
<1>1. v \in Values /\ Elements(d, v) \in SUBSET Values
  BY ReachesOn, DocumentParts DEF ComesTo
<1>2. [value |-> v, todo |-> Elements(d, v)] \in Call
  BY <1>1 DEF Call
<1>3. /\ n \in Nat /\ DOMAIN p = 1..n
      /\ q \in Seq(Call) /\ DOMAIN q = 1..(n + 1) /\ Len(q) = n + 1
      /\ \A i \in 1..n : q[i] = p[i]
      /\ q[n + 1] = [value |-> v, todo |-> Elements(d, v)]
  BY <1>2, LenProperties, AppendProperties
<1>4. q[n + 1].value = v /\ q[n + 1].todo = Elements(d, v)
  BY <1>3
<1> HIDE DEF n
<1>5. Descends(d, q)
  <2>1. q[1].value = d.root
    <3>1. CASE n = 0
      <4>1. p = << >>
        BY <1>3, <3>1 DEF n
      <4> QED BY <1>4, <3>1, <4>1 DEF ComesTo
    <3>2. CASE n # 0
      <4>1. p # << >> /\ 1 \in 1..n
        BY <1>3, <3>2
      <4> QED BY <1>3, <4>1 DEF Descends
    <3> QED BY <3>1, <3>2
  <2>2. ASSUME NEW i \in DOMAIN q
        PROVE  /\ d.kind[q[i].value] \notin Scalars
               /\ q[i].value \in Seen(d)
               /\ q[i].todo \subseteq Elements(d, q[i].value)
    <3>1. CASE i = n + 1
      BY <1>4, <3>1 DEF ComesTo
    <3>2. CASE i \in 1..n
      BY <1>3, <3>2 DEF Descends
    <3> QED BY <1>3, <3>1, <3>2
  <2>3. ASSUME NEW i \in DOMAIN q, i + 1 \in DOMAIN q
        PROVE  q[i + 1].value \in Elements(d, q[i].value)
    <3>1. CASE i = n
      <4>1. n \in 1..n /\ p # << >>
        BY <1>3, <3>1
      <4>2. v \in Elements(d, p[n].value)
        BY <4>1 DEF ComesTo, n
      <4> QED BY <1>3, <1>4, <3>1, <4>1, <4>2
    <3>2. CASE i # n
      <4>1. i \in 1..n /\ i + 1 \in 1..n
        BY <1>3, <2>3, <3>2
      <4> QED BY <1>3, <4>1 DEF Descends
    <3> QED BY <3>1, <3>2
  <2>4. ASSUME NEW i \in 1..n PROVE ~ SameVisit(d, p[i].value, v)
    BY <1>3, <2>4 DEF Marks, SameVisit
  <2>5. ASSUME NEW i \in DOMAIN q, NEW j \in DOMAIN q, SameVisit(d, q[i].value, q[j].value)
        PROVE  i = j
    <3>1. CASE i = n + 1 /\ j \in 1..n
      BY <1>3, <1>4, <2>4, <2>5, <3>1 DEF SameVisit
    <3>2. CASE j = n + 1 /\ i \in 1..n
      BY <1>3, <1>4, <2>4, <2>5, <3>2
    <3>3. CASE i \in 1..n /\ j \in 1..n
      BY <1>3, <2>5, <3>3 DEF Descends
    <3> QED BY <1>3, <3>1, <3>2, <3>3
  <2> QED BY <2>1, <2>2, <2>3, <2>5 DEF Descends
<1>6. Behind(d, q, c, {})
  <2> SUFFICES ASSUME NEW i \in DOMAIN q
               PROVE  Elements(d, q[i].value) \ q[i].todo \subseteq
                        c \cup (IF i + 1 \in DOMAIN q THEN {q[i + 1].value} ELSE {})
    BY DEF Behind
  <2>1. CASE i = n + 1
    BY <1>4, <2>1
  <2>2. CASE i \in 1..n
    <3>1. Elements(d, p[i].value) \ p[i].todo \subseteq
            c \cup (IF i + 1 \in DOMAIN p THEN {p[i + 1].value} ELSE {v})
      BY <1>3, <2>2 DEF Behind
    <3>2. i + 1 \in DOMAIN q
      BY <1>3, <2>2
    <3>3. q[i + 1].value = IF i + 1 \in DOMAIN p THEN p[i + 1].value ELSE v
      BY <1>3, <1>4, <2>2
    <3> QED BY <1>3, <2>2, <3>1, <3>2, <3>3
  <2> QED BY <1>3, <2>1, <2>2
<1>7. Marks(d, q) = Marks(d, p) \cup (IF IsTracked(d, v) THEN {d.place[v]} ELSE {})
  <2>1. DOMAIN q = DOMAIN p \cup {n + 1}
    BY <1>3
  <2>2. \A i \in DOMAIN p : q[i].value = p[i].value
    BY <1>3
  <2> QED BY <1>4, <2>1, <2>2 DEF Marks
<1> QED BY <1>3, <1>5, <1>6, <1>7

\* A call whose loop has gone on.
LEMMA LoopOn ==
  ASSUME NEW w, NEW t, NEW u
  PROVE  [[value |-> w, todo |-> t] EXCEPT !.todo = u] = [value |-> w, todo |-> u]
OBVIOUS

\* The loop of the last call comes to its next element.
LEMMA ElementTaken ==
  ASSUME NEW d \in Documents, NEW p \in Seq(Call), NEW c, NEW v,
         Descends(d, p), Behind(d, p, c, {}), p # << >>, v \in p[Len(p)].todo,
         NEW q, q = [p EXCEPT ![Len(p)].todo = @ \ {v}]
  PROVE  /\ q \in Seq(Call) /\ q # << >>
         /\ Descends(d, q)
         /\ ComesTo(d, q, v)
         /\ Behind(d, q, c, {v})
         /\ Marks(d, q) = Marks(d, p)
<1> DEFINE n == Len(p)
<1>1. n \in Nat \ {0} /\ DOMAIN p = 1..n /\ n \in 1..n
  BY LenProperties, EmptySeq
<1>2. \A i \in 1..n : p[i] \in Call
  BY <1>1, ElementOfSeq
<1> HIDE DEF n
<1>3. PICK w \in Values, t \in SUBSET Values : p[n] = [value |-> w, todo |-> t]
  BY <1>1, <1>2 DEF Call
<1>9a. p[n].value = w /\ p[n].todo = t
  BY <1>3
<1>4. [value |-> w, todo |-> t \ {v}] \in Call
  BY DEF Call
<1>5. q = [p EXCEPT ![n] = [value |-> w, todo |-> t \ {v}]]
  <2>1. [[value |-> w, todo |-> t] EXCEPT !.todo = t \ {v}] = [value |-> w, todo |-> t \ {v}]
    BY LoopOn
  <2>2. q = [p EXCEPT ![n] = [p[n] EXCEPT !.todo = p[n].todo \ {v}]]
    BY Zenon DEF n
  <2>3. [p[n] EXCEPT !.todo = p[n].todo \ {v}] = [value |-> w, todo |-> t \ {v}]
    BY <1>3, <1>9a, <2>1, Zenon
  <2> QED BY <2>2, <2>3, Zenon
<1>6. /\ q \in Seq(Call) /\ Len(q) = n /\ DOMAIN q = 1..n
      /\ \A i \in 1..n : i # n => q[i] = p[i]
      /\ q[n] = [value |-> w, todo |-> t \ {v}]
  <2>1. Len(p) = n
    BY DEF n
  <2> DEFINE e == [value |-> w, todo |-> t \ {v}]
             r == [p EXCEPT ![n] = e]
  <2> HIDE DEF e
  <2>2. r \in Seq(Call) /\ Len(r) = n /\ \A i \in 1..n : r[i] = IF i = n THEN e ELSE p[i]
    BY <1>1, <1>4, <2>1, ExceptSeq DEF e
  <2>3. DOMAIN r = 1..n
    BY <1>1
  <2>4. q = r
    BY <1>5, Zenon DEF e
  <2> HIDE DEF r
  <2>5. r[n] = e /\ \A i \in 1..n : i # n => r[i] = p[i]
    BY <1>1, <2>2
  <2> QED BY <2>2, <2>3, <2>4, <2>5, Zenon DEF e
<1>7. \A i \in 1..n : q[i].value = p[i].value /\ q[i].todo \subseteq p[i].todo
  BY <1>9a, <1>6
<1>8. q # << >>
  BY <1>1, <1>6, EmptySeq
<1>9. \A i \in DOMAIN p : /\ d.kind[p[i].value] \notin Scalars
                          /\ p[i].value \in Seen(d)
                          /\ p[i].todo \subseteq Elements(d, p[i].value)
  BY DEF Descends
<1>10. Descends(d, q)
  <2>1. q[1].value = d.root
    BY <1>1, <1>7 DEF Descends
  <2>2. \A i \in DOMAIN q : /\ d.kind[q[i].value] \notin Scalars
                            /\ q[i].value \in Seen(d)
                            /\ q[i].todo \subseteq Elements(d, q[i].value)
    BY <1>1, <1>6, <1>7, <1>9
  <2>3. \A i \in DOMAIN q : i + 1 \in DOMAIN q => q[i + 1].value \in Elements(d, q[i].value)
    BY <1>1, <1>6, <1>7 DEF Descends
  <2>4. \A i, j \in DOMAIN q : SameVisit(d, q[i].value, q[j].value) => i = j
    BY <1>1, <1>6, <1>7 DEF Descends
  <2> QED BY <2>1, <2>2, <2>3, <2>4 DEF Descends
<1>11. ComesTo(d, q, v)
  <2>1. v \in Elements(d, p[n].value) /\ p[n].value \in Seen(d)
    BY <1>1, <1>9 DEF n
  <2>2. v \in Elements(d, q[Len(q)].value)
    BY <1>1, <1>6, <1>7, <2>1
  <2> QED BY <1>8, <2>1, <2>2, ReachesOn DEF ComesTo
<1>12. Behind(d, q, c, {v})
  <2> SUFFICES ASSUME NEW i \in DOMAIN q
               PROVE  Elements(d, q[i].value) \ q[i].todo \subseteq
                        c \cup (IF i + 1 \in DOMAIN q THEN {q[i + 1].value} ELSE {v})
    BY DEF Behind
  <2>1. Elements(d, p[i].value) \ p[i].todo \subseteq
          c \cup (IF i + 1 \in DOMAIN p THEN {p[i + 1].value} ELSE {})
    BY <1>1, <1>6 DEF Behind
  <2>2. CASE i = n
    <3>1. i + 1 \notin DOMAIN p
      BY <1>1, <2>2
    <3> QED BY <1>1, <1>6, <2>1, <2>2, <3>1
  <2>3. CASE i # n
    <3>1. i + 1 \in DOMAIN p /\ i + 1 \in DOMAIN q /\ i \in 1..n
      BY <1>1, <1>6, <2>3
    <3>2. q[i + 1].value = p[i + 1].value /\ q[i] = p[i]
      BY <1>1, <1>6, <1>7, <2>3, <3>1
    <3> QED BY <2>1, <3>1, <3>2
  <2> QED BY <2>2, <2>3
<1>13. Marks(d, q) = Marks(d, p)
  BY <1>1, <1>6, <1>7 DEF Marks
<1> QED BY <1>6, <1>8, <1>10, <1>11, <1>12, <1>13

\* The last of the calls p, which was about v, can return to its callers q.
Returns(d, p, c, v, q) ==
  /\ q \in Seq(Call)
  /\ Descends(d, q)
  /\ ComesTo(d, q, v)
  /\ Behind(d, q, c, {v})
  /\ Elements(d, v) \subseteq c /\ d.kind[v] \notin Scalars
  /\ Marks(d, q) = Marks(d, p) \ (IF IsTracked(d, v) THEN {d.place[v]} ELSE {})

\* It can when it has come past all its elements.
LEMMA Popped ==
  ASSUME NEW d \in Documents, NEW p \in Seq(Call), NEW c, NEW v,
         Descends(d, p), Behind(d, p, c, {}), p # << >>, p[Len(p)].todo = {},
         v = p[Len(p)].value,
         NEW q, q = Front(p)
  PROVE  Returns(d, p, c, v, q)
<1> DEFINE n == Len(p)
<1>1. n \in Nat \ {0} /\ DOMAIN p = 1..n /\ n \in 1..n
  BY LenProperties, EmptySeq
<1>2. \A i \in 1..n : p[i] \in Call
  BY <1>1, ElementOfSeq
<1>3. q = SubSeq(p, 1, n - 1)
  BY DEF Front
<1>4. /\ q \in Seq(Call) /\ Len(q) = n - 1 /\ DOMAIN q = 1..(n - 1)
      /\ \A i \in 1..(n - 1) : q[i] = p[i]
  BY <1>1, <1>2, <1>3
<1>5. v = p[n].value /\ p[n].todo = {}
  OBVIOUS
<1>6. DOMAIN p = DOMAIN q \cup {n} /\ n \notin DOMAIN q /\ \A i \in DOMAIN q : q[i].value = p[i].value
  BY <1>1, <1>4
<1> HIDE DEF n
<1>7. Descends(d, q)
  <2>1. q # << >> => q[1].value = d.root
    <3> SUFFICES ASSUME q # << >> PROVE q[1].value = d.root
      OBVIOUS
    <3>1. Len(q) # 0
      BY <1>4, EmptySeq
    <3>2. 1 \in 1..(n - 1) /\ p # << >>
      BY <1>1, <1>4, <3>1
    <3> QED BY <1>4, <3>2 DEF Descends
  <2>2. \A i \in DOMAIN q : /\ d.kind[q[i].value] \notin Scalars
                            /\ q[i].value \in Seen(d)
                            /\ q[i].todo \subseteq Elements(d, q[i].value)
    BY <1>1, <1>4 DEF Descends
  <2>3. \A i \in DOMAIN q : i + 1 \in DOMAIN q => q[i + 1].value \in Elements(d, q[i].value)
    BY <1>1, <1>4 DEF Descends
  <2>4. \A i, j \in DOMAIN q : SameVisit(d, q[i].value, q[j].value) => i = j
    BY <1>1, <1>4 DEF Descends
  <2> QED BY <2>1, <2>2, <2>3, <2>4 DEF Descends
<1>8. ComesTo(d, q, v)
  <2>1. v \in Seen(d)
    BY <1>1, <1>5 DEF Descends
  <2>2. q = << >> => v = d.root
    <3> SUFFICES ASSUME q = << >> PROVE v = d.root
      OBVIOUS
    <3>1. n = 1
      BY <1>1, <1>4, EmptySeq
    <3> QED BY <1>5, <3>1 DEF Descends
  <2>3. q # << >> => v \in Elements(d, q[Len(q)].value)
    <3> SUFFICES ASSUME q # << >> PROVE v \in Elements(d, q[n - 1].value)
      BY <1>4
    <3>1. Len(q) # 0
      BY <1>4, EmptySeq
    <3>2. n - 1 \in 1..(n - 1) /\ n - 1 \in DOMAIN p /\ (n - 1) + 1 = n
      BY <1>1, <1>4, <3>1
    <3>3. p[(n - 1) + 1].value \in Elements(d, p[n - 1].value)
      BY <1>1, <3>2 DEF Descends
    <3> QED BY <1>4, <1>5, <3>2, <3>3
  <2> QED BY <2>1, <2>2, <2>3 DEF ComesTo
<1>9. Behind(d, q, c, {v})
  <2> SUFFICES ASSUME NEW i \in DOMAIN q
               PROVE  Elements(d, q[i].value) \ q[i].todo \subseteq
                        c \cup (IF i + 1 \in DOMAIN q THEN {q[i + 1].value} ELSE {v})
    BY DEF Behind
  <2>1. i \in 1..(n - 1) /\ i + 1 \in DOMAIN p
    BY <1>1, <1>4
  <2>2. Elements(d, p[i].value) \ p[i].todo \subseteq c \cup {p[i + 1].value}
    BY <1>1, <2>1 DEF Behind
  <2>3. p[i + 1].value = IF i + 1 \in DOMAIN q THEN q[i + 1].value ELSE v
    BY <1>1, <1>4, <1>5, <2>1
  <2> QED BY <1>4, <2>1, <2>2, <2>3
<1>10. Elements(d, v) \subseteq c
  <2>1. n \in DOMAIN p /\ n + 1 \notin DOMAIN p
    BY <1>1
  <2>2. Elements(d, p[n].value) \ p[n].todo \subseteq c \cup {}
    BY <2>1 DEF Behind
  <2> QED BY <1>5, <2>2
<1>11. d.kind[v] \notin Scalars
  BY <1>1, <1>5 DEF Descends
<1>12. Marks(d, q) = Marks(d, p) \ (IF IsTracked(d, v) THEN {d.place[v]} ELSE {})
  <2>1. \A i \in DOMAIN q : ~ SameVisit(d, p[i].value, v)
    BY <1>5, <1>6 DEF Descends
  <2> QED BY <1>5, <1>6, <2>1 DEF Marks, SameVisit
<1> QED BY <1>4, <1>7, <1>8, <1>9, <1>10, <1>11, <1>12 DEF Returns

\* A value that is marked belongs to a call in progress, which leads to it again, or
\* shares a place with what that call is about.
LEMMA MarkedForCause ==
  ASSUME NEW d \in Documents, NEW p \in Seq(Call), NEW v,
         Descends(d, p), ComesTo(d, p, v), IsTracked(d, v), d.place[v] \in Marks(d, p)
  PROVE  ContainsItself(d) \/ Shared(d)
<1> DEFINE n == Len(p)
<1>1. PICK i \in DOMAIN p : SameVisit(d, p[i].value, v)
  BY DEF Marks, SameVisit
<1>2. n \in Nat /\ DOMAIN p = 1..n /\ i \in 1..n
  BY LenProperties
<1>3. p # << >>
  BY <1>2, EmptySeq
<1>4. \A j \in DOMAIN p : p[j].value \in Seen(d)
  BY DEF Descends
<1>5. CASE p[i].value # v
  BY <1>1, <1>4, <1>5 DEF Shared, ComesTo
<1>6. CASE p[i].value = v
  <2> DEFINE S == {p[j].value : j \in i..n}
  <2>1. S \in SUBSET Seen(d)
    BY <1>2, <1>4
  <2>2. v \in S
    BY <1>2, <1>6
  <2>3. v \in Elements(d, p[n].value)
    BY <1>3 DEF ComesTo
  <2>4. ASSUME NEW j \in i..n PROVE Elements(d, p[j].value) \cap S # {}
    <3>1. CASE j = n
      BY <2>2, <2>3, <3>1
    <3>2. CASE j # n
      <4>1. j \in 1..n /\ j + 1 \in 1..n /\ j + 1 \in i..n
        <5> HIDE DEF S, n
        <5> QED BY <1>2, <3>2
      <4>2. p[j + 1].value \in Elements(d, p[j].value)
        BY <1>2, <4>1 DEF Descends
      <4> QED BY <4>1, <4>2
    <3> QED BY <3>1, <3>2
  <2>5. Endless(d, S)
    BY <2>2, <2>4 DEF Endless
  <2> QED BY <2>1, <2>5 DEF ContainsItself
<1> QED BY <1>5, <1>6

-----------------------------------------------------------------------------
(* The steps. *)

\* What it takes for the invariant to hold.
LEMMA ItHolds ==
  ASSUME NEW p \in Seq(Call), NEW c \in SUBSET Values, NEW r \in {"none", "ok", "unsafe", "cyclic"},
         doc \in Documents, doc' = doc, path' = p, checked' = c, verdict' = r,
         visiting' = Marks(doc, p), Descends(doc, p), Behind(doc, p, c, {}), Settled(doc, c),
         VerdictFits(doc, p, c, r)
  PROVE  IInv'
<1>1. TypeOK'
  BY DEF TypeOK, Marks
<1>2. Descends(doc', path') /\ Behind(doc', path', checked', {}) /\ Settled(doc', checked')
      /\ VerdictFits(doc', path', checked', verdict')
  BY Zenon
<1> QED BY <1>1, <1>2 DEF IInv

\* A call returns nil.
LEMMA PassesHolds ==
  ASSUME NEW v, NEW p \in Seq(Call), IInv,
         Descends(doc, p), ComesTo(doc, p, v), Behind(doc, p, checked, {v}),
         Elements(doc, v) \subseteq checked, doc.kind[v] # "unsafe",
         Passes(v, p), visiting' = Marks(doc, p), doc' = doc
  PROVE  IInv'
<1>1. doc \in Documents /\ checked \in SUBSET Values /\ Settled(doc, checked)
  BY DEF IInv, TypeOK
<1>2. v \in Values
  BY <1>1, ReachesOn DEF ComesTo
<1> DEFINE c == checked \cup {v}
<1>3. c \in SUBSET Values /\ Settled(doc, c) /\ Behind(doc, p, c, {})
  BY <1>1, <1>2, SettledGrows, PassedIsBehind
<1>4. checked' = c /\ path' = p /\ verdict' = IF p = << >> THEN "ok" ELSE "none"
  BY DEF Passes
<1>5. CASE p = << >>
  <2>1. doc.root \in c
    BY <1>5 DEF ComesTo
  <2>2. VerdictFits(doc, p, c, "ok")
    BY <1>5, <2>1 DEF VerdictFits
  <2> HIDE DEF c
  <2> QED BY <1>1, <1>3, <1>4, <1>5, <2>2, ItHolds
<1>6. CASE p # << >>
  <2>1. VerdictFits(doc, p, c, "none")
    BY DEF VerdictFits
  <2> HIDE DEF c
  <2> QED BY <1>1, <1>3, <1>4, <1>6, <2>1, ItHolds
<1> QED BY <1>5, <1>6

\* A call fails for a cause.
LEMMA FailsHolds ==
  ASSUME NEW why \in {"unsafe", "cyclic"}, IInv, Fails(why), doc' = doc,
         why = "unsafe" => \E v \in Seen(doc) : doc.kind[v] = "unsafe",
         why = "cyclic" => ContainsItself(doc) \/ Shared(doc)
  PROVE  IInv'
<1>1. << >> \in Seq(Call) /\ Marks(doc, << >>) = {}
  BY DEF Marks
<1>2. Descends(doc, << >>) /\ Behind(doc, << >>, checked, {})
  BY DEF Descends, Behind
<1>3. VerdictFits(doc, << >>, checked, why)
  BY DEF VerdictFits
<1>4. doc \in Documents /\ checked \in SUBSET Values /\ Settled(doc, checked)
  BY DEF IInv, TypeOK
<1>5. path' = << >> /\ visiting' = {} /\ checked' = checked /\ verdict' = why
  BY DEF Fails
<1> QED BY <1>1, <1>2, <1>3, <1>4, <1>5, ItHolds

\* Whatever is validated next.
LEMMA ValidateHolds ==
  ASSUME NEW v, NEW p \in Seq(Call), IInv, verdict = "none",
         Descends(doc, p), ComesTo(doc, p, v), Behind(doc, p, checked, {v}),
         visiting = Marks(doc, p), Validate(v, p), doc' = doc
  PROVE  IInv'
<1>1. doc \in Documents /\ checked \in SUBSET Values /\ Settled(doc, checked)
  BY DEF IInv, TypeOK
<1>2. v \in Values /\ v \in Seen(doc)
  BY <1>1, ReachesOn DEF ComesTo
<1>3. CASE doc.kind[v] \in {"plain", "struct"} /\ Passes(v, p) /\ UNCHANGED visiting
  <2>1. Elements(doc, v) = {}
    BY <1>1, <1>2, <1>3, DocumentParts DEF IsGo, Scalars, Elements
  <2>2. visiting' = Marks(doc, p)
    BY <1>3
  <2> QED BY <1>3, <2>1, <2>2, PassesHolds
<1>4. CASE doc.kind[v] = "unsafe" /\ Fails("unsafe")
  BY <1>2, <1>4, FailsHolds
<1>5. CASE IsTracked(doc, v) /\ doc.place[v] \in visiting /\ Fails("cyclic")
  BY <1>1, <1>5, MarkedForCause, FailsHolds
<1>6. ASSUME Enters(v, p), doc.kind[v] \notin Scalars,
             IsTracked(doc, v) => doc.place[v] \notin visiting,
             visiting' = visiting \cup (IF IsTracked(doc, v) THEN {doc.place[v]} ELSE {})
      PROVE  IInv'
  <2> DEFINE q == Append(p, [value |-> v, todo |-> Elements(doc, v)])
  <2>1. path' = q /\ verdict' = "none" /\ checked' = checked
    BY <1>6 DEF Enters
  <2>2. /\ q \in Seq(Call) /\ Descends(doc, q) /\ Behind(doc, q, checked, {})
        /\ visiting' = Marks(doc, q)
    BY <1>1, <1>6, Entered
  <2> HIDE DEF q
  <2>3. VerdictFits(doc, q, checked, "none")
    BY DEF VerdictFits
  <2> QED BY <1>1, <2>1, <2>2, <2>3, ItHolds
<1>7. CASE doc.kind[v] = "array" /\ Enters(v, p) /\ UNCHANGED visiting
  <2>1. doc.kind[v] \notin Scalars /\ ~ IsTracked(doc, v)
    BY <1>7 DEF Scalars, IsTracked, Tracked
  <2> QED BY <1>6, <1>7, <2>1
<1>8. CASE /\ IsTracked(doc, v) /\ doc.place[v] \notin visiting
           /\ visiting' = visiting \cup {doc.place[v]} /\ Enters(v, p)
  <2>1. doc.kind[v] \notin Scalars
    BY <1>8 DEF Scalars, IsTracked, Tracked
  <2> QED BY <1>6, <1>8, <2>1
<1> QED BY <1>3, <1>4, <1>5, <1>7, <1>8 DEF Validate

\* The invariant holds initially.
LEMMA InitHolds == Init => IInv
<1> SUFFICES ASSUME Init PROVE IInv
  OBVIOUS
<1>1. TypeOK
  BY DEF Init, TypeOK
<1>2. Descends(doc, path) /\ Behind(doc, path, checked, {})
  BY DEF Init, Descends, Behind
<1>3. Settled(doc, checked)
  BY DEF Init, Settled, Closed, Endless
<1>4. VerdictFits(doc, path, checked, verdict)
  BY DEF Init, VerdictFits
<1> QED BY <1>1, <1>2, <1>3, <1>4 DEF IInv

\* Every step keeps it.
LEMMA NextHolds == IInv /\ [Next]_vars => IInv'
<1> SUFFICES ASSUME IInv, [Next]_vars PROVE IInv'
  OBVIOUS
<1>1. doc \in Documents /\ path \in Seq(Call) /\ visiting = Marks(doc, path)
  BY DEF IInv, TypeOK, Marks
<1>2. Descends(doc, path) /\ Behind(doc, path, checked, {})
  BY DEF IInv
<1>3. CASE ValidateRoot
  <2>1. path = << >> /\ verdict = "none" /\ doc' = doc /\ Validate(doc.root, path)
    BY <1>3 DEF ValidateRoot
  <2>2. ComesTo(doc, path, doc.root)
    BY <1>1, <2>1, ReachesOn DEF ComesTo
  <2>3. Behind(doc, path, checked, {doc.root})
    BY <2>1 DEF Behind
  <2> QED BY <1>1, <1>2, <2>1, <2>2, <2>3, ValidateHolds
<1>4. CASE ValidateElement
  <2>1. /\ path # << >> /\ verdict = "none" /\ doc' = doc
    BY <1>4 DEF ValidateElement
  <2>2. PICK v \in path[Len(path)].todo :
               Validate(v, [path EXCEPT ![Len(path)].todo = @ \ {v}])
    BY <1>4, Zenon DEF ValidateElement, Top
  <2> DEFINE q == [path EXCEPT ![Len(path)].todo = @ \ {v}]
  <2>3. /\ q \in Seq(Call) /\ Descends(doc, q) /\ ComesTo(doc, q, v)
        /\ Behind(doc, q, checked, {v}) /\ Marks(doc, q) = Marks(doc, path)
    BY <1>1, <1>2, <2>1, ElementTaken, Zenon
  <2>4. Validate(v, q)
    BY <2>2, Zenon
  <2> HIDE DEF q
  <2> QED BY <1>1, <2>1, <2>3, <2>4, ValidateHolds
<1>5. CASE Return
  <2> DEFINE v == path[Len(path)].value
             q == Front(path)
  <2>1. /\ path # << >> /\ path[Len(path)].todo = {} /\ doc' = doc /\ Passes(v, q)
        /\ visiting' = visiting \ (IF IsTracked(doc, v) THEN {doc.place[v]} ELSE {})
    BY <1>5 DEF Return, Top
  <2>2. Returns(doc, path, checked, v, q)
    <3>1. path # << >> /\ path[Len(path)].todo = {}
      BY <2>1
    <3> QED BY <1>1, <1>2, <3>1, Popped, Zenon
  <2> HIDE DEF v, q
  <2>3. doc.kind[v] # "unsafe" /\ visiting' = Marks(doc, q)
    BY <1>1, <2>1, <2>2 DEF Scalars, Returns
  <2> QED BY <2>1, <2>2, <2>3, PassesHolds DEF Returns
<1>6. CASE UNCHANGED vars
  BY <1>6 DEF vars, IInv, TypeOK, Descends, Behind, Settled, VerdictFits
<1> QED BY <1>3, <1>4, <1>5, <1>6 DEF Next

\* It holds throughout.
LEMMA IInvHolds == Spec => []IInv
BY InitHolds, NextHolds, PTL DEF Spec

-----------------------------------------------------------------------------
(* The theorems. *)

\* Type correctness; in particular, what is marked is what the calls in progress are
\* about, whatever the walk returned from before (the deferred deletes).
THEOREM TypeCorrect == Spec => []TypeOK
BY IInvHolds, PTL DEF IInv

\* For every document: in what ValidateNumbers accepts, all that is not inside a struct
\* is safe and has an end, at any depth and however shared.
THEOREM AcceptedAreSafe == Spec => []AcceptedIsSafe
<1>1. IInv => AcceptedIsSafe
  <2> SUFFICES ASSUME IInv, verdict = "ok" PROVE AcceptedIsSafe
    BY DEF AcceptedIsSafe
  <2>1. Settled(doc, checked) /\ doc.root \in checked /\ doc \in Documents /\ checked \in SUBSET Values
    BY DEF IInv, VerdictFits, TypeOK
  <2>2. Seen(doc) \subseteq checked
    BY <2>1, ReachedIsIn DEF Settled
  <2>3. \A v \in Seen(doc) : doc.kind[v] # "unsafe"
    BY <2>1, <2>2 DEF Settled
  <2>4. ~ ContainsItself(doc)
    BY <2>1, <2>2 DEF Settled, ContainsItself
  <2> QED BY <2>3, <2>4 DEF AcceptedIsSafe
<1> QED BY <1>1, IInvHolds, PTL

\* Where no document has a struct in it, the walk sees all there is, and nothing unsafe
\* passes: structs are all that the comment of ValidateNumbers leaves out.
THEOREM SafeWithoutStructs ==
  ASSUME \A d \in Documents : \A v \in Values : d.kind[v] # "struct"
  PROVE  Spec => []SafeThroughout
<1>1. IInv /\ AcceptedIsSafe => SafeThroughout
  <2> SUFFICES ASSUME IInv, AcceptedIsSafe, verdict = "ok" PROVE SafeThroughout
    BY DEF SafeThroughout
  <2>1. \A v \in Values : Elements(doc, v) = doc.kids[v]
    BY DEF IInv, TypeOK, Elements
  <2>2. Reachable(doc) = Seen(doc)
    BY <2>1 DEF Reachable, Seen, Closed
  <2>3. \A v \in Reachable(doc) : doc.kind[v] # "unsafe"
    BY <2>2 DEF AcceptedIsSafe
  <2>4. ASSUME NEW S \in SUBSET Reachable(doc), S # {} PROVE \E v \in S : doc.kids[v] \cap S = {}
    <3>1. ~ Endless(doc, S)
      BY <2>2 DEF AcceptedIsSafe, ContainsItself
    <3>2. PICK v \in S : Elements(doc, v) \cap S = {}
      BY <2>4, <3>1 DEF Endless
    <3> QED BY <2>1, <3>2 DEF Reachable
  <2> QED BY <2>3, <2>4 DEF SafeThroughout
<1> QED BY <1>1, IInvHolds, AcceptedAreSafe, PTL

\* For every document: what ValidateNumbers refuses has an unsafe number in it, contains
\* itself, or has two slices that begin at one address; being shared is no cause.
THEOREM RefusalsHaveCause == Spec => []RefusedForCause
<1>1. IInv => RefusedForCause
  BY DEF IInv, VerdictFits, RefusedForCause, Shared
<1> QED BY <1>1, IInvHolds, PTL

\* For every document: no value that can contain itself is entered while a call about it
\* is in progress, so the recursion is bounded.
THEOREM NeverReenters == Spec => []NoReentry
<1>1. IInv => NoReentry
  BY DEF IInv, Descends, NoReentry, SameVisit
<1> QED BY <1>1, IInvHolds, PTL

\* When no two slices begin at one address, "cyclic JSON value" is said only of what
\* contains itself: what a visit leaves out, the length, is all that is amiss.
THEOREM CyclicUnlessSlicesOverlap ==
  ASSUME \A d \in Documents : \A v, w \in Values :
           d.kind[v] = "slice" /\ d.kind[w] = "slice" /\ d.place[v] = d.place[w] => v = w
  PROVE  Spec => []CyclicIsCyclic
<1>1. IInv => CyclicIsCyclic
  <2> SUFFICES ASSUME IInv, verdict = "cyclic" PROVE ContainsItself(doc)
    BY DEF CyclicIsCyclic
  <2>1. ContainsItself(doc) \/ Shared(doc)
    BY DEF IInv, VerdictFits
  <2>2. ~ Shared(doc)
    BY DocumentParts DEF Shared, Seen, IInv, TypeOK, IsGo, SameVisit
  <2> QED BY <2>1, <2>2
<1> QED BY <1>1, IInvHolds, PTL
=============================================================================
