-------------------------- MODULE ParamsCache_proofs --------------------------
(***************************************************************************)
(* Theorems about ParamsCache, for every set of goroutines, keys and       *)
(* platforms and every bound.                                              *)
(***************************************************************************)
EXTENDS ParamsCache, FiniteSetTheorems, TLAPS

-----------------------------------------------------------------------------
(* What the helpers return. *)

\* Larger is the maximum of two numbers.
LEMMA LargerBounds ==
  ASSUME NEW a \in Int, NEW b \in Int
  PROVE  /\ Larger(a, b) \in {a, b}
         /\ Larger(a, b) >= a /\ Larger(a, b) >= b
BY DEF Larger

\* observe keeps the versions natural, raises the one it names to at least what
\* it heard, and lowers none.
LEMMA ObservedGrows ==
  ASSUME TypeOK, NEW p \in Platforms, NEW v \in {NoVersion} \cup Nat
  PROVE  /\ Observed(p, v) \in [Platforms -> Nat]
         /\ Observed(p, v)[p] >= v
         /\ \A q \in Platforms : Observed(p, v)[q] >= versions[q]
BY DEF Observed, Larger, TypeOK, NoVersion

\* The map after a store: the new entry, or the survivors with or without it.
LEMMA StoreKeeps ==
  ASSUME TypeOK, NEW k \in Keys, NEW e, NEW at, Store(k, e, at)
  PROVE  /\ DOMAIN entries' \subseteq DOMAIN entries \cup {k}
         /\ entries' = [j \in DOMAIN entries' |-> IF j = k THEN e ELSE entries[j]]
<1>1. \/ entries' = [j \in Survivors(Assigned(k, e), at) |-> Assigned(k, e)[j]]
      \/ entries' = Assigned(k, e)
  BY DEF Store
<1>2. Survivors(Assigned(k, e), at) \subseteq DOMAIN entries \cup {k}
  BY DEF Survivors, Assigned
<1> QED BY <1>1, <1>2 DEF Assigned

\* What put builds from a cacheable reply is an entry.
LEMMA NewEntryType ==
  ASSUME NEW r \in Reply, r.version # NoVersion, NEW at \in Nat
  PROVE  /\ NewEntry(r, at) \in Entry
         /\ NewEntry(r, at).version = r.version
         /\ NewEntry(r, at).asOf = r.asOf
<1>1. Duration(r.maxAge) \in Int
  BY ConstantsAssumption DEF Duration, Reply
<1> QED BY <1>1 DEF NewEntry, Entry, Reply

\* A sweep finds a finite number of entries.
LEMMA SurvivorsFinite ==
  ASSUME TypeOK, NEW k \in Keys, NEW e, NEW at
  PROVE  /\ Survivors(Assigned(k, e), at) \subseteq Keys
         /\ IsFiniteSet(Survivors(Assigned(k, e), at))
         /\ Cardinality(Survivors(Assigned(k, e), at)) \in Nat
<1>1. Survivors(Assigned(k, e), at) \subseteq Keys
  BY DEF Survivors, Assigned, TypeOK
<1> QED BY <1>1, ConstantsAssumption, FS_Subset, FS_CardinalityType

\* What a platform answers is stamped no later than it was read.
LEMMA AnswerReceives ==
  ASSUME TypeOK, NEW t \in Threads, Answer(t)
  PROVE  \E asOf \in Nat, maxAge \in Nat, version \in {NoVersion} \cup Nat :
           /\ version <= asOf
           /\ asOf <= written[PlatformOf[key[t]]]
           /\ Receive(t, asOf, version, maxAge)
<1>1. PICK asOf \in 0..written[PlatformOf[key[t]]] : \E maxAge \in MaxAges :
        \E version \in {NoVersion} \cup 0..asOf : Receive(t, asOf, version, maxAge)
  BY DEF Answer
<1>2. PICK maxAge \in MaxAges : \E version \in {NoVersion} \cup 0..asOf :
        Receive(t, asOf, version, maxAge)
  BY <1>1
<1>3. PICK version \in {NoVersion} \cup 0..asOf : Receive(t, asOf, version, maxAge)
  BY <1>2
<1>4. /\ written[PlatformOf[key[t]]] \in Nat
      /\ asOf \in Nat /\ maxAge \in Nat /\ version \in {NoVersion} \cup Nat
      /\ version <= asOf /\ asOf <= written[PlatformOf[key[t]]]
  BY ConstantsAssumption DEF TypeOK, NoVersion
<1> QED BY <1>3, <1>4

-----------------------------------------------------------------------------
(* Type correctness. *)

\* Every step keeps the state's types.
LEMMA TypeStep == TypeOK /\ [Next]_vars => TypeOK'
<1> SUFFICES ASSUME TypeOK, [Next]_vars PROVE TypeOK'
  OBVIOUS
<1> USE DEF TypeOK
<1>1. ASSUME NEW t \in Threads, NEW k \in Keys, Start(t, k) PROVE TypeOK'
  BY <1>1 DEF Start, Step, cache
<1>2. ASSUME NEW t \in Threads, Hit(t) \/ Miss(t) \/ Fail(t) PROVE TypeOK'
  <2>1. NoReply \in Reply
    BY DEF NoReply, Reply
  <2> QED BY <1>2, <2>1 DEF Hit, Miss, Fail, Step, Forget, cache
<1>3. ASSUME NEW t \in Threads, Answer(t) PROVE TypeOK'
  <2>1. PICK asOf \in Nat, maxAge \in Nat, version \in {NoVersion} \cup Nat :
          Receive(t, asOf, version, maxAge)
    BY <1>3, AnswerReceives
  <2>2. PlatformOf[key[t]] \in Platforms /\ heard[PlatformOf[key[t]]] \in Nat
    BY ConstantsAssumption
  <2>3. [version |-> version, asOf |-> asOf, maxAge |-> maxAge] \in Reply
    BY <2>2 DEF Reply
  <2>4. versions' \in [Platforms -> Nat]
    BY <2>1, <2>2, ObservedGrows DEF Receive
  <2>5. heard' \in [Platforms -> Nat]
    BY <2>1, <2>2 DEF Receive, Larger, NoVersion
  <2> QED BY <2>1, <2>3, <2>4, <2>5 DEF Receive, Step
<1>4. ASSUME NEW t \in Threads, Decode(t) PROVE TypeOK'
  BY <1>4 DEF Decode, Step, cache
<1>5. ASSUME NEW t \in Threads, Put(t) PROVE TypeOK'
  <2>1. NoReply \in Reply
    BY DEF NoReply, Reply
  <2>2. /\ DOMAIN entries' \subseteq Keys
        /\ entries' \in [DOMAIN entries' -> Entry]
        /\ sweepAt' \in Nat /\ peak' \in Nat
    <3>1. CASE ~Kept(key[t], reply[t])
      BY <1>5, <3>1 DEF Put
    <3>2. CASE Kept(key[t], reply[t])
      <4> DEFINE e == NewEntry(reply[t], now[t])
      <4>1. e \in Entry
        BY <3>2, NewEntryType DEF Kept
      <4>2. Store(key[t], e, now[t])
        BY <1>5, <3>2 DEF Put
      <4>3. /\ DOMAIN entries' \subseteq DOMAIN entries \cup {key[t]}
            /\ entries' = [j \in DOMAIN entries' |-> IF j = key[t] THEN e ELSE entries[j]]
        BY <4>2, StoreKeeps
      <4>4. Cardinality(Survivors(Assigned(key[t], e), now[t])) \in Nat
        BY SurvivorsFinite
      <4>5. sweepAt' \in Nat /\ peak' \in Nat
        BY <4>2, <4>4 DEF Store, Larger
      <4> HIDE DEF e
      <4> QED BY <4>1, <4>3, <4>5
    <3> QED BY <3>1, <3>2
  <2> QED BY <1>5, <2>1, <2>2 DEF Put, Step, Forget
<1>6. ASSUME NEW p \in Platforms, Platform(p) PROVE TypeOK'
  <2>1. CASE Write(p)
    BY <2>1 DEF Write, cache, lookups
  <2>2. ASSUME NEW v \in 0..written[p], OtherResponse(p, v) \/ McpResponse(p, v)
        PROVE  TypeOK'
    <3>1. v \in Nat
      OBVIOUS
    <3>2. versions' \in [Platforms -> Nat]
      BY <2>2, <3>1, ObservedGrows DEF OtherResponse, McpResponse, cache
    <3> QED BY <2>2, <3>1, <3>2 DEF OtherResponse, McpResponse, Larger, cache, lookups
  <2> QED BY <1>6, <2>1, <2>2 DEF Platform
<1>7. CASE Tick
  BY <1>7 DEF Tick, cache, lookups
<1>8. CASE UNCHANGED vars
  BY <1>8 DEF vars, cache, lookups
<1> QED BY <1>1, <1>2, <1>3, <1>4, <1>5, <1>6, <1>7, <1>8 DEF Next, Lookup

\* The initial states have the types.
LEMMA TypeInit == Init => TypeOK
<1>1. NoReply \in Reply
  BY DEF NoReply, Reply
<1> QED BY <1>1, ConstantsAssumption DEF Init, TypeOK

\* The cache, the goroutines and the platforms keep their types.
THEOREM TypeCorrect == Spec => []TypeOK
BY TypeInit, TypeStep, PTL DEF Spec

-----------------------------------------------------------------------------
(***************************************************************************)
(* Freshness.  VersionsOrdered is inductive given the types: observe only  *)
(* raises versions, and put stores an entry only at the version recorded.  *)
(***************************************************************************)

\* Hearing a version the platform has reached keeps the order of the versions and
\* leaves every entry behind them.
LEMMA HearingOrdered ==
  ASSUME TypeOK, VersionsOrdered, NEW p \in Platforms,
         NEW v \in {NoVersion} \cup Nat, v <= written[p],
         versions' = Observed(p, v),
         heard' = [heard EXCEPT ![p] = Larger(v, @)],
         UNCHANGED <<written, entries>>
  PROVE  /\ \A q \in Platforms : versions'[q] <= heard'[q] /\ heard'[q] <= written'[q]
         /\ ~McpTraffic => heard' = versions'
         /\ \A k \in DOMAIN entries' : /\ entries'[k].version <= versions'[PlatformOf[k]]
                                       /\ entries'[k].version <= entries'[k].asOf
<1>1. /\ \A q \in Platforms : /\ versions[q] \in Nat /\ heard[q] \in Nat /\ written[q] \in Nat
                             /\ versions[q] <= heard[q] /\ heard[q] <= written[q]
      /\ v \in Int
  BY DEF TypeOK, VersionsOrdered, NoVersion
<1>2. ASSUME NEW q \in Platforms
      PROVE  versions'[q] <= heard'[q] /\ heard'[q] <= written'[q]
  <2>1. CASE q = p
    BY <1>1, <2>1 DEF Observed, Larger, TypeOK
  <2>2. CASE q # p
    BY <1>1, <2>2 DEF Observed, TypeOK
  <2> QED BY <2>1, <2>2
<1>3. ~McpTraffic => heard' = versions'
  BY DEF VersionsOrdered, Observed
<1>4. ASSUME NEW k \in DOMAIN entries'
      PROVE  /\ entries'[k].version <= versions'[PlatformOf[k]]
             /\ entries'[k].version <= entries'[k].asOf
  <2>1. /\ PlatformOf[k] \in Platforms /\ entries[k].version \in Nat
        /\ entries[k].version <= versions[PlatformOf[k]]
        /\ entries[k].version <= entries[k].asOf
    BY <1>4, ConstantsAssumption DEF TypeOK, VersionsOrdered, Entry
  <2>2. versions'[PlatformOf[k]] \in Nat /\ versions'[PlatformOf[k]] >= versions[PlatformOf[k]]
    BY <2>1, ObservedGrows
  <2> QED BY <1>1, <2>1, <2>2
<1> QED BY <1>2, <1>3, <1>4

\* Every step keeps entries behind what was heard and heard behind the platform.
LEMMA VersionsStep == TypeOK /\ VersionsOrdered /\ [Next]_vars => VersionsOrdered'
<1> SUFFICES ASSUME TypeOK, VersionsOrdered, [Next]_vars PROVE VersionsOrdered'
  OBVIOUS
<1> USE DEF VersionsOrdered
<1> NoReply.version <= NoReply.asOf
  BY DEF NoReply, NoVersion
<1>1. ASSUME NEW t \in Threads, NEW k \in Keys, Start(t, k) PROVE VersionsOrdered'
  BY <1>1 DEF Start, cache
<1>2. ASSUME NEW t \in Threads, Hit(t) \/ Miss(t) \/ Fail(t) PROVE VersionsOrdered'
  BY <1>2 DEF Hit, Miss, Fail, Forget, cache, TypeOK
<1>3. ASSUME NEW t \in Threads, Answer(t) PROVE VersionsOrdered'
  <2> DEFINE p == PlatformOf[key[t]]
  <2>1. PICK asOf \in Nat, maxAge \in Nat, version \in {NoVersion} \cup Nat :
          /\ version <= asOf /\ asOf <= written[p]
          /\ Receive(t, asOf, version, maxAge)
    BY <1>3, AnswerReceives
  <2>2. /\ p \in Platforms /\ version <= written[p]
        /\ UNCHANGED <<written, entries>>
    BY <2>1, ConstantsAssumption DEF TypeOK, Receive, NoVersion
  <2>3. /\ \A q \in Platforms : versions'[q] <= heard'[q] /\ heard'[q] <= written'[q]
        /\ ~McpTraffic => heard' = versions'
        /\ \A k \in DOMAIN entries' : /\ entries'[k].version <= versions'[PlatformOf[k]]
                                      /\ entries'[k].version <= entries'[k].asOf
    BY <2>1, <2>2, HearingOrdered DEF Receive
  <2>4. \A u \in Threads : reply'[u].version <= reply'[u].asOf
    BY <2>1 DEF Receive, TypeOK
  <2> QED BY <2>3, <2>4
<1>4. ASSUME NEW t \in Threads, Decode(t) PROVE VersionsOrdered'
  BY <1>4 DEF Decode, cache
<1>5. ASSUME NEW t \in Threads, Put(t) PROVE VersionsOrdered'
  <2>1. \A k \in DOMAIN entries' : /\ entries'[k].version <= versions[PlatformOf[k]]
                                   /\ entries'[k].version <= entries'[k].asOf
    <3>1. CASE ~Kept(key[t], reply[t])
      BY <1>5, <3>1 DEF Put
    <3>2. CASE Kept(key[t], reply[t])
      <4> DEFINE e == NewEntry(reply[t], now[t])
      <4>1. /\ entries' = [j \in DOMAIN entries' |-> IF j = key[t] THEN e ELSE entries[j]]
            /\ DOMAIN entries' \subseteq DOMAIN entries \cup {key[t]}
        BY <1>5, <3>2, StoreKeeps DEF Put, TypeOK
      <4>2. /\ e.version = versions[PlatformOf[key[t]]]
            /\ e.version <= e.asOf /\ e.version \in Nat
        BY <3>2, NewEntryType, ConstantsAssumption DEF Kept, TypeOK, Reply
      <4> HIDE DEF e
      <4> QED BY <4>1, <4>2
    <3> QED BY <3>1, <3>2
  <2> QED BY <1>5, <2>1 DEF Put, Forget, TypeOK
<1>6. ASSUME NEW p \in Platforms, Platform(p) PROVE VersionsOrdered'
  <2>1. CASE Write(p)
    BY <2>1 DEF Write, cache, lookups, TypeOK
  <2>2. ASSUME NEW v \in 0..written[p], OtherResponse(p, v) PROVE VersionsOrdered'
    <3>1. v \in Nat /\ v <= written[p]
      BY DEF TypeOK
    <3> QED BY <2>2, <3>1, HearingOrdered DEF OtherResponse, lookups
  <2>3. ASSUME NEW v \in 0..written[p], McpResponse(p, v) PROVE VersionsOrdered'
    BY <2>3 DEF McpResponse, Larger, TypeOK, cache, lookups
  <2> QED BY <1>6, <2>1, <2>2, <2>3 DEF Platform
<1>7. CASE Tick
  BY <1>7 DEF Tick, cache, lookups
<1>8. CASE UNCHANGED vars
  BY <1>8 DEF vars, cache, lookups
<1> QED BY <1>1, <1>2, <1>3, <1>4, <1>5, <1>6, <1>7, <1>8 DEF Next, Lookup

\* No entry is ahead of what was heard, nor that ahead of the platform.
THEOREM VersionsAlwaysOrdered == Spec => []VersionsOrdered
<1>1. Init => VersionsOrdered
  BY DEF Init, VersionsOrdered, NoReply, NoVersion
<1> QED BY <1>1, VersionsStep, TypeCorrect, PTL DEF Spec

\* Only Hit leaves "get" for "idle".
LEMMA ServedByHit ==
  ASSUME TypeOK, [Next]_vars, NEW t \in Threads, Served(t)
  PROVE  Hit(t)
<1>1. ASSUME NEW u \in Threads, u # t, Lookup(u) PROVE FALSE
  BY <1>1 DEF Lookup, Start, Hit, Miss, Answer, Receive, Fail, Decode, Put, Step,
              Served, TypeOK
<1>2. Lookup(t) => Hit(t)
  BY DEF Lookup, Start, Miss, Answer, Receive, Fail, Decode, Put, Step, Served, TypeOK
<1>3. ASSUME Tick \/ (\E p \in Platforms : Platform(p)) \/ UNCHANGED vars PROVE FALSE
  BY <1>3 DEF Tick, Platform, Write, OtherResponse, McpResponse, vars, lookups, Served
<1> QED BY <1>1, <1>2, <1>3 DEF Next

\* A process that does not talk MCP serves no answer older than a version some
\* response has carried.
THEOREM HitsAreCurrent == ASSUME ~McpTraffic PROVE Spec => HitIsCurrent
<1>1. ASSUME TypeOK, VersionsOrdered, [Next]_vars, NEW t \in Threads, Served(t)
      PROVE  entries[key[t]].asOf >= heard[PlatformOf[key[t]]]
  <2>1. /\ key[t] \in DOMAIN entries
        /\ entries[key[t]].version = versions[PlatformOf[key[t]]]
    BY <1>1, ServedByHit DEF Hit, Servable
  <2>2. entries[key[t]] \in Entry /\ entries[key[t]].version <= entries[key[t]].asOf
    BY <1>1, <2>1 DEF TypeOK, VersionsOrdered
  <2>3. heard = versions
    BY <1>1 DEF VersionsOrdered
  <2> QED BY <2>1, <2>2, <2>3 DEF Entry
<1>2. TypeOK /\ VersionsOrdered /\ [Next]_vars
        => [\A t \in Threads : Served(t) =>
              entries[key[t]].asOf >= heard[PlatformOf[key[t]]]]_vars
  BY <1>1
<1> QED BY <1>2, TypeCorrect, VersionsAlwaysOrdered, PTL DEF Spec, HitIsCurrent

\* No step replaces an entry by one read at an older version.
THEOREM NeverOverwrittenByStale == Spec => NoStaleOverwrite
<1>1. ASSUME TypeOK, VersionsOrdered, [Next]_vars,
             NEW k \in DOMAIN entries \cap DOMAIN entries'
      PROVE  entries'[k].version >= entries[k].version
  <2> USE <1>1
  <2>1. entries[k].version \in Nat /\ entries[k].version <= versions[PlatformOf[k]]
    BY DEF TypeOK, VersionsOrdered, Entry
  <2>2. ASSUME NEW t \in Threads, Put(t)
        PROVE  entries'[k].version >= entries[k].version
    <3>1. CASE ~Kept(key[t], reply[t])
      BY <2>1, <2>2, <3>1 DEF Put
    <3>2. CASE Kept(key[t], reply[t])
      <4> DEFINE e == NewEntry(reply[t], now[t])
      <4>1. entries' = [j \in DOMAIN entries' |-> IF j = key[t] THEN e ELSE entries[j]]
        BY <2>2, <3>2, StoreKeeps DEF Put, TypeOK
      <4>2. e.version = versions[PlatformOf[key[t]]]
        BY <3>2, NewEntryType DEF Kept, TypeOK
      <4> HIDE DEF e
      <4>3. versions[PlatformOf[k]] \in Nat
        BY ConstantsAssumption DEF TypeOK
      <4> QED BY <2>1, <4>1, <4>2, <4>3
    <3> QED BY <3>1, <3>2
  <2>3. ASSUME UNCHANGED entries PROVE entries'[k].version >= entries[k].version
    BY <2>1, <2>3
  <2>4. \/ \E t \in Threads : Put(t)
        \/ UNCHANGED entries
    BY DEF Next, Lookup, Start, Hit, Miss, Answer, Receive, Fail, Decode, Platform,
           Write, OtherResponse, McpResponse, Tick, vars, cache
  <2> QED BY <2>2, <2>3, <2>4
<1>2. TypeOK /\ VersionsOrdered /\ [Next]_vars
        => [\A k \in DOMAIN entries \cap DOMAIN entries' :
              entries'[k].version >= entries[k].version]_vars
  BY <1>1
<1> QED BY <1>2, TypeCorrect, VersionsAlwaysOrdered, PTL DEF Spec, NoStaleOverwrite

-----------------------------------------------------------------------------
(***************************************************************************)
(* Size.  After every store the map is smaller than sweepAt, and sweepAt   *)
(* is twice what one sweep found servable.                                 *)
(***************************************************************************)

SweepInv ==
  /\ DOMAIN entries = {} \/ Cardinality(DOMAIN entries) < sweepAt
  /\ sweepAt <= 2 * peak

\* Every step leaves the map below its sweep threshold.
LEMMA SweepStep == TypeOK /\ SweepInv /\ [Next]_vars => SweepInv'
<1> SUFFICES ASSUME TypeOK, SweepInv, [Next]_vars PROVE SweepInv'
  OBVIOUS
<1>1. ASSUME NEW t \in Threads, NEW e, Store(key[t], e, now[t]) PROVE SweepInv'
  <2> DEFINE held  == Assigned(key[t], e)
             alive == Survivors(held, now[t])
  <2>1. IsFiniteSet(alive) /\ Cardinality(alive) \in Nat
    BY SurvivorsFinite DEF TypeOK
  <2>2. /\ peak' = Larger(Cardinality(alive), peak)
        /\ IF Cardinality(DOMAIN held) >= sweepAt
             THEN DOMAIN entries' = alive /\ sweepAt' = 2 * Cardinality(alive)
             ELSE entries' = held /\ sweepAt' = sweepAt
    BY <1>1 DEF Store
  <2>3. /\ IsFiniteSet(DOMAIN held) /\ Cardinality(DOMAIN held) \in Nat
    <3>1. DOMAIN held \subseteq Keys
      BY DEF Assigned, TypeOK
    <3> QED BY <3>1, ConstantsAssumption, FS_Subset, FS_CardinalityType
  <2>4. peak' >= Cardinality(alive) /\ peak' >= peak
    BY <2>1, <2>2 DEF Larger, TypeOK
  <2>5. alive = {} \/ Cardinality(alive) > 0
    BY <2>1, FS_EmptySet
  <2> HIDE DEF alive, held
  <2>6. CASE Cardinality(DOMAIN held) >= sweepAt
    <3>1. DOMAIN entries' = alive /\ sweepAt' = 2 * Cardinality(alive)
      BY <2>2, <2>6
    <3> QED BY <2>1, <2>2, <2>4, <2>5, <3>1 DEF SweepInv, TypeOK, Larger
  <2>7. CASE ~(Cardinality(DOMAIN held) >= sweepAt)
    BY <2>1, <2>2, <2>3, <2>4, <2>7 DEF SweepInv, TypeOK, Larger
  <2> QED BY <2>6, <2>7
<1>2. CASE UNCHANGED <<entries, sweepAt, peak>>
  BY <1>2 DEF SweepInv
<1>3. \/ \E t \in Threads, e \in {NewEntry(reply[u], now[u]) : u \in Threads} :
           Store(key[t], e, now[t])
      \/ UNCHANGED <<entries, sweepAt, peak>>
  BY DEF Next, Lookup, Start, Hit, Miss, Answer, Receive, Fail, Decode, Put, Platform,
         Write, OtherResponse, McpResponse, Tick, vars, cache
<1> QED BY <1>1, <1>2, <1>3

\* The cache never holds more than twice what could be served from it at once.
THEOREM SizeStaysBounded == Spec => []SizeBounded
<1>1. Init => SweepInv
  BY DEF Init, SweepInv
<1>2. TypeOK /\ SweepInv => SizeBounded
  <2> SUFFICES ASSUME TypeOK, SweepInv PROVE SizeBounded
    OBVIOUS
  <2>1. IsFiniteSet(DOMAIN entries) /\ Cardinality(DOMAIN entries) \in Nat
    BY ConstantsAssumption, FS_Subset, FS_CardinalityType DEF TypeOK
  <2>2. DOMAIN entries = {} => Cardinality(DOMAIN entries) = 0
    BY FS_EmptySet
  <2> QED BY <2>1, <2>2 DEF SweepInv, SizeBounded, TypeOK
<1> QED BY <1>1, <1>2, SweepStep, TypeCorrect, PTL DEF Spec

-----------------------------------------------------------------------------
(***************************************************************************)
(* Age.  A product that wraps only ever comes out smaller.                 *)
(***************************************************************************)

\* The wrapped duration never exceeds the max age it stands for.
LEMMA DurationNeverLonger ==
  ASSUME NEW m \in Nat
  PROVE  Duration(m) \in Int /\ Duration(m) <= m
<1>1. ASSUME NEW a \in Nat, NEW n \in Nat \ {0} PROVE a % n \in 0..(n - 1) /\ a % n <= a
  <2>1. a % n \in 0..(n - 1)
    OBVIOUS
  <2>2. CASE a < n
    BY <2>2
  <2>3. CASE a >= n
    BY <2>1, <2>3
  <2> QED BY <2>1, <2>2, <2>3
<1>2. DurationSpan \in Nat /\ m + DurationSpan \in Nat /\ 2 * DurationSpan \in Nat \ {0}
  BY ConstantsAssumption
<1> QED BY <1>1, <1>2 DEF Duration

AgeInv == \A k \in DOMAIN entries : entries[k].expires <= entries[k].readAt + entries[k].maxAge

\* Every step keeps entries from outliving the age they were granted.
LEMMA AgeStep == TypeOK /\ AgeInv /\ [Next]_vars => AgeInv'
<1> SUFFICES ASSUME TypeOK, AgeInv, [Next]_vars PROVE AgeInv'
  OBVIOUS
<1>1. ASSUME NEW t \in Threads, Kept(key[t], reply[t]),
             Store(key[t], NewEntry(reply[t], now[t]), now[t])
      PROVE  AgeInv'
  <2> DEFINE e == NewEntry(reply[t], now[t])
  <2>1. e.expires <= e.readAt + e.maxAge
    <3>1. reply[t].maxAge \in Nat /\ now[t] \in Nat
      BY DEF TypeOK, Reply
    <3> QED BY <3>1, DurationNeverLonger DEF NewEntry
  <2>2. /\ DOMAIN entries' \subseteq DOMAIN entries \cup {key[t]}
        /\ entries' = [j \in DOMAIN entries' |-> IF j = key[t] THEN e ELSE entries[j]]
    BY <1>1, StoreKeeps DEF TypeOK
  <2> HIDE DEF e
  <2> QED BY <2>1, <2>2 DEF AgeInv
<1>2. \/ \E t \in Threads : /\ Kept(key[t], reply[t])
                            /\ Store(key[t], NewEntry(reply[t], now[t]), now[t])
      \/ UNCHANGED entries
  BY DEF Next, Lookup, Start, Hit, Miss, Answer, Receive, Fail, Decode, Put, Platform,
         Write, OtherResponse, McpResponse, Tick, vars, cache
<1> QED BY <1>1, <1>2 DEF AgeInv

\* No lookup is served an answer past the age the platform gave it.
THEOREM HitsAreYoung == Spec => HitIsYoung
<1>1. Init => AgeInv
  BY DEF Init, AgeInv
<1>2. ASSUME TypeOK, AgeInv, [Next]_vars, NEW t \in Threads, Served(t)
      PROVE  now[t] < entries[key[t]].readAt + entries[key[t]].maxAge
  <2>1. key[t] \in DOMAIN entries /\ now[t] < entries[key[t]].expires
    BY <1>2, ServedByHit DEF Hit, Servable
  <2>2. entries[key[t]] \in Entry /\ now[t] \in Nat
    BY <1>2, <2>1 DEF TypeOK
  <2> QED BY <1>2, <2>1, <2>2 DEF AgeInv, Entry
<1>3. TypeOK /\ AgeInv /\ [Next]_vars
        => [\A t \in Threads : Served(t) =>
              now[t] < entries[key[t]].readAt + entries[key[t]].maxAge]_vars
  BY <1>2
<1> QED BY <1>1, <1>3, AgeStep, TypeCorrect, PTL DEF Spec, HitIsYoung
=============================================================================
