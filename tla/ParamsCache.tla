----------------------------- MODULE ParamsCache -----------------------------
(***************************************************************************)
(* The process-wide parameter cache of the platform client                 *)
(* (platform/params_cache.go) with the goroutines that read through it     *)
(* (ParamsClient.Lookup, platform/params.go).                              *)
(*                                                                         *)
(* Each goroutine samples the wall clock, asks the cache under its mutex,  *)
(* and on a miss sends a request, reports the version its response carried *)
(* (executeRequest), samples the clock again and offers the answer to the  *)
(* cache.  Every step that takes the mutex is one action; the clock, the   *)
(* platforms and the other goroutines move between any two of them.        *)
(*                                                                         *)
(* A platform is external: it is a version that parameter writes raise,    *)
(* and answers stamped with a version some replica of it knew.  The value  *)
(* of an answer is abstracted to asOf, the version of the platform it was  *)
(* read at.  A replica whose listener lags stamps an old version on what   *)
(* may be a newer value, never the reverse.                                *)
(***************************************************************************)
EXTENDS Integers, FiniteSets

CONSTANTS
  Threads,      \* goroutines calling Lookup
  Platforms,    \* base URLs
  Keys,         \* paramsKey values: base URL, token, tenant and code
  PlatformOf,   \* the base URL of each key
  MaxAges,      \* max ages a response grants, in ticks; 0 is also "no header"
  DurationSpan, \* ticks a time.Duration can hold before it wraps
  McpTraffic,   \* does the process also talk MCP to its platforms?
  MaxVersion,   \* bound: parameter writes per platform
  MaxClock      \* bound: the clock

ASSUME ConstantsAssumption ==
  /\ IsFiniteSet(Keys)
  /\ PlatformOf \in [Keys -> Platforms]
  /\ MaxAges \subseteq Nat
  /\ DurationSpan \in Nat \ {0}
  /\ McpTraffic \in BOOLEAN
  /\ MaxVersion \in Nat
  /\ MaxClock \in Nat

VARIABLES
  clock,     \* wall clock, in ticks
  written,   \* written[p]: the parameter version platform p has reached
  versions,  \* paramsCache.versions: newest version received, by base URL
  entries,   \* paramsCache.entries: a function on the keys held
  sweepAt,   \* paramsCache.sweepAt
  pc,        \* where in Lookup each goroutine is
  key,       \* the key of the goroutine's lookup
  now,       \* the goroutine's last time.Now()
  reply,     \* the response the goroutine holds
  heard,     \* history: newest version any response delivered, by base URL
  peak       \* history: most entries ever servable together at a store

cache   == <<versions, entries, sweepAt, peak>>
lookups == <<pc, key, now, reply>>
vars    == <<clock, written, cache, lookups, heard>>

NoVersion == -1   \* a response without ParamsVersionHeader
NoReply   == [version |-> NoVersion, asOf |-> 0, maxAge |-> 0]

Reply == [version: {NoVersion} \cup Nat, asOf: Nat, maxAge: Nat]
Entry == [version: Nat, asOf: Nat, expires: Int,
          readAt: Nat, maxAge: Nat]   \* the last two are history

TypeOK ==
  /\ clock \in Nat
  /\ written \in [Platforms -> Nat]
  /\ versions \in [Platforms -> Nat]
  /\ DOMAIN entries \subseteq Keys
  /\ entries \in [DOMAIN entries -> Entry]
  /\ sweepAt \in Nat
  /\ pc \in [Threads -> {"idle", "get", "exchange", "body", "put"}]
  /\ key \in [Threads -> Keys]
  /\ now \in [Threads -> Nat]
  /\ reply \in [Threads -> Reply]
  /\ heard \in [Platforms -> Nat]
  /\ peak \in Nat

Init ==
  /\ clock = 0
  /\ written \in [Platforms -> 0..MaxVersion]
  /\ versions = [p \in Platforms |-> 0]
  /\ entries = [k \in {} |-> 0]
  /\ sweepAt = 0
  /\ pc = [t \in Threads |-> "idle"]
  /\ key \in [Threads -> Keys]
  /\ now = [t \in Threads |-> 0]
  /\ reply = [t \in Threads |-> NoReply]
  /\ heard = versions
  /\ peak = 0

-----------------------------------------------------------------------------
Larger(a, b) == IF a > b THEN a ELSE b

\* Mutant: observe without its comparison, the last response wins.
ObservedLast(p, v) == [versions EXCEPT ![p] = v]

\* versions after a response from p carried version v.
Observed(p, v) == [versions EXCEPT ![p] = Larger(v, @)]

\* time.Duration(maxAge) * time.Millisecond: a signed product that wraps.
Duration(maxAge) == ((maxAge + DurationSpan) % (2 * DurationSpan)) - DurationSpan

\* Mutants: get without one of its two conditions.
ServableAnyVersion(k, e, at) == at < e.expires
ServableAnyAge(k, e, at) == e.version = versions[PlatformOf[k]]

\* What get demands of an entry of key k, and dropUnservable keeps.
Servable(k, e, at) ==
  /\ e.version = versions[PlatformOf[k]]
  /\ at < e.expires

Step(t, from, to) == pc[t] = from /\ pc' = [pc EXCEPT ![t] = to]

\* The clock sample is dead once it has been used, and so is the reply.
Forget(t) == /\ now' = [now EXCEPT ![t] = 0]
             /\ reply' = [reply EXCEPT ![t] = NoReply]

Start(t, k) ==
  /\ Step(t, "idle", "get")
  /\ key' = [key EXCEPT ![t] = k]
  /\ now' = [now EXCEPT ![t] = clock]
  /\ UNCHANGED <<clock, written, cache, reply, heard>>

Hit(t) ==
  /\ key[t] \in DOMAIN entries
  /\ Servable(key[t], entries[key[t]], now[t])
  /\ Step(t, "get", "idle")
  /\ Forget(t)
  /\ UNCHANGED <<clock, written, cache, key, heard>>

Miss(t) ==
  /\ ~ /\ key[t] \in DOMAIN entries
       /\ Servable(key[t], entries[key[t]], now[t])
  /\ Step(t, "get", "exchange")
  /\ Forget(t)
  /\ UNCHANGED <<clock, written, cache, key, heard>>

\* The response headers arrive: executeRequest observes the version before the
\* body is read or the status looked at.
Receive(t, asOf, version, maxAge) ==
  LET p == PlatformOf[key[t]] IN
  /\ Step(t, "exchange", "body")
  /\ reply' = [reply EXCEPT ![t] = [version |-> version, asOf |-> asOf, maxAge |-> maxAge]]
  /\ versions' = Observed(p, version)
  /\ heard' = [heard EXCEPT ![p] = Larger(version, @)]
  /\ UNCHANGED <<clock, written, entries, sweepAt, peak, key, now>>

\* A transport error, or an unreadable body, an error status or malformed JSON.
Fail(t) ==
  /\ Step(t, "exchange", "idle") \/ Step(t, "body", "idle")
  /\ Forget(t)
  /\ UNCHANGED <<clock, written, cache, key, heard>>

Decode(t) ==
  /\ Step(t, "body", "put")
  /\ now' = [now EXCEPT ![t] = clock]
  /\ UNCHANGED <<clock, written, cache, key, reply, heard>>

\* The entry put builds from response r when it samples the clock at `at`.
NewEntry(r, at) ==
  [version |-> r.version, asOf |-> r.asOf, expires |-> at + Duration(r.maxAge),
   readAt |-> at, maxAge |-> r.maxAge]

\* put keeps what the platform let it keep and no newer response has outdated.
Kept(k, r) ==
  /\ r.maxAge > 0
  /\ r.version # NoVersion
  /\ r.version = versions[PlatformOf[k]]

\* The entries dropUnservable leaves of held, seen at the time `at`.
Survivors(held, at) == {k \in DOMAIN held : Servable(k, held[k], at)}

\* entries after entries[k] = e, before any sweep.
Assigned(k, e) ==
  [j \in DOMAIN entries \cup {k} |-> IF j = k THEN e ELSE entries[j]]

\* Mutant: the next sweep is set from the size before this one.
StoreSweepingLate(k, e, at) ==
  LET held  == Assigned(k, e)
      alive == Survivors(held, at)
  IN /\ IF Cardinality(DOMAIN held) >= sweepAt
          THEN /\ entries' = [j \in alive |-> held[j]]
               /\ sweepAt' = 2 * Cardinality(DOMAIN held)
          ELSE entries' = held /\ UNCHANGED sweepAt
     /\ peak' = Larger(Cardinality(alive), peak)

Store(k, e, at) ==
  LET held  == Assigned(k, e)
      alive == Survivors(held, at)
  IN /\ IF Cardinality(DOMAIN held) >= sweepAt
          THEN /\ entries' = [j \in alive |-> held[j]]
               /\ sweepAt' = 2 * Cardinality(alive)
          ELSE entries' = held /\ UNCHANGED sweepAt
     /\ peak' = Larger(Cardinality(alive), peak)

Put(t) ==
  /\ Step(t, "put", "idle")
  /\ IF Kept(key[t], reply[t])
       THEN Store(key[t], NewEntry(reply[t], now[t]), now[t])
       ELSE UNCHANGED <<entries, sweepAt, peak>>
  /\ Forget(t)
  /\ UNCHANGED <<clock, written, versions, key, heard>>

\* Any other call of the process to platform p: the buffered ones pass through
\* executeRequest, a stream through InvokeStreaming; both observe.
OtherResponse(p, version) ==
  /\ versions' = Observed(p, version)
  /\ heard' = [heard EXCEPT ![p] = Larger(version, @)]
  /\ UNCHANGED <<clock, written, entries, sweepAt, peak, lookups>>

\* A response to the MCP transport, which hands it on without observing it.
McpResponse(p, version) ==
  /\ McpTraffic
  /\ heard' = [heard EXCEPT ![p] = Larger(version, @)]
  /\ UNCHANGED <<clock, written, cache, lookups>>

\* The platform: a write to any parameter raises the version.
Write(p) ==
  /\ written[p] < MaxVersion
  /\ written' = [written EXCEPT ![p] = @ + 1]
  /\ UNCHANGED <<clock, cache, lookups, heard>>

Tick ==
  /\ clock < MaxClock
  /\ clock' = clock + 1
  /\ UNCHANGED <<written, cache, lookups, heard>>

\* A replica answers with a value at least as new as the version it stamps;
\* a response may also come without the header.
Answer(t) ==
  \E asOf \in 0..written[PlatformOf[key[t]]] : \E maxAge \in MaxAges :
    \E version \in {NoVersion} \cup 0..asOf : Receive(t, asOf, version, maxAge)

Lookup(t) ==
  \/ \E k \in Keys : Start(t, k)
  \/ Hit(t)
  \/ Miss(t)
  \/ Answer(t)
  \/ Fail(t)
  \/ Decode(t)
  \/ Put(t)

Platform(p) ==
  \/ Write(p)
  \/ \E v \in 0..written[p] : OtherResponse(p, v)
  \/ \E v \in 0..written[p] : McpResponse(p, v)

Next ==
  \/ \E t \in Threads : Lookup(t)
  \/ \E p \in Platforms : Platform(p)
  \/ Tick

Spec == Init /\ [][Next]_vars

-----------------------------------------------------------------------------
(***************************************************************************)
(* Properties.                                                             *)
(***************************************************************************)

\* A lookup answered from the cache leaves get without a request.
Served(t) == pc[t] = "get" /\ pc'[t] = "idle"

\* paramsCache: an answer served without a request is at least as new as every
\* version any response from that platform has carried, whichever goroutine
\* received it and in whatever order the responses arrived.
HitIsCurrent ==
  [][\A t \in Threads : Served(t) =>
        entries[key[t]].asOf >= heard[PlatformOf[key[t]]]]_vars

\* paramsCache: an answer is served only to a lookup that began less than its
\* max age after it was read, whatever the granted age does to time.Duration.
HitIsYoung ==
  [][\A t \in Threads : Served(t) =>
        now[t] < entries[key[t]].readAt + entries[key[t]].maxAge]_vars

\* put: a late response never puts back an answer older than the one held.
NoStaleOverwrite ==
  [][\A k \in DOMAIN entries \cap DOMAIN entries' :
        entries'[k].version >= entries[k].version]_vars

\* dropUnservable: the cache never holds more than twice what could be served
\* from it at once, however many keys a process goes through.
SizeBounded == Cardinality(DOMAIN entries) <= 2 * peak

\* observe and put: an entry is never ahead of the versions its platform has been
\* heard to reach nor of the value it holds, and every version heard over the
\* observed transports is recorded, however late its response came in.
VersionsOrdered ==
  /\ \A p \in Platforms : versions[p] <= heard[p] /\ heard[p] <= written[p]
  /\ ~McpTraffic => heard = versions
  /\ \A k \in DOMAIN entries : /\ entries[k].version <= versions[PlatformOf[k]]
                               /\ entries[k].version <= entries[k].asOf
  /\ \A t \in Threads : reply[t].version <= reply[t].asOf
=============================================================================
