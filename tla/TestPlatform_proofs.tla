------------------------- MODULE TestPlatform_proofs -------------------------
(***************************************************************************)
(* Proofs about TestPlatform, for any modules and any callers.             *)
(*                                                                         *)
(* Has says which things a step can count on.  HasInv (they exist) gives   *)
(* NeedsMet.  OwedInv (whatever else exists is listed for removal, or is   *)
(* explained) gives LeftoversExplained.  Both rest on ListInv: containers  *)
(* come before the network in every list, and only what a step does not    *)
(* need is listed before it.                                               *)
(*                                                                         *)
(* ModulesLoad is about the fold that stands for buildModuleSelector's     *)
(* loop: LoopOf unrolls it, and IsListing is the loop's invariant.         *)
(***************************************************************************)
EXTENDS TestPlatform, SequenceTheorems, WellFoundedInduction, TLAPS

\* What a step may use, by the code's variables in scope and not yet released.
Has(step) ==
  LET base == {"net", "pg"} \cup (IF Staged THEN {"dir"} ELSE {}) IN
  CASE step = "postgres" -> {"net"}
    [] step = "bundle" -> {"net", "pg"}
    [] step = "staging" -> {"net", "pg", "dir"}
    [] step \in {"migrate", "seed", "serve"} -> base
    [] step = "migrated" -> base \cup {"migrate"}
    [] step = "seeded" -> base \cup {"seed"}
    [] step \in {"addresses", "bootstrap", "client", "running"} -> base \cup {"server"}
    [] OTHER -> {}

Explained ==
  refused \cup dropped
    \cup (IF heldBy # {} /\ heldBy \subseteq refused \cup dropped THEN {"net"} ELSE {})

Over == pc \in {"failed", "down"}

ListInv ==
  /\ \A i, j \in DOMAIN todo : i < j /\ todo[i] = "net" => todo[j] \notin Containers
  /\ pc \in {"seed", "serve"} => ToSet(todo) \subseteq {"migrate", "seed"}
  /\ pc \notin {"seed", "serve", "failed", "down"} => todo = << >>

HasInv == Has(pc) \subseteq up /\ (pc = "staging" => Staged)

FactsInv ==
  /\ Facts(pc) \subseteq db
  /\ pc = "migrated" /\ exit = 0 => "schema" \in db
  /\ pc = "seeded" => "schema" \in db
  /\ pc = "seeded" /\ exit = 0 => "profile" \in db

OwedInv == up \subseteq Has(pc) \cup ToSet(todo) \cup Explained

IInv == TypeOK /\ ListInv /\ HasInv /\ FactsInv /\ OwedInv

-----------------------------------------------------------------------------
(* Lists. *)

\* The first of a list, and what follows it.
LEMMA HeadAndTail ==
  ASSUME NEW s \in Seq(Things), s # << >>
  PROVE  /\ Head(s) \in Things /\ Tail(s) \in Seq(Things)
         /\ ToSet(s) = {Head(s)} \cup ToSet(Tail(s))
         /\ 1 \in DOMAIN s /\ s[1] = Head(s)
         /\ \A i \in DOMAIN Tail(s) : i + 1 \in DOMAIN s /\ Tail(s)[i] = s[i + 1]
<1>1. Head(s) \in Things /\ Tail(s) \in Seq(Things) /\ Len(s) \in Nat /\ Len(s) > 0
      /\ Len(Tail(s)) = Len(s) - 1 /\ \A i \in 1..Len(Tail(s)) : Tail(s)[i] = s[i + 1]
  BY HeadTailProperties
<1>2. DOMAIN s = 1..Len(s) /\ DOMAIN Tail(s) = 1..Len(Tail(s)) /\ s[1] = Head(s)
  BY <1>1
<1>3. \A i \in DOMAIN Tail(s) : i + 1 \in DOMAIN s /\ Tail(s)[i] = s[i + 1]
  BY <1>1, <1>2
<1>4. ASSUME NEW i \in DOMAIN s, i # 1 PROVE i - 1 \in DOMAIN Tail(s) /\ Tail(s)[i - 1] = s[i]
  <2>1. i \in 1..Len(s) /\ i # 1
    BY <1>2, <1>4
  <2>2. i - 1 \in 1..Len(Tail(s)) /\ (i - 1) + 1 = i
    BY <1>1, <2>1
  <2>3. Tail(s)[i - 1] = s[(i - 1) + 1]
    BY <1>1, <2>2
  <2> QED BY <1>2, <2>2, <2>3
<1>5. ToSet(s) = {Head(s)} \cup ToSet(Tail(s))
  <2>1. ASSUME NEW x \in ToSet(s) PROVE x \in {Head(s)} \cup ToSet(Tail(s))
    <3>1. PICK i \in DOMAIN s : x = s[i]
      BY DEF ToSet
    <3>2. CASE i = 1
      BY <3>1, <3>2, <1>2
    <3>3. CASE i # 1
      BY <3>1, <3>3, <1>4 DEF ToSet
    <3> QED BY <3>2, <3>3
  <2>2. ASSUME NEW x \in ToSet(Tail(s)) PROVE x \in ToSet(s)
    BY <2>2, <1>3 DEF ToSet
  <2>3. Head(s) \in ToSet(s)
    BY <1>1, <1>2 DEF ToSet
  <2> QED BY <2>1, <2>2, <2>3
<1> QED BY <1>1, <1>2, <1>3, <1>5

\* An empty list owes nothing.
LEMMA EmptyList == ToSet(<< >>) = {}
BY DEF ToSet

\* The lists of the error branches and of Stop.
Lists == {<< >>, <<"net">>, <<"pg", "net">>, <<"dir", "pg", "net">>,
          <<"migrate", "dir", "pg", "net">>, <<"seed", "dir", "pg", "net">>,
          <<"server", "dir", "pg", "net">>, <<"server", "pg", "net", "dir">>}

\* Each of them removes containers before the network.
LEMMA ListsAreOrdered ==
  ASSUME NEW l \in Lists
  PROVE  /\ l \in Seq(Things)
         /\ \A i, j \in DOMAIN l : i < j /\ l[i] = "net" => l[j] \notin Containers
<1> DEFINE Fine(k) == /\ k \in Seq(Things)
                   /\ \A i, j \in DOMAIN k : i < j /\ k[i] = "net" => k[j] \notin Containers
<1>1. Fine(<< >>)
  BY DEF Things, Containers
<1>2. Fine(<<"net">>)
  BY DEF Things, Containers
<1>3. Fine(<<"pg", "net">>)
  BY DEF Things, Containers
<1>4. Fine(<<"dir", "pg", "net">>)
  BY DEF Things, Containers
<1>5. Fine(<<"migrate", "dir", "pg", "net">>)
  BY DEF Things, Containers
<1>6. Fine(<<"seed", "dir", "pg", "net">>)
  BY DEF Things, Containers
<1>7. Fine(<<"server", "dir", "pg", "net">>)
  BY DEF Things, Containers
<1>8. Fine(<<"server", "pg", "net", "dir">>)
  BY DEF Things, Containers
<1> HIDE DEF Fine
<1>9. Fine(l)
  BY <1>1, <1>2, <1>3, <1>4, <1>5, <1>6, <1>7, <1>8 DEF Lists
<1> QED BY <1>9 DEF Fine

-----------------------------------------------------------------------------
(* Types. *)

\* Every list is one of things.
LEMMA ListTypes ==
  /\ Lists \subseteq Seq(Things)
  /\ <<"migrate">> \in Seq(Things) /\ <<"seed">> \in Seq(Things)
<1>1. Lists \subseteq Seq(Things)
  BY ListsAreOrdered
<1>2. <<"migrate">> \in Seq(Things) /\ <<"seed">> \in Seq(Things)
  BY DEF Things, Containers
<1> QED BY <1>1, <1>2

\* Removing the first of a list.
LEMMA RemovalTypes ==
  ASSUME TypeOK, todo # << >>, NEW x, x = Head(todo), todo' = Tail(todo),
         UNCHANGED <<config, pc, exit>>, hung' \in BOOLEAN,
         \/ Gone(x)
         \/ Held(x) /\ heldBy' = live /\ UNCHANGED <<docker, dropped, refused>>
         \/ x \in up /\ Refuses(x)
  PROVE  TypeOK'
<1>1. x \in Things /\ todo' \in Seq(Things)
  BY HeadAndTail DEF TypeOK
<1>2. CASE Gone(x)
  BY <1>1, <1>2 DEF TypeOK, Gone, history
<1>3. CASE Held(x) /\ heldBy' = live /\ UNCHANGED <<docker, dropped, refused>>
  BY <1>1, <1>3 DEF TypeOK, docker
<1>4. CASE x \in up /\ Refuses(x)
  BY <1>1, <1>4 DEF TypeOK, Refuses, docker
<1> QED BY <1>2, <1>3, <1>4

\* Every step keeps the types.
LEMMA TypeStep == TypeOK /\ [Next]_vars => TypeOK'
<1> SUFFICES ASSUME TypeOK, [Next]_vars PROVE TypeOK'
  OBVIOUS
<1> USE ListTypes DEF Lists, Go, Fail, Things, Containers, Steps, docker, history
<1>0. << >> \in Seq(Things)
  OBVIOUS
<1>1. CASE MakeNetwork
  BY <1>0, <1>1 DEF TypeOK, MakeNetwork
<1>2. CASE RunPostgres
  BY <1>0, <1>2 DEF TypeOK, RunPostgres, Creates, Forgets, LeavesBehind
<1>3. CASE BuildBundle
  BY <1>0, <1>3 DEF TypeOK, BuildBundle
<1>4. CASE StageBundle
  BY <1>0, <1>4 DEF TypeOK, StageBundle
<1>5. CASE RunMigrations
  BY <1>0, <1>5 DEF TypeOK, RunMigrations, Runs, Forgets, LeavesBehind
<1>6. CASE CheckMigrations
  BY <1>6 DEF TypeOK, CheckMigrations
<1>7. CASE RunSeed
  BY <1>0, <1>7 DEF TypeOK, RunSeed, Runs, LeavesBehind
<1>8. CASE CheckSeed
  BY <1>8 DEF TypeOK, CheckSeed
<1>9. CASE StartServer
  BY <1>0, <1>9 DEF TypeOK, StartServer, Creates, Forgets, LeavesBehind
<1>10. CASE FindAddresses
  BY <1>0, <1>10 DEF TypeOK, FindAddresses
<1>11. CASE BootstrapActor
  BY <1>0, <1>11 DEF TypeOK, BootstrapActor
<1>12. CASE MakeClient
  BY <1>0, <1>12 DEF TypeOK, MakeClient
<1>13. CASE Stop
  BY <1>13 DEF TypeOK, Stop
<1>14. CASE CleanUp
  BY <1>14, RemovalTypes DEF TypeOK, CleanUp
<1>15. CASE TimeOut
  BY <1>15, RemovalTypes DEF TypeOK, TimeOut
<1>16. CASE Hang
  BY <1>16 DEF TypeOK, Hang
<1>17. CASE Exits
  BY <1>17 DEF TypeOK, Exits
<1>18. CASE UNCHANGED vars
  BY <1>18 DEF TypeOK, vars
<1> QED
  BY <1>1, <1>2, <1>3, <1>4, <1>5, <1>6, <1>7, <1>8, <1>9, <1>10, <1>11, <1>12, <1>13,
     <1>14, <1>15, <1>16, <1>17, <1>18 DEF Next

-----------------------------------------------------------------------------
(* What each step has, and what it leaves. *)

\* What is explained stays so.
LEMMA ExplainedGrows ==
  ASSUME dropped \subseteq dropped', refused \subseteq refused', heldBy' = heldBy
  PROVE  Explained \subseteq Explained'
BY DEF Explained

\* A step with nothing left to remove has accounted for all that exists.
LEMMA NothingOwed ==
  ASSUME IInv, todo = << >>
  PROVE  up \subseteq Has(pc) \cup Explained
BY EmptyList DEF IInv, OwedInv

\* An error branch that lists all that is neither explained.
LEMMA FailStep ==
  ASSUME NEW list \in Lists, Fail(list), up' \subseteq ToSet(list) \cup Explained'
  PROVE  ListInv' /\ HasInv' /\ FactsInv' /\ OwedInv'
<1>1. pc' = "failed" /\ todo' = list
  BY DEF Fail
<1>2. ListInv'
  BY <1>1, ListsAreOrdered DEF ListInv
<1>3. Has(pc)' = {} /\ Facts(pc)' = {}
  BY <1>1 DEF Has, Facts
<1> QED BY <1>1, <1>2, <1>3 DEF HasInv, FactsInv, OwedInv

\* The error branches, one for each list.
LEMMA FailLists ==
  LET Kept == ListInv' /\ HasInv' /\ FactsInv' /\ OwedInv' IN
  /\ Fail(<<"net">>) /\ up' \subseteq {"net"} \cup Explained' => Kept
  /\ Fail(<<"pg", "net">>) /\ up' \subseteq {"pg", "net"} \cup Explained' => Kept
  /\ Fail(<<"dir", "pg", "net">>) /\ up' \subseteq {"dir", "pg", "net"} \cup Explained' => Kept
  /\ Fail(<<"migrate", "dir", "pg", "net">>) /\ up' \subseteq {"migrate", "dir", "pg", "net"} \cup Explained' => Kept
  /\ Fail(<<"seed", "dir", "pg", "net">>) /\ up' \subseteq {"seed", "dir", "pg", "net"} \cup Explained' => Kept
  /\ Fail(<<"server", "dir", "pg", "net">>) /\ up' \subseteq {"server", "dir", "pg", "net"} \cup Explained' => Kept
  /\ Fail(<<"server", "pg", "net", "dir">>) /\ up' \subseteq {"server", "pg", "net", "dir"} \cup Explained' => Kept
<1>1. ToSet(<<"net">>) = {"net"} /\ <<"net">> \in Lists
  <2>1. ToSet(<<"net">>) = {"net"}
    BY 1..1 = {1} DEF ToSet
  <2>2. <<"net">> \in Lists
    BY Zenon DEF Lists
  <2> QED BY <2>1, <2>2
<1>2. ToSet(<<"pg", "net">>) = {"pg", "net"} /\ <<"pg", "net">> \in Lists
  <2>1. ToSet(<<"pg", "net">>) = {"pg", "net"}
    BY 1..2 = {1, 2} DEF ToSet
  <2>2. <<"pg", "net">> \in Lists
    BY Zenon DEF Lists
  <2> QED BY <2>1, <2>2
<1>3. ToSet(<<"dir", "pg", "net">>) = {"dir", "pg", "net"} /\ <<"dir", "pg", "net">> \in Lists
  <2>1. ToSet(<<"dir", "pg", "net">>) = {"dir", "pg", "net"}
    BY 1..3 = {1, 2, 3} DEF ToSet
  <2>2. <<"dir", "pg", "net">> \in Lists
    BY Zenon DEF Lists
  <2> QED BY <2>1, <2>2
<1>4. ToSet(<<"migrate", "dir", "pg", "net">>) = {"migrate", "dir", "pg", "net"} /\ <<"migrate", "dir", "pg", "net">> \in Lists
  <2>1. ToSet(<<"migrate", "dir", "pg", "net">>) = {"migrate", "dir", "pg", "net"}
    BY 1..4 = {1, 2, 3, 4} DEF ToSet
  <2>2. <<"migrate", "dir", "pg", "net">> \in Lists
    BY Zenon DEF Lists
  <2> QED BY <2>1, <2>2
<1>5. ToSet(<<"seed", "dir", "pg", "net">>) = {"seed", "dir", "pg", "net"} /\ <<"seed", "dir", "pg", "net">> \in Lists
  <2>1. ToSet(<<"seed", "dir", "pg", "net">>) = {"seed", "dir", "pg", "net"}
    BY 1..4 = {1, 2, 3, 4} DEF ToSet
  <2>2. <<"seed", "dir", "pg", "net">> \in Lists
    BY Zenon DEF Lists
  <2> QED BY <2>1, <2>2
<1>6. ToSet(<<"server", "dir", "pg", "net">>) = {"server", "dir", "pg", "net"} /\ <<"server", "dir", "pg", "net">> \in Lists
  <2>1. ToSet(<<"server", "dir", "pg", "net">>) = {"server", "dir", "pg", "net"}
    BY 1..4 = {1, 2, 3, 4} DEF ToSet
  <2>2. <<"server", "dir", "pg", "net">> \in Lists
    BY Zenon DEF Lists
  <2> QED BY <2>1, <2>2
<1>7. ToSet(<<"server", "pg", "net", "dir">>) = {"server", "pg", "net", "dir"} /\ <<"server", "pg", "net", "dir">> \in Lists
  <2>1. ToSet(<<"server", "pg", "net", "dir">>) = {"server", "pg", "net", "dir"}
    BY 1..4 = {1, 2, 3, 4} DEF ToSet
  <2>2. <<"server", "pg", "net", "dir">> \in Lists
    BY Zenon DEF Lists
  <2> QED BY <2>1, <2>2
<1> QED BY <1>1, <1>2, <1>3, <1>4, <1>5, <1>6, <1>7, FailStep

\* A step that goes on has what the next one counts on, and nothing else.
LEMMA GoStep ==
  ASSUME NEW step \in Steps, Go(step), UNCHANGED config, Has(step) \subseteq up',
         up' \subseteq Has(step) \cup Explained', step = "staging" => Staged
  PROVE  ListInv' /\ HasInv' /\ OwedInv'
<1>1. pc' = step /\ todo' = << >> /\ Staged' = Staged
  BY DEF Go, Staged
<1>2. Has(pc)' = Has(step)
  BY <1>1 DEF Has
<1>3. ListInv'
  <2>1. DOMAIN todo' = {}
    BY <1>1
  <2>2. ToSet(todo') = {}
    BY <1>1, EmptyList
  <2> QED BY <1>1, <2>1, <2>2 DEF ListInv
<1> QED BY <1>1, <1>2, <1>3 DEF HasInv, OwedInv

\* A step that goes on once it has removed one of its containers.
LEMMA DiscardStep ==
  ASSUME NEW step \in {"seed", "serve"}, NEW c \in {"migrate", "seed"},
         pc' = step, todo' = <<c>>, UNCHANGED config, Has(step) \subseteq up',
         up' \subseteq Has(step) \cup {c} \cup Explained'
  PROVE  ListInv' /\ HasInv' /\ OwedInv'
<1>1. Has(pc)' = Has(step)
  BY DEF Has, Staged
<1>2. ToSet(todo') = {c}
  BY 1..1 = {1} DEF ToSet
<1>3. ListInv'
  BY <1>2 DEF ListInv
<1> QED BY <1>1, <1>2, <1>3 DEF HasInv, OwedInv

\* Removing the first of a list keeps the order, and keeps the account.
LEMMA RemovalStep ==
  ASSUME IInv, todo # << >>, NEW x, x = Head(todo), todo' = Tail(todo),
         UNCHANGED <<config, pc, exit>>,
         \/ Gone(x)
         \/ Held(x) /\ heldBy' = live /\ UNCHANGED <<docker, dropped, refused>>
         \/ x \in up /\ Refuses(x)
  PROVE  ListInv' /\ HasInv' /\ FactsInv' /\ OwedInv'
<1>1. /\ ToSet(todo) = {x} \cup ToSet(todo')
      /\ 1 \in DOMAIN todo /\ todo[1] = x
      /\ \A i \in DOMAIN todo' : i + 1 \in DOMAIN todo /\ todo'[i] = todo[i + 1]
      /\ todo \in Seq(Things) /\ todo' \in Seq(Things)
  BY HeadAndTail DEF IInv, TypeOK
<1>2. \A i \in DOMAIN todo' : i \in Nat /\ i >= 1
  BY <1>1
<1>3. pc \in {"seed", "serve"} \/ Over
  BY DEF IInv, ListInv, Over
<1>4. ListInv'
  <2>1. ASSUME NEW i \in DOMAIN todo', NEW j \in DOMAIN todo', i < j, todo'[i] = "net"
        PROVE  todo'[j] \notin Containers
    <3>1. i + 1 < j + 1
      BY <1>2, <2>1
    <3> QED BY <1>1, <2>1, <3>1 DEF IInv, ListInv
  <2>2. pc' \in {"seed", "serve"} => ToSet(todo') \subseteq {"migrate", "seed"}
    BY <1>1 DEF IInv, ListInv
  <2>3. pc' \in {"seed", "serve", "failed", "down"}
    BY <1>3 DEF Over
  <2> QED BY <2>1, <2>2, <2>3 DEF ListInv
<1>5. Has(pc)' = Has(pc) /\ Facts(pc)' = Facts(pc) /\ Staged' = Staged
  BY DEF Has, Facts, Staged
<1>6. Over => Has(pc) = {} /\ Facts(pc) = {}
  BY DEF Over, Has, Facts
<1>7. ~Over => x \in {"migrate", "seed"} /\ x \notin Has(pc)
  BY <1>1, <1>3 DEF IInv, ListInv, Has
<1>8. HasInv' /\ FactsInv'
  <2>1. CASE Over
    BY <2>1, <1>5, <1>6 DEF HasInv, FactsInv, Over
  <2>2. CASE ~Over
    <3>1. up \ {x} \subseteq up' /\ db' = db
      BY <1>7, <2>2 DEF Gone, Held, Refuses, docker
    <3>2. HasInv'
      BY <1>5, <1>7, <2>2, <3>1 DEF IInv, HasInv
    <3>3. FactsInv'
      BY <1>5, <3>1 DEF IInv, FactsInv
    <3> QED BY <3>2, <3>3
  <2> QED BY <2>1, <2>2
<1>9. OwedInv'
  <2>1. CASE Gone(x)
    <3>1. Explained' = Explained /\ up' = up \ {x}
      BY <2>1 DEF Gone, Explained, history
    <3> QED BY <1>1, <1>5, <3>1 DEF IInv, OwedInv
  <2>2. CASE Held(x) /\ heldBy' = live /\ UNCHANGED <<docker, dropped, refused>>
    <3>1. x = "net" /\ up' = up /\ live # {} /\ Over
      BY <1>7, <2>2 DEF Held, docker
    <3>2. live \subseteq refused \cup dropped
      <4>1. ASSUME NEW c \in live PROVE c \in refused \cup dropped
        <5>1. c \in up /\ c \in Containers /\ c # "net"
          BY DEF IInv, TypeOK, Containers
        <5>2. c \notin ToSet(todo')
          <6>1. ASSUME NEW i \in DOMAIN todo' PROVE todo'[i] # c
            BY <1>1, <1>2, <3>1, <5>1 DEF IInv, ListInv
          <6> QED BY <6>1 DEF ToSet
        <5>3. c \in Explained
          BY <1>1, <1>6, <3>1, <5>1, <5>2 DEF IInv, OwedInv
        <5> QED BY <5>1, <5>3 DEF Explained
      <4> QED BY <4>1
    <3>3. Explained' = refused \cup dropped \cup {"net"}
      BY <2>2, <3>1, <3>2 DEF Explained
    <3>4. Explained \subseteq Explained' /\ x \in Explained'
      BY <3>1, <3>3 DEF Explained
    <3> QED BY <1>1, <1>5, <3>1, <3>4 DEF IInv, OwedInv
  <2>3. CASE x \in up /\ Refuses(x)
    <3>1. Explained \subseteq Explained' /\ x \in Explained' /\ up' = up
      BY <2>3 DEF Refuses, Explained, docker
    <3> QED BY <1>1, <1>5, <3>1 DEF IInv, OwedInv
  <2> QED BY <2>1, <2>2, <2>3
<1> QED BY <1>4, <1>8, <1>9

\* Every step of startContainers that went well, failed, or was hung keeps the
\* account, and so does Stop.
LEMMA AccountStep == IInv /\ [Next]_vars => ListInv' /\ HasInv' /\ FactsInv' /\ OwedInv'
<1> SUFFICES ASSUME IInv, [Next]_vars PROVE ListInv' /\ HasInv' /\ FactsInv' /\ OwedInv'
  OBVIOUS
<1> DEFINE Good == ListInv' /\ HasInv' /\ FactsInv' /\ OwedInv'
<1>a. /\ HasInv /\ FactsInv
      /\ todo = << >> => up \subseteq Has(pc) \cup Explained
  BY NothingOwed DEF IInv
<1>1. CASE MakeNetwork
  <2>0. todo = << >> /\ Has(pc) = {} /\ UNCHANGED config /\ Explained' = Explained
    BY <1>1 DEF MakeNetwork, Running, Has, Explained, history
  <2>1. CASE up' = up \cup {"net"} /\ Go("postgres")
    <3>1. Has("postgres") = {"net"}
      BY DEF Has
    <3>2. ListInv' /\ HasInv' /\ OwedInv'
      BY <1>a, <2>0, <2>1, <3>1, GoStep DEF Steps
    <3>3. FactsInv'
      BY <2>1 DEF FactsInv, Facts, Go
    <3> QED BY <3>2, <3>3
  <2>2. CASE Fail(<< >>) /\ up' = up
    BY <1>a, <2>0, <2>2, FailStep DEF Lists
  <2> QED BY <1>1, <2>1, <2>2 DEF MakeNetwork, docker
<1>2. CASE RunPostgres
  <2>0. todo = << >> /\ Has(pc) = {"net"} /\ UNCHANGED config
    BY <1>2 DEF RunPostgres, Running, Has
  <2>1. CASE Creates("pg") /\ Go("bundle") /\ UNCHANGED history
    <3>1. Has("bundle") = {"net", "pg"} /\ up' = up \cup {"pg"} /\ Explained' = Explained
      BY <2>1 DEF Has, Creates, history, Explained
    <3>2. ListInv' /\ HasInv' /\ OwedInv'
      BY <1>a, <2>0, <2>1, <3>1, GoStep DEF Steps, HasInv
    <3>3. FactsInv'
      BY <2>1 DEF FactsInv, Facts, Go
    <3> QED BY <3>2, <3>3
  <2>2. CASE Forgets("pg") /\ Fail(<<"net">>)
    <3>1. up' \subseteq up \cup dropped' /\ Explained \subseteq Explained' /\ dropped' \subseteq Explained'
      BY <2>2, ExplainedGrows DEF Forgets, LeavesBehind, Explained
    <3> QED BY <1>a, <2>0, <2>2, <3>1, FailLists
  <2> QED BY <1>2, <2>1, <2>2 DEF RunPostgres
<1>3. CASE BuildBundle
  <2>0. /\ todo = << >> /\ Has(pc) = {"net", "pg"} /\ UNCHANGED config
        /\ Explained' = Explained
    BY <1>3 DEF BuildBundle, Running, Has, Explained, history
  <2>1. CASE Staged /\ up' = up \cup {"dir"} /\ Go("staging")
    <3>1. Has("staging") = {"net", "pg", "dir"}
      BY DEF Has
    <3>2. ListInv' /\ HasInv' /\ OwedInv'
      BY <1>a, <2>0, <2>1, <3>1, GoStep DEF Steps, HasInv
    <3>3. FactsInv'
      BY <2>1 DEF FactsInv, Facts, Go
    <3> QED BY <3>2, <3>3
  <2>2. CASE ~Staged /\ Go("migrate") /\ up' = up
    <3>1. Has("migrate") = {"net", "pg"}
      BY <2>2 DEF Has
    <3>2. ListInv' /\ HasInv' /\ OwedInv'
      BY <1>a, <2>0, <2>2, <3>1, GoStep DEF Steps, HasInv
    <3>3. FactsInv'
      BY <2>2 DEF FactsInv, Facts, Go
    <3> QED BY <3>2, <3>3
  <2>3. CASE Fail(<<"pg", "net">>) /\ up' = up
    BY <1>a, <2>0, <2>3, FailLists
  <2> QED BY <1>3, <2>1, <2>2, <2>3 DEF BuildBundle, docker
<1>4. CASE StageBundle
  <2>0. /\ todo = << >> /\ Has(pc) = {"net", "pg", "dir"} /\ UNCHANGED config /\ Staged
        /\ Explained' = Explained
    BY <1>4, <1>a DEF StageBundle, Running, Has, HasInv, Explained, history
  <2>1. CASE Go("migrate") /\ up' = up
    <3>1. Has("migrate") = {"net", "pg", "dir"}
      BY <2>0 DEF Has
    <3>2. ListInv' /\ HasInv' /\ OwedInv'
      BY <1>a, <2>0, <2>1, <3>1, GoStep DEF Steps, HasInv
    <3>3. FactsInv'
      BY <2>1 DEF FactsInv, Facts, Go
    <3> QED BY <3>2, <3>3
  <2>2. CASE up' = up \ {"dir"} /\ Fail(<<"pg", "net">>)
    BY <1>a, <2>0, <2>2, FailLists
  <2> QED BY <1>4, <2>1, <2>2 DEF StageBundle, docker
<1> DEFINE base == {"net", "pg"} \cup (IF Staged THEN {"dir"} ELSE {})
<1>b. base \subseteq {"net", "pg", "dir"}
  OBVIOUS
<1>5. CASE RunMigrations
  <2>0. todo = << >> /\ Has(pc) = base /\ UNCHANGED config
    BY <1>5 DEF RunMigrations, Running, Has
  <2>1. CASE Runs("migrate", "schema") /\ Go("migrated") /\ UNCHANGED history
    <3>1. /\ Has("migrated") = base \cup {"migrate"} /\ up' = up \cup {"migrate"}
          /\ Explained' = Explained
      BY <2>1 DEF Has, Runs, history, Explained
    <3>2. ListInv' /\ HasInv' /\ OwedInv'
      BY <1>a, <2>0, <2>1, <3>1, GoStep DEF Steps, HasInv
    <3>3. FactsInv'
      BY <2>1 DEF FactsInv, Facts, Go, Runs
    <3> QED BY <3>2, <3>3
  <2>2. CASE Forgets("migrate") /\ Fail(<<"dir", "pg", "net">>)
    <3>1. up' \subseteq up \cup dropped' /\ Explained \subseteq Explained' /\ dropped' \subseteq Explained'
      BY <2>2, ExplainedGrows DEF Forgets, LeavesBehind, Explained
    <3> QED BY <1>a, <1>b, <2>0, <2>2, <3>1, FailLists
  <2> QED BY <1>5, <2>1, <2>2 DEF RunMigrations
<1>6. CASE CheckMigrations
  <2>0. /\ todo = << >> /\ Has(pc) = base \cup {"migrate"} /\ UNCHANGED config /\ pc = "migrated"
        /\ Explained' = Explained /\ up' = up /\ db' = db
    BY <1>6 DEF CheckMigrations, Running, Has, Explained, history, docker
  <2>1. CASE exit = 0 /\ pc' = "seed" /\ todo' = <<"migrate">>
    <3>1. Has("seed") = base
      BY DEF Has
    <3>2. ListInv' /\ HasInv' /\ OwedInv'
      BY <1>a, <2>0, <2>1, <3>1, DiscardStep DEF HasInv
    <3>3. FactsInv'
      BY <1>a, <2>0, <2>1 DEF FactsInv, Facts
    <3> QED BY <3>2, <3>3
  <2>2. CASE Fail(<<"migrate", "dir", "pg", "net">>)
    BY <1>a, <1>b, <2>0, <2>2, FailLists
  <2> QED BY <1>6, <2>1, <2>2 DEF CheckMigrations
<1>7. CASE RunSeed
  <2>0. /\ todo = << >> /\ Has(pc) = base /\ UNCHANGED config /\ pc = "seed"
        /\ Explained' = Explained
    BY <1>7 DEF RunSeed, Running, Has, history, Explained
  <2>1. CASE Runs("seed", "profile") /\ Go("seeded")
    <3>1. Has("seeded") = base \cup {"seed"} /\ up' = up \cup {"seed"}
      BY <2>1 DEF Has, Runs
    <3>2. ListInv' /\ HasInv' /\ OwedInv'
      BY <1>a, <2>0, <2>1, <3>1, GoStep DEF Steps, HasInv
    <3>3. FactsInv'
      BY <1>a, <2>0, <2>1 DEF FactsInv, Facts, Go, Runs
    <3> QED BY <3>2, <3>3
  <2>2. ASSUME NEW made \in SUBSET {"seed"}, LeavesBehind("seed", made),
               Fail(IF made = {} THEN <<"dir", "pg", "net">>
                                 ELSE <<"seed", "dir", "pg", "net">>)
        PROVE Good
    <3>1. up' = up \cup made
      BY <2>2 DEF LeavesBehind
    <3>2. CASE made = {}
      BY <1>a, <1>b, <2>0, <2>2, <3>1, <3>2, FailLists
    <3>3. CASE made # {}
      BY <1>a, <1>b, <2>0, <2>2, <3>1, <3>3, FailLists
    <3> QED BY <3>2, <3>3
  <2> QED BY <1>7, <2>1, <2>2 DEF RunSeed
<1>8. CASE CheckSeed
  <2>0. /\ todo = << >> /\ Has(pc) = base \cup {"seed"} /\ UNCHANGED config /\ pc = "seeded"
        /\ Explained' = Explained /\ up' = up /\ db' = db
    BY <1>8 DEF CheckSeed, Running, Has, Explained, history, docker
  <2>1. CASE exit = 0 /\ pc' = "serve" /\ todo' = <<"seed">>
    <3>1. Has("serve") = base
      BY DEF Has
    <3>2. ListInv' /\ HasInv' /\ OwedInv'
      BY <1>a, <2>0, <2>1, <3>1, DiscardStep DEF HasInv
    <3>3. FactsInv'
      BY <1>a, <2>0, <2>1 DEF FactsInv, Facts
    <3> QED BY <3>2, <3>3
  <2>2. CASE Fail(<<"seed", "dir", "pg", "net">>)
    BY <1>a, <1>b, <2>0, <2>2, FailLists
  <2> QED BY <1>8, <2>1, <2>2 DEF CheckSeed
<1>9. CASE StartServer
  <2>0. todo = << >> /\ Has(pc) = base /\ UNCHANGED config
    BY <1>9 DEF StartServer, Running, Has
  <2>1. CASE /\ {"schema", "profile"} \subseteq db
             /\ Creates("server") /\ Go("addresses") /\ UNCHANGED history
    <3>1. /\ Has("addresses") = base \cup {"server"} /\ up' = up \cup {"server"}
          /\ Explained' = Explained
      BY <2>1 DEF Has, Creates, history, Explained
    <3>2. ListInv' /\ HasInv' /\ OwedInv'
      BY <1>a, <2>0, <2>1, <3>1, GoStep DEF Steps, HasInv
    <3>3. FactsInv'
      BY <2>1 DEF FactsInv, Facts, Go, Creates
    <3> QED BY <3>2, <3>3
  <2>2. CASE Forgets("server") /\ Fail(<<"dir", "pg", "net">>)
    <3>1. up' \subseteq up \cup dropped' /\ Explained \subseteq Explained' /\ dropped' \subseteq Explained'
      BY <2>2, ExplainedGrows DEF Forgets, LeavesBehind, Explained
    <3> QED BY <1>a, <1>b, <2>0, <2>2, <3>1, FailLists
  <2> QED BY <1>9, <2>1, <2>2 DEF StartServer
<1>10. ASSUME Running("addresses") \/ Running("bootstrap") \/ Running("client"),
              UNCHANGED <<config, up, history>>, NEW next \in {"bootstrap", "client", "running"},
              \/ Go(next) /\ FactsInv'
              \/ Fail(<<"server", "dir", "pg", "net">>)
              \/ Fail(<<"server", "pg", "net", "dir">>)
       PROVE  Good
  <2>0. /\ todo = << >> /\ Has(pc) = base \cup {"server"} /\ UNCHANGED <<config, up>>
        /\ Explained' = Explained
    BY <1>10 DEF Running, Has, Explained, history
  <2>1. CASE Go(next) /\ FactsInv'
    <3>1. Has(next) = base \cup {"server"} /\ next \in Steps /\ next # "staging"
      BY DEF Has, Steps
    <3>2. ListInv' /\ HasInv' /\ OwedInv'
      BY <1>a, <2>0, <2>1, <3>1, GoStep DEF HasInv
    <3> QED BY <2>1, <3>2
  <2>2. CASE Fail(<<"server", "dir", "pg", "net">>)
    BY <1>a, <1>b, <2>0, <2>2, FailLists
  <2>3. CASE Fail(<<"server", "pg", "net", "dir">>)
    BY <1>a, <1>b, <2>0, <2>3, FailLists
  <2> QED BY <1>10, <2>1, <2>2, <2>3
<1>11. CASE FindAddresses
  <2>1. Go("bootstrap") => FactsInv'
    BY <1>11, <1>a DEF FindAddresses, Running, FactsInv, Facts, Go, docker
  <2> QED BY <1>10, <1>11, <2>1 DEF FindAddresses, docker
<1>12. CASE BootstrapActor
  <2>1. Go("client") /\ db' = db \cup {"actor"} => FactsInv'
    BY <1>12, <1>a DEF BootstrapActor, Running, FactsInv, Facts, Go
  <2> QED BY <1>10, <1>12, <2>1 DEF BootstrapActor
<1>13. CASE MakeClient
  <2>1. Go("running") => FactsInv'
    BY <1>13, <1>a DEF MakeClient, Running, FactsInv, Facts, Go, docker
  <2> QED BY <1>10, <1>13, <2>1 DEF MakeClient, docker
<1>14. CASE Stop
  <2>1. /\ todo = << >> /\ Has(pc) \subseteq base \cup {"server"} /\ up' = up
        /\ Explained' = Explained /\ pc' = "down" /\ todo' = <<"server", "pg", "net", "dir">>
    BY <1>14 DEF Stop, Running, Has, docker, history, Explained
  <2>2. ToSet(todo') = {"server", "pg", "net", "dir"}
    BY <2>1, 1..4 = {1, 2, 3, 4} DEF ToSet
  <2>3. ListInv'
    BY <2>1, ListsAreOrdered DEF ListInv, Lists
  <2>4. HasInv' /\ FactsInv'
    BY <2>1 DEF HasInv, FactsInv, Has, Facts
  <2>5. OwedInv'
    BY <1>a, <1>b, <2>1, <2>2 DEF OwedInv
  <2> QED BY <2>3, <2>4, <2>5
<1>15. CASE CleanUp
  BY <1>15, RemovalStep DEF CleanUp
<1>16. CASE TimeOut
  BY <1>16, RemovalStep DEF TimeOut
<1>17. CASE Hang
  BY <1>17 DEF IInv, ListInv, HasInv, FactsInv, OwedInv, Hang, docker, history, Has, Facts,
     Staged, Explained
<1>18. CASE Exits
  BY <1>18 DEF IInv, ListInv, HasInv, FactsInv, OwedInv, Exits, history, Has, Facts,
     Staged, Explained
<1>19. CASE UNCHANGED vars
  BY <1>19 DEF IInv, ListInv, HasInv, FactsInv, OwedInv, vars, Has, Facts, Staged, Explained
<1> QED
  BY <1>1, <1>2, <1>3, <1>4, <1>5, <1>6, <1>7, <1>8, <1>9, <1>11, <1>12, <1>13, <1>14,
     <1>15, <1>16, <1>17, <1>18, <1>19 DEF Next

-----------------------------------------------------------------------------
(* The selector.  buildModuleSelector is one loop; the module's fold is a  *)
(* recursion over sets of positions.  LoopOf turns the one into the other. *)

\* Induction over the natural numbers, for a set.
LEMMA SetInduction ==
  ASSUME NEW T, 0 \in T, \A n \in Nat : n \in T => n + 1 \in T
  PROVE  Nat \subseteq T
<1> DEFINE Less == {ss \in Nat \X Nat : ss[1] < ss[2]}
           Rest == Nat \ T
<1>1. IsWellFoundedOn(Less, Nat)
  BY NatLessThanWellFounded DEF OpToRel
<1>2. CASE Rest # {}
  <2>1. PICK m \in Rest : \A n \in Rest : ~ (<<n, m>> \in Less)
    <3> Rest \subseteq Nat
      OBVIOUS
    <3> HIDE DEF Less, Rest
    <3> QED BY <1>1, <1>2, WFMin
  <2>2. m \in Nat /\ m \notin T /\ m # 0
    OBVIOUS
  <2>3. m - 1 \in Nat /\ m - 1 < m /\ (m - 1) + 1 = m
    BY <2>2
  <2>4. <<m - 1, m>> \in Less
    BY <2>2, <2>3
  <2>5. m - 1 \in T
    BY <2>1, <2>3, <2>4
  <2> QED BY <2>2, <2>3, <2>5
<1> QED BY <1>2

\* The fold's own recursion, over the sets of a sequence's positions.
IsPass(f, s, P) ==
  f = [t \in SUBSET P |->
         IF t = {} THEN << >> ELSE AddModule(f[t \ {Max(t)}], s[Max(t)])]

LEMMA LastPosition ==
  ASSUME NEW n \in Nat, NEW t \in SUBSET (1..n + 1), n + 1 \in t
  PROVE  Max(t) = n + 1
<1>1. \A x \in t : n + 1 >= x
  OBVIOUS
<1>2. \A x \in t : (\A y \in t : x >= y) => x = n + 1
  <2> SUFFICES ASSUME NEW x \in t, \A y \in t : x >= y PROVE x = n + 1
    OBVIOUS
  <2> x >= n + 1 /\ n + 1 >= x /\ x \in 1..n + 1
    BY <1>1
  <2> QED OBVIOUS
<1> QED BY <1>1, <1>2 DEF Max

LEMMA PassExists ==
  ASSUME NEW s, NEW n \in Nat
  PROVE  \E f : IsPass(f, s, 1..n)
<1> DEFINE T == {k \in Nat : \E f : IsPass(f, s, 1..k)}
<1>1. 0 \in T
  <2> DEFINE f == [t \in SUBSET (1..0) |-> << >>]
  <2>1. SUBSET (1..0) = {{}}
    <3> 1..0 = {}
      OBVIOUS
    <3> QED OBVIOUS
  <2>2. IsPass(f, s, 1..0)
    BY <2>1 DEF IsPass
  <2> QED BY <2>2
<1>2. ASSUME NEW k \in Nat, k \in T PROVE k + 1 \in T
  <2>1. PICK f : IsPass(f, s, 1..k)
    BY <1>2
  <2> DEFINE g == [t \in SUBSET (1..k + 1) |->
                     IF k + 1 \in t THEN AddModule(f[t \ {k + 1}], s[k + 1]) ELSE f[t]]
             Body(t) == IF t = {} THEN << >> ELSE AddModule(g[t \ {Max(t)}], s[Max(t)])
  <2>2. \A t \in SUBSET (1..k + 1) : k + 1 \notin t => t \in SUBSET (1..k)
    OBVIOUS
  <2>3. \A t \in SUBSET (1..k) : t \in SUBSET (1..k + 1) /\ k + 1 \notin t
    OBVIOUS
  <2>4. \A t \in SUBSET (1..k) : g[t] = f[t]
    BY <2>3
  <2>5. \A t \in SUBSET (1..k) :
          f[t] = IF t = {} THEN << >> ELSE AddModule(f[t \ {Max(t)}], s[Max(t)])
    BY <2>1, Zenon DEF IsPass
  <2>6. ASSUME NEW t \in SUBSET (1..k + 1) PROVE g[t] = Body(t)
    <3>1. CASE k + 1 \in t
      <4>1. Max(t) = k + 1
        BY <3>1, LastPosition
      <4>2. t \ {k + 1} \in SUBSET (1..k)
        BY <2>2
      <4>3. g[t \ {k + 1}] = f[t \ {k + 1}]
        BY <2>4, <4>2
      <4>4. g[t] = AddModule(f[t \ {k + 1}], s[k + 1])
        BY <3>1
      <4> HIDE DEF g
      <4> QED BY <3>1, <4>1, <4>3, <4>4
    <3>2. CASE k + 1 \notin t
      <4>1. t \in SUBSET (1..k) /\ t \ {Max(t)} \in SUBSET (1..k)
        BY <2>2, <3>2
      <4>2. g[t] = f[t] /\ g[t \ {Max(t)}] = f[t \ {Max(t)}]
        BY <2>4, <4>1
      <4> HIDE DEF g
      <4> QED BY <2>5, <4>1, <4>2
    <3> QED BY <3>1, <3>2
  <2>7. g = [t \in SUBSET (1..k + 1) |-> g[t]]
    OBVIOUS
  <2>8. IsPass(g, s, 1..k + 1)
    <3> HIDE DEF g
    <3> QED BY <2>6, <2>7 DEF IsPass
  <2> QED BY <2>8
<1>3. Nat \subseteq T
  <2> HIDE DEF T
  <2> QED BY <1>1, <1>2, SetInduction
<1> QED BY <1>3

\* A fold of AddModule is a loop: it starts with nothing and adds one entry after
\* another.
LEMMA LoopOf ==
  ASSUME NEW M, NEW s \in Seq(M)
  PROVE  \E r : /\ r[0] = << >>
                /\ \A k \in 1..Len(s) : r[k] = AddModule(r[k - 1], s[k])
                /\ FoldLeft(AddModule, << >>, s) = r[Len(s)]
<1> DEFINE n == Len(s)
           f == CHOOSE f : IsPass(f, s, 1..n)
           r == [k \in 0..n |-> f[1..k]]
<1>1. n \in Nat /\ DOMAIN s = 1..n
  BY LenProperties
<1>2. FoldLeft(AddModule, << >>, s) =
        LET iter[t \in SUBSET DOMAIN s] ==
              IF t = {} THEN << >> ELSE AddModule(iter[t \ {Max(t)}], s[Max(t)])
        IN iter[DOMAIN s]
  BY DEF FoldLeft, MapThenFoldSet
<1>3. FoldLeft(AddModule, << >>, s) = f[1..n]
  BY <1>1, <1>2, Zenon DEF IsPass
<1>4. IsPass(f, s, 1..n)
  BY <1>1, PassExists
<1>5. \A t \in SUBSET (1..n) :
        f[t] = IF t = {} THEN << >> ELSE AddModule(f[t \ {Max(t)}], s[Max(t)])
  BY <1>4, Zenon DEF IsPass
<1> HIDE DEF n, f
<1>6. r[0] = << >>
  <2> 1..0 = {} /\ 0 \in 0..n
    BY <1>1
  <2> QED BY <1>5
<1>7. ASSUME NEW k \in 1..n PROVE r[k] = AddModule(r[k - 1], s[k])
  <2>1. k \in Nat /\ k - 1 \in Nat /\ k \in 0..n /\ k - 1 \in 0..n /\ (k - 1) + 1 = k
    BY <1>1
  <2>2. 1..k \in SUBSET (1..n) /\ k \in 1..k /\ (1..k) \ {k} = 1..k - 1
    BY <1>1, <2>1
  <2>3. Max(1..k) = k
    <3> 1..k \in SUBSET (1..(k - 1) + 1) /\ (k - 1) + 1 \in 1..k
      BY <2>1
    <3> QED BY <2>1, LastPosition
  <2>4. f[1..k] = AddModule(f[1..k - 1], s[k])
    BY <1>5, <2>2, <2>3
  <2> QED BY <2>1, <2>4
<1>8. r[n] = f[1..n]
  BY <1>1
<1> HIDE DEF r
<1> QED BY <1>3, <1>6, <1>7, <1>8 DEF n

\* What the loop has listed after k entries: the modules named so far, each once,
\* in the order they were first named.
IsListing(sel, s, k) ==
  /\ sel \in Seq(Modules) /\ IsInjective(sel)
  /\ ToSet(sel) = {s[i] : i \in 1..k} \ {Blank}
  /\ \A i, j \in DOMAIN sel : i < j =>
       \E a \in 1..k : s[a] = sel[i] /\ \A b \in 1..k : s[b] = sel[j] => a < b

LEMMA OneMoreEntry ==
  ASSUME NEW s \in Seq(Modules \cup {Blank}), NEW k \in 1..Len(s), NEW sel,
         IsListing(sel, s, k - 1)
  PROVE  IsListing(AddModule(sel, s[k]), s, k)
<1> DEFINE m == s[k]
           new == AddModule(sel, m)
<1>1. k \in Nat /\ k - 1 \in Nat /\ k \in 1..k /\ \A i \in 1..k - 1 : i \in 1..k /\ i < k
  BY LenProperties
<1>2. \A i \in 1..k : i # k => i \in 1..k - 1
  BY <1>1
<1>3. {s[i] : i \in 1..k} = {s[i] : i \in 1..k - 1} \cup {m}
  BY <1>1, <1>2
<1>4. sel \in Seq(Modules) /\ IsInjective(sel)
      /\ ToSet(sel) = {s[i] : i \in 1..k - 1} \ {Blank}
      /\ \A i, j \in DOMAIN sel : i < j =>
           \E a \in 1..k - 1 : s[a] = sel[i] /\ \A b \in 1..k - 1 : s[b] = sel[j] => a < b
  BY DEF IsListing
<1> HIDE DEF m
<1>5. CASE m = Blank \/ m \in ToSet(sel)
  <2>1. new = sel
    BY <1>5 DEF AddModule
  <2>2. ToSet(sel) = {s[i] : i \in 1..k} \ {Blank}
    BY <1>3, <1>4, <1>5
  <2>3. ASSUME NEW i \in DOMAIN sel, NEW j \in DOMAIN sel, i < j
        PROVE  \E a \in 1..k : s[a] = sel[i] /\ \A b \in 1..k : s[b] = sel[j] => a < b
    <3>1. PICK a \in 1..k - 1 : s[a] = sel[i] /\ \A b \in 1..k - 1 : s[b] = sel[j] => a < b
      BY <1>4, <2>3
    <3>2. a \in 1..k /\ a < k
      BY <1>1
    <3> QED BY <1>2, <3>1, <3>2
  <2>4. IsListing(sel, s, k)
    BY <1>4, <2>2, <2>3 DEF IsListing
  <2> QED BY <2>1, <2>4 DEF m
<1>6. CASE m # Blank /\ m \notin ToSet(sel)
  <2>1. new = Append(sel, m)
    BY <1>6 DEF AddModule
  <2>2. m \in Modules
    BY <1>6, LenProperties, ElementOfSeq DEF m
  <2>3. /\ Append(sel, m) \in Seq(Modules) /\ Len(Append(sel, m)) = Len(sel) + 1
        /\ Append(sel, m)[Len(sel) + 1] = m
        /\ \A i \in 1..Len(sel) : Append(sel, m)[i] = sel[i]
    BY <1>4, <2>2, AppendProperties
  <2> DEFINE app == Append(sel, m)
             n == Len(sel)
  <2>4. n \in Nat /\ DOMAIN sel = 1..n /\ DOMAIN app = 1..n + 1
    BY <1>4, <2>3, LenProperties
  <2>5. app[n + 1] = m /\ \A i \in 1..n : app[i] = sel[i] /\ app[i] # m
    BY <1>6, <2>3, <2>4 DEF ToSet
  <2>6. app \in Seq(Modules)
    BY <2>3
  <2> HIDE DEF app, n
  <2>7. \A i \in 1..n + 1 : i # n + 1 => i \in 1..n
    BY <2>4
  <2>8. IsInjective(app)
    <3> SUFFICES ASSUME NEW i \in 1..n + 1, NEW j \in 1..n + 1, app[i] = app[j] PROVE i = j
      BY <2>4 DEF IsInjective
    <3>1. CASE i = n + 1 \/ j = n + 1
      BY <2>5, <2>7, <3>1
    <3>2. CASE i # n + 1 /\ j # n + 1
      BY <1>4, <2>4, <2>5, <2>7, <3>2 DEF IsInjective
    <3> QED BY <3>1, <3>2
  <2>9. ToSet(app) = ToSet(sel) \cup {m}
    <3>1. \A x \in ToSet(app) : x \in ToSet(sel) \cup {m}
      BY <2>4, <2>5, <2>7 DEF ToSet
    <3>2. \A x \in ToSet(sel) : x \in ToSet(app)
      <4> \A i \in 1..n : i \in 1..n + 1
        BY <2>4
      <4> QED BY <2>4, <2>5 DEF ToSet
    <3>3. m \in ToSet(app)
      <4> n + 1 \in 1..n + 1
        BY <2>4
      <4> QED BY <2>4, <2>5 DEF ToSet
    <3> QED BY <3>1, <3>2, <3>3
  <2>10. ToSet(app) = {s[i] : i \in 1..k} \ {Blank}
    BY <1>3, <1>4, <1>6, <2>9
  <2>11. ASSUME NEW i \in 1..n + 1, NEW j \in 1..n + 1, i < j
         PROVE  \E a \in 1..k : s[a] = app[i] /\ \A b \in 1..k : s[b] = app[j] => a < b
    <3>1. i \in 1..n /\ app[i] = sel[i]
      BY <2>4, <2>5, <2>7, <2>11
    <3>2. CASE j = n + 1
      <4>1. sel[i] \in ToSet(sel)
        BY <2>4, <3>1 DEF ToSet
      <4>2. PICK a \in 1..k - 1 : s[a] = sel[i]
        BY <1>4, <4>1
      <4>3. \A b \in 1..k - 1 : s[b] # m
        BY <1>4, <1>6
      <4>4. \A b \in 1..k : s[b] = app[j] => a < b
        BY <1>1, <1>2, <2>5, <3>2, <4>3
      <4> QED BY <1>1, <3>1, <4>2, <4>4
    <3>3. CASE j # n + 1
      <4>1. j \in 1..n /\ app[j] = sel[j] /\ app[j] # m
        BY <2>5, <2>7, <3>3
      <4>2. PICK a \in 1..k - 1 : s[a] = sel[i] /\ \A b \in 1..k - 1 : s[b] = sel[j] => a < b
        BY <1>4, <2>4, <2>11, <3>1, <4>1
      <4>3. \A b \in 1..k : s[b] = app[j] => a < b
        BY <1>2, <4>1, <4>2 DEF m
      <4> QED BY <1>1, <3>1, <4>2, <4>3
    <3> QED BY <3>2, <3>3
  <2>12. \A i, j \in DOMAIN app : i < j =>
            \E a \in 1..k : s[a] = app[i] /\ \A b \in 1..k : s[b] = app[j] => a < b
    BY <2>4, <2>11, Zenon
  <2>13. IsListing(app, s, k)
    BY <2>6, <2>8, <2>10, <2>12, Zenon DEF IsListing
  <2> QED BY <2>1, <2>13 DEF app, m
<1> QED BY <1>5, <1>6

\* The selector lists what was named, in order.
LEMMA FoldLists ==
  ASSUME NEW s \in Seq(Modules \cup {Blank})
  PROVE  IsListing(FoldLeft(AddModule, << >>, s), s, Len(s))
<1>1. PICK r : /\ r[0] = << >>
               /\ \A k \in 1..Len(s) : r[k] = AddModule(r[k - 1], s[k])
               /\ FoldLeft(AddModule, << >>, s) = r[Len(s)]
  BY LoopOf
<1>2. Len(s) \in Nat
  BY LenProperties
<1> DEFINE T == {k \in Nat : k <= Len(s) => IsListing(r[k], s, k)}
<1>3. 0 \in T
  <2>1. DOMAIN << >> = {} /\ << >> \in Seq(Modules)
    BY LenProperties, EmptySeq
  <2>2. IsListing(<< >>, s, 0)
    BY <2>1, EmptyList, 1..0 = {} DEF IsListing, IsInjective
  <2> QED BY <1>1, <2>2
<1>4. ASSUME NEW k \in Nat, k \in T PROVE k + 1 \in T
  <2> SUFFICES ASSUME k + 1 <= Len(s) PROVE IsListing(r[k + 1], s, k + 1)
    OBVIOUS
  <2>1. k + 1 \in 1..Len(s) /\ (k + 1) - 1 = k /\ k <= Len(s)
    BY <1>2
  <2>2. IsListing(r[(k + 1) - 1], s, (k + 1) - 1)
    BY <1>4, <2>1
  <2>3. IsListing(AddModule(r[(k + 1) - 1], s[k + 1]), s, k + 1)
    BY <2>1, <2>2, OneMoreEntry
  <2> QED BY <1>1, <2>1, <2>3
<1>5. Nat \subseteq T
  <2> HIDE DEF T
  <2> QED BY <1>3, <1>4, SetInduction
<1> QED BY <1>1, <1>2, <1>5
\* What the containers are told to load, for any manifest.
LEMMA SelectorLoads ==
  ASSUME NEW c \in Config, c.bundle # "none", c.name # Base,
         ToSet(c.dependsOn) \subseteq (Image \cup {Blank}) \ {c.name},
         NEW sel, sel = Selector(c.dependsOn, c.name)
  PROVE  /\ Accepts(sel, c) /\ Base \in ToSet(sel) /\ IsInjective(sel)
         /\ InManifestOrder(sel, c.dependsOn)
<1> DEFINE M == Modules \cup {Blank}
           dep == c.dependsOn
           name == c.name
           base == IF Base \in ToSet(dep) THEN << >> ELSE <<Base>>
           s == base \o dep \o <<name>>
           n == Len(dep)
           o == Len(base)
<1>1. /\ dep \in Seq(M) /\ name \in M /\ Base \in M /\ Base \in Modules
      /\ Base # Blank /\ name # Blank /\ name # Base
  BY ConstantsAssumption DEF Config
<1>2. /\ base \in Seq(M) /\ o \in {0, 1} /\ n \in Nat /\ DOMAIN dep = 1..n
      /\ (o = 1 => base[1] = Base /\ Base \notin ToSet(dep))
      /\ (o = 0 => Base \in ToSet(dep))
  <2>1. dep \in Seq(M) /\ n \in Nat /\ DOMAIN dep = 1..n
    BY <1>1, LenProperties
  <2>2. CASE Base \in ToSet(dep)
    <3>1. base = << >> /\ Len(<< >>) = 0 /\ << >> \in Seq(M)
      BY <2>2, EmptySeq
    <3> QED BY <2>1, <2>2, <3>1
  <2>3. CASE Base \notin ToSet(dep)
    <3>1. base = <<Base>> /\ Len(<<Base>>) = 1 /\ <<Base>> \in Seq(M) /\ <<Base>>[1] = Base
      BY <1>1, <2>3
    <3> QED BY <2>1, <2>3, <3>1
  <2> QED BY <2>2, <2>3
<1> HIDE DEF dep, base, name, M
<1>3. /\ s \in Seq(M) /\ Len(s) = o + n + 1 /\ s[o + n + 1] = name
      /\ \A i \in 1..o : s[i] = base[i]
      /\ \A i \in 1..n : s[o + i] = dep[i]
  <2>1. /\ base \o dep \in Seq(M) /\ Len(base \o dep) = o + n
        /\ \A i \in 1..o + n : (base \o dep)[i] = IF i <= o THEN base[i] ELSE dep[i - o]
    BY <1>1, <1>2, ConcatProperties
  <2> DEFINE bd == base \o dep
  <2>2. <<name>> \in Seq(M) /\ Len(<<name>>) = 1 /\ <<name>>[1] = name
    BY <1>1
  <2>3. bd \in Seq(M) /\ Len(bd) = o + n
    BY <2>1
  <2> HIDE DEF bd
  <2>4. /\ bd \o <<name>> \in Seq(M) /\ Len(bd \o <<name>>) = Len(bd) + 1
        /\ \A i \in 1..Len(bd) + 1 :
             (bd \o <<name>>)[i] = IF i <= Len(bd) THEN bd[i] ELSE <<name>>[i - Len(bd)]
    BY <2>2, <2>3, ConcatProperties
  <2>5. \A i \in 1..o + n : s[i] = bd[i]
    <3> SUFFICES ASSUME NEW i \in 1..o + n PROVE s[i] = bd[i]
      OBVIOUS
    <3>1. i \in 1..Len(bd) + 1 /\ i <= Len(bd)
      BY <1>2, <2>3
    <3> QED BY <2>4, <3>1 DEF bd
  <2>6. s[o + n + 1] = name
    <3>1. o + n + 1 \in 1..Len(bd) + 1 /\ ~ (o + n + 1 <= Len(bd)) /\ (o + n + 1) - Len(bd) = 1
      BY <1>2, <2>3
    <3> QED BY <2>2, <2>4, <3>1 DEF bd
  <2>7. ASSUME NEW i \in 1..o PROVE s[i] = base[i]
    <3>1. i \in 1..o + n /\ i <= o
      BY <1>2
    <3> QED BY <2>1, <2>5, <3>1 DEF bd
  <2>8. ASSUME NEW i \in 1..n PROVE s[o + i] = dep[i]
    <3>1. o + i \in 1..o + n /\ ~ (o + i <= o) /\ (o + i) - o = i
      BY <1>2
    <3> QED BY <2>1, <2>5, <3>1 DEF bd
  <2> QED BY <2>3, <2>4, <2>6, <2>7, <2>8 DEF bd
<1>4. sel = FoldLeft(AddModule, << >>, s)
  BY DEF Selector, base, dep, name
<1>5. IsListing(sel, s, o + n + 1)
  <2>1. s \in Seq(Modules \cup {Blank})
    BY <1>3 DEF M
  <2> HIDE DEF s
  <2> QED BY <1>3, <1>4, <2>1, FoldLists
<1> HIDE DEF s, n, o
<1> DEFINE L == o + n + 1
<1>6. /\ sel \in Seq(Modules) /\ IsInjective(sel)
      /\ ToSet(sel) = {s[i] : i \in 1..L} \ {Blank}
      /\ \A i, j \in DOMAIN sel : i < j =>
           \E a \in 1..L : s[a] = sel[i] /\ \A b \in 1..L : s[b] = sel[j] => a < b
  BY <1>5 DEF IsListing
<1>7. L \in 1..L /\ (\A i \in 1..n : o + i \in 1..L /\ o + i < L) /\ (o = 1 => 1 \in 1..L)
  BY <1>2
<1>8. ASSUME NEW i \in 1..L PROVE \/ i = L
                                  \/ o = 1 /\ i = 1
                                  \/ i - o \in 1..n /\ o + (i - o) = i
  BY <1>2
<1>9. ToSet(dep) = {dep[i] : i \in 1..n} /\ ToSet(dep) \subseteq (Image \cup {Blank}) \ {name}
  BY <1>2, Zenon DEF ToSet, dep, name
<1> HIDE DEF L
<1>10. \A i \in 1..L : s[i] = name => i = L
  <2> SUFFICES ASSUME NEW i \in 1..L, s[i] = name, i # L PROVE FALSE
    OBVIOUS
  <2>1. CASE o = 1 /\ i = 1
    BY <1>1, <1>2, <1>3, <2>1
  <2>2. CASE i - o \in 1..n /\ o + (i - o) = i
    <3>1. s[o + (i - o)] = dep[i - o]
      BY <1>3, <2>2
    <3> QED BY <1>9, <2>2, <3>1
  <2> QED BY <1>8, <2>1, <2>2
<1>11. {s[i] : i \in 1..L} = ToSet(dep) \cup {Base, name}
  <2>1. ASSUME NEW i \in 1..L PROVE s[i] \in ToSet(dep) \cup {Base, name}
    <3>1. CASE i = L
      BY <1>3, <3>1 DEF L
    <3>2. CASE o = 1 /\ i = 1
      BY <1>2, <1>3, <3>2
    <3>3. CASE i - o \in 1..n /\ o + (i - o) = i
      <4>1. s[o + (i - o)] = dep[i - o]
        BY <1>3, <3>3
      <4> QED BY <1>9, <3>3, <4>1
    <3> QED BY <1>8, <3>1, <3>2, <3>3
  <2>2. \A x \in ToSet(dep) : \E i \in 1..L : s[i] = x
    <3> SUFFICES ASSUME NEW i \in 1..n PROVE \E j \in 1..L : s[j] = dep[i]
      BY <1>9
    <3> QED BY <1>3, <1>7
  <2>3. \E i \in 1..L : s[i] = name
    BY <1>3, <1>7 DEF L
  <2>4. \E i \in 1..L : s[i] = Base
    <3>1. CASE o = 1
      BY <1>2, <1>3, <1>7, <3>1
    <3>2. CASE o = 0
      BY <1>2, <2>2, <3>2
    <3> QED BY <1>2, <3>1, <3>2
  <2> QED BY <2>1, <2>2, <2>3, <2>4
<1>12. ToSet(sel) = (ToSet(dep) \cup {Base, name}) \ {Blank}
  BY <1>6, <1>11
<1>13. Base \in ToSet(sel) /\ name \in ToSet(sel) /\ ToSet(sel) \subseteq Image \cup {name}
  BY <1>1, <1>9, <1>12, ConstantsAssumption
\* Of two modules listed, the one named first is listed first.
<1>14. ASSUME NEW a \in 1..L, NEW b \in 1..L, a < b, s[a] # Blank, s[b] # Blank,
              \A d \in 1..L : s[d] = s[b] => b <= d
       PROVE  \E i, j \in DOMAIN sel : i < j /\ sel[i] = s[a] /\ sel[j] = s[b]
  <2>1. s[a] \in ToSet(sel) /\ s[b] \in ToSet(sel)
    BY <1>6, <1>14
  <2>2. PICK i, j \in DOMAIN sel : sel[i] = s[a] /\ sel[j] = s[b]
    BY <2>1 DEF ToSet
  <2>3. i \in Nat /\ j \in Nat
    BY <1>6, LenProperties
  <2>4. a \in Nat /\ b \in Nat
    BY <1>2 DEF L
  <2>5. i # j
    <3> SUFFICES ASSUME i = j PROVE FALSE
      OBVIOUS
    <3>1. s[a] = s[b]
      BY <2>2
    <3>2. b <= a
      BY <1>14, <3>1
    <3> QED BY <1>14, <2>4, <3>2
  <2>6. ~ (j < i)
    <3> SUFFICES ASSUME j < i PROVE FALSE
      OBVIOUS
    <3>1. PICK d \in 1..L : s[d] = sel[j] /\ \A e \in 1..L : s[e] = sel[i] => d < e
      BY <1>6, <2>2
    <3>2. d < a /\ b <= d
      BY <1>14, <2>2, <3>1
    <3>3. d \in Nat
      BY <1>2 DEF L
    <3> QED BY <1>14, <2>4, <3>2, <3>3
  <2> QED BY <2>2, <2>3, <2>5, <2>6
<1>15. Accepts(sel, c)
  <2> SUFFICES ASSUME NEW d \in ToSet(dep) \ {Blank}
               PROVE  \E i, j \in DOMAIN sel : i < j /\ sel[i] = d /\ sel[j] = name
    BY <1>13 DEF Accepts, dep, name
  <2>1. PICK i \in 1..n : dep[i] = d
    BY <1>9
  <2>2. s[o + i] = d /\ s[L] = name /\ o + i \in 1..L /\ L \in 1..L /\ o + i < L
    BY <1>3, <1>7, <2>1 DEF L
  <2>3. L \in Nat
    BY <1>2 DEF L
  <2>4. \A e \in 1..L : s[e] = s[L] => L <= e
    BY <1>10, <2>2, <2>3
  <2>5. s[o + i] # Blank /\ s[L] # Blank
    BY <1>1, <2>2
  <2>6. \E k, j \in DOMAIN sel : k < j /\ sel[k] = s[o + i] /\ sel[j] = s[L]
    BY <1>14, <2>2, <2>4, <2>5
  <2> QED BY <2>2, <2>6
<1>16. InManifestOrder(sel, dep)
  <2> SUFFICES ASSUME NEW a \in 1..n, NEW b \in 1..n, a < b, dep[a] # Blank, dep[b] # Blank,
                      \A e \in 1..b - 1 : dep[e] # dep[b]
               PROVE  \E i, j \in DOMAIN sel : i < j /\ sel[i] = dep[a] /\ sel[j] = dep[b]
    BY <1>2 DEF InManifestOrder
  <2>1. /\ s[o + a] = dep[a] /\ s[o + b] = dep[b] /\ o + a \in 1..L /\ o + b \in 1..L
        /\ o + a < o + b
    <3>1. s[o + a] = dep[a] /\ s[o + b] = dep[b]
      BY <1>3
    <3>2. o + a \in 1..L /\ o + b \in 1..L
      BY <1>7
    <3>3. o + a < o + b
      BY <1>2
    <3> QED BY <3>1, <3>2, <3>3
  <2>2. ASSUME NEW e \in 1..L, s[e] = dep[b] PROVE o + b <= e
    <3>1. CASE e = L
      BY <1>2, <1>7, <3>1 DEF L
    <3>2. CASE o = 1 /\ e = 1
      <4>1. s[1] = Base /\ Base \notin ToSet(dep)
        BY <1>2, <1>3, <3>2
      <4>2. dep[b] \in ToSet(dep)
        BY <1>9
      <4> QED BY <2>2, <3>2, <4>1, <4>2
    <3>3. CASE e - o \in 1..n /\ o + (e - o) = e
      <4>1. dep[e - o] = dep[b]
        BY <1>3, <2>2, <3>3
      <4>2. e - o \notin 1..b - 1
        BY <4>1
      <4> QED BY <1>2, <3>3, <4>2
    <3> QED BY <1>8, <3>1, <3>2, <3>3
  <2>3. \E i, j \in DOMAIN sel : i < j /\ sel[i] = s[o + a] /\ sel[j] = s[o + b]
    BY <1>14, <2>1, <2>2
  <2> QED BY <2>1, <2>3
<1> QED BY <1>6, <1>13, <1>15, <1>16 DEF dep

-----------------------------------------------------------------------------
(* The theorems. *)

\* A start begins with nothing.
LEMMA IInvHolds == Spec => []IInv
<1>1. Init => IInv
  <2> SUFFICES ASSUME Init PROVE IInv
    OBVIOUS
  <2>1. TypeOK
    BY << >> \in Seq(Things) DEF Init, TypeOK, Steps
  <2>2. ListInv /\ HasInv /\ FactsInv /\ OwedInv
    BY EmptyList DEF Init, ListInv, HasInv, FactsInv, OwedInv, Has, Facts
  <2> QED BY <2>1, <2>2 DEF IInv
<1>2. IInv /\ [Next]_vars => IInv'
  BY TypeStep, AccountStep DEF IInv
<1> QED BY <1>1, <1>2, PTL DEF Spec

\* Whatever Docker does, a start's account keeps its types.
THEOREM TypeCorrect == Spec => []TypeOK
<1>1. IInv => TypeOK
  BY DEF IInv
<1> QED BY <1>1, IInvHolds, PTL

\* A step finds what it needs, in a database the steps before it completed.
THEOREM NeedsAlwaysMet == Spec => []NeedsMet
<1>1. IInv => NeedsMet
  <2> SUFFICES ASSUME IInv PROVE NeedsMet
    OBVIOUS
  <2>1. Needs(pc) \subseteq Has(pc)
    BY DEF Needs, Has
  <2> QED BY <2>1 DEF IInv, HasInv, FactsInv, NeedsMet
<1> QED BY <1>1, IInvHolds, PTL

\* After a failed start and after Stop, nothing remains without a reason.
THEOREM LeftoversAlwaysExplained == Spec => []LeftoversExplained
<1>1. IInv => LeftoversExplained
  <2> SUFFICES ASSUME IInv, pc \in {"running", "failed", "down"}, todo = << >>,
                      NEW x \in up \ InUse
               PROVE  \/ x \in refused \cup dropped
                      \/ x = "net" /\ heldBy # {} /\ heldBy \subseteq refused \cup dropped
    BY DEF LeftoversExplained
  <2>1. Has(pc) = InUse
    BY DEF Has, InUse
  <2>2. x \in Explained
    BY <2>1, NothingOwed
  <2> QED BY <2>2 DEF Explained
<1> QED BY <1>1, IInvHolds, PTL

\* Whatever the manifest repeats or leaves blank, the consumer is loaded with what
\* it depends on.
THEOREM ModulesAlwaysLoad == Spec => []ModulesLoad
<1>1. TypeOK => ModulesLoad
  <2> SUFFICES ASSUME config \in Configs, config.bundle # "none", config.name # Base,
                      ToSet(config.dependsOn) \subseteq (Image \cup {Blank}) \ {config.name}
               PROVE  LET selector == Selector(config.dependsOn, config.name) IN
                      /\ Boots /\ Base \in ToSet(selector) /\ IsInjective(selector)
                      /\ InManifestOrder(selector, config.dependsOn)
    BY Zenon DEF TypeOK, ModulesLoad
  <2>1. config \in Config
    BY ConstantsAssumption
  <2> QED BY <2>1, SelectorLoads, Zenon DEF Boots
<1> QED BY <1>1, TypeCorrect, PTL
=============================================================================
