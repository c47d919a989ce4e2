----------------------------- MODULE TestPlatform -----------------------------
(***************************************************************************)
(* The platform that integration tests run against: StartPlatform, what it *)
(* creates in Docker one step after another, what it removes when a step   *)
(* fails, and Stop (testsdk/containers.go, testsdk/platform.go).           *)
(*                                                                         *)
(* Every step that can fail has a list of its own of what to remove, in    *)
(* what order; no code relates these lists to one another.  Docker, the    *)
(* programs in the containers and their database are external: what they   *)
(* do is a choice, and Docker may also never answer.                       *)
(*                                                                         *)
(* Container mode only: against a platform that runs already, StartPlatform *)
(* creates nothing and Stop does nothing.                                  *)
(***************************************************************************)
EXTENDS Naturals, SequencesExt

CONSTANTS
  Modules,
  Base,     \* platformBaseModule
  Blank,    \* an entry of depends_on that is empty once trimmed
  Image,    \* the modules of the platform's image
  Configs   \* what callers ask for

Containers == {"pg", "migrate", "seed", "server"}
\* What a start creates; "dir" is the directory of a staged bundle.
Things == Containers \cup {"net", "dir"}

\* WithModuleDir, WithSchema or WithMigrations, or none of them; the consumer's
\* name and what its manifest depends on.
Config == [bundle: {"real", "staged", "none"}, name: Modules,
           dependsOn: Seq(Modules \cup {Blank})]

ASSUME ConstantsAssumption ==
  /\ Base \in Image /\ Image \subseteq Modules /\ Blank \notin Modules
  /\ Configs \subseteq Config /\ Configs # {}
  /\ \A c \in Configs : c.bundle # "real" => c.dependsOn = << >>

VARIABLES
  config,
  pc,      \* the next step, or how the start ended
  todo,    \* what is still to be removed before it
  exit,    \* exit code of the last one-shot container
  up,      \* what exists
  live,    \* containers that run
  db,      \* what the database holds
  hung,    \* Docker does not answer
  dropped, \* history: containers of a call whose error made the caller forget them
  refused, \* history: what Docker did not remove
  heldBy   \* history: the containers that kept the network from being removed

vars == <<config, pc, todo, exit, up, live, db, hung, dropped, refused, heldBy>>
docker == <<up, live, db>>
history == <<dropped, refused, heldBy>>

Steps == {"network", "postgres", "bundle", "staging", "migrate", "migrated", "seed",
          "seeded", "serve", "addresses", "bootstrap", "client", "running", "failed", "down"}

Init ==
  /\ config \in Configs
  /\ pc = "network" /\ todo = << >> /\ exit = 0 /\ hung = FALSE
  /\ up = {} /\ live = {} /\ db = {}
  /\ dropped = {} /\ refused = {} /\ heldBy = {}

-----------------------------------------------------------------------------
(* Which modules the containers load. *)

Staged == config.bundle = "staged"

\* Mutant: what is listed twice is loaded twice.
AddModuleAgain(mods, m) == IF m = Blank THEN mods ELSE Append(mods, m)

AddModule(mods, m) == IF m = Blank \/ m \in ToSet(mods) THEN mods ELSE Append(mods, m)

\* buildModuleSelector
Selector(dependsOn, name) ==
  LET base == IF Base \in ToSet(dependsOn) THEN << >> ELSE <<Base>> IN
  FoldLeft(AddModule, << >>, base \o dependsOn \o <<name>>)

\* The platform knows every module named, and the consumer comes after all that
\* it depends on.
Accepts(selector, c) ==
  /\ ToSet(selector) \subseteq Image \cup (IF c.bundle = "none" THEN {} ELSE {c.name})
  /\ \A d \in ToSet(c.dependsOn) \ {Blank} :
       \E i, j \in DOMAIN selector : i < j /\ selector[i] = d /\ selector[j] = c.name

Boots == Accepts(Selector(config.dependsOn, config.name), config)

-----------------------------------------------------------------------------
(* How a step ends. *)

Running(step) == pc = step /\ todo = << >> /\ ~hung

Go(step) == pc' = step /\ todo' = << >>

\* The step's error branch: remove these, return the error.
Fail(list) == pc' = "failed" /\ todo' = list

\* A failed call of Docker may leave a container behind, running or not.
LeavesBehind(c, made) ==
  /\ made \in SUBSET {c}
  /\ up' = up \cup made
  /\ \E running \in SUBSET made : live' = live \cup running
  /\ UNCHANGED db

\* That container is returned together with the error, and no one removes it.
Forgets(c) ==
  \E made \in SUBSET {c} :
    LeavesBehind(c, made) /\ dropped' = dropped \cup made /\ UNCHANGED <<refused, heldBy>>

Creates(c) == up' = up \cup {c} /\ live' = live \cup {c} /\ UNCHANGED db

\* A container that has run its program to the end; a failed one may have done
\* its work.
Runs(c, work) ==
  /\ up' = up \cup {c} /\ UNCHANGED live
  /\ exit' \in {0, 1}
  /\ db' \in {db, db \cup {work}}
  /\ exit' = 0 => work \in db'

-----------------------------------------------------------------------------
(* startContainers. *)

MakeNetwork ==
  /\ Running("network")
  /\ \/ up' = up \cup {"net"} /\ UNCHANGED <<live, db>> /\ Go("postgres")
     \/ Fail(<< >>) /\ UNCHANGED docker
  /\ UNCHANGED <<config, exit, hung, history>>

RunPostgres ==
  /\ Running("postgres")
  /\ \/ Creates("pg") /\ Go("bundle") /\ UNCHANGED history
     \/ Forgets("pg") /\ Fail(<<"net">>)
  /\ UNCHANGED <<config, exit, hung>>

\* Any of the checks of a module's root may fail, as may the making of a directory.
BuildBundle ==
  /\ Running("bundle")
  /\ \/ /\ Staged
        /\ up' = up \cup {"dir"} /\ UNCHANGED <<live, db>> /\ Go("staging")
     \/ ~Staged /\ Go("migrate") /\ UNCHANGED docker
     \/ config.bundle # "none" /\ Fail(<<"pg", "net">>) /\ UNCHANGED docker
  /\ UNCHANGED <<config, exit, hung, history>>

\* Write the manifest, copy what the caller named.
StageBundle ==
  /\ Running("staging")
  /\ \/ Go("migrate") /\ UNCHANGED docker
     \/ up' = up \ {"dir"} /\ UNCHANGED <<live, db>> /\ Fail(<<"pg", "net">>)
  /\ UNCHANGED <<config, exit, hung, history>>

RunMigrations ==
  /\ Running("migrate")
  /\ \/ /\ Runs("migrate", "schema") /\ Go("migrated") /\ UNCHANGED history
        /\ exit' = 0 => Boots /\ "pg" \in live
     \/ Forgets("migrate") /\ Fail(<<"dir", "pg", "net">>) /\ UNCHANGED exit
  /\ UNCHANGED <<config, hung>>

\* Mutant: the exit code is not looked at.
CheckMigrationsBlindly ==
  /\ Running("migrated")
  /\ \/ pc' = "seed" /\ todo' = <<"migrate">>
     \/ Fail(<<"migrate", "dir", "pg", "net">>)
  /\ UNCHANGED <<config, exit, docker, hung, history>>

CheckMigrations ==
  /\ Running("migrated")
  /\ \/ exit = 0 /\ pc' = "seed" /\ todo' = <<"migrate">>
     \/ Fail(<<"migrate", "dir", "pg", "net">>)
  /\ UNCHANGED <<config, exit, docker, hung, history>>

\* The seeder loads the base module alone.
RunSeed ==
  /\ Running("seed")
  /\ \/ /\ Runs("seed", "profile") /\ Go("seeded")
        /\ exit' = 0 => "schema" \in db /\ "pg" \in live
     \/ /\ \E made \in SUBSET {"seed"} :
             /\ LeavesBehind("seed", made)
             /\ Fail(IF made = {} THEN <<"dir", "pg", "net">>
                                  ELSE <<"seed", "dir", "pg", "net">>)
        /\ UNCHANGED exit
  /\ UNCHANGED <<config, hung, history>>

CheckSeed ==
  /\ Running("seeded")
  /\ \/ exit = 0 /\ pc' = "serve" /\ todo' = <<"seed">>
     \/ Fail(<<"seed", "dir", "pg", "net">>)
  /\ UNCHANGED <<config, exit, docker, hung, history>>

StartServer ==
  /\ Running("serve")
  /\ \/ /\ Boots /\ "pg" \in live /\ {"schema", "profile"} \subseteq db
        /\ Creates("server") /\ Go("addresses") /\ UNCHANGED history
     \/ Forgets("server") /\ Fail(<<"dir", "pg", "net">>)
  /\ UNCHANGED <<config, exit, hung>>

\* Host and mapped port of the server and of Postgres.
FindAddresses ==
  /\ Running("addresses")
  /\ \/ Go("bootstrap")
     \/ Fail(<<"server", "dir", "pg", "net">>)
  /\ UNCHANGED <<config, exit, docker, hung, history>>

\* One transaction, and an answer that may be lost after it.
BootstrapActor ==
  /\ Running("bootstrap")
  /\ \/ "pg" \in live /\ db' = db \cup {"actor"} /\ Go("client")
     \/ db' \in {db, db \cup {"actor"}} /\ Fail(<<"server", "pg", "net", "dir">>)
  /\ UNCHANGED <<config, exit, up, live, hung, history>>

MakeClient ==
  /\ Running("client")
  /\ \/ Go("running")
     \/ Fail(<<"server", "pg", "net", "dir">>)
  /\ UNCHANGED <<config, exit, docker, hung, history>>

\* Mutant: the network is removed before what is attached to it.
StopNetworkEarly ==
  /\ Running("running") \/ Running("down")
  /\ pc' = "down" /\ todo' = <<"server", "net", "pg", "dir">>
  /\ UNCHANGED <<config, exit, docker, hung, history>>

\* Tests may call Stop again.
Stop ==
  /\ Running("running") \/ Running("down")
  /\ pc' = "down" /\ todo' = <<"server", "pg", "net", "dir">>
  /\ UNCHANGED <<config, exit, docker, hung, history>>

-----------------------------------------------------------------------------
(* Removing what is to be removed. *)

\* Docker does not remove a network to which running containers are attached.
Held(x) == x = "net" /\ x \in up /\ live # {}

\* Mutant: a container that is removed runs on.
GoneRunning(x) ==
  /\ ~Held(x)
  /\ up' = up \ {x} /\ db' = IF x = "pg" THEN {} ELSE db
  /\ UNCHANGED <<live, history>>

Gone(x) ==
  /\ ~Held(x)
  /\ up' = up \ {x} /\ live' = live \ {x}
  /\ db' = IF x = "pg" THEN {} ELSE db
  /\ UNCHANGED history

Refuses(x) == refused' = refused \cup {x} /\ UNCHANGED <<docker, dropped, heldBy>>

\* Terminate, net.Remove or the removal of a directory; the error is ignored.
CleanUp ==
  /\ todo # << >> /\ ~hung
  /\ LET x == Head(todo) IN
     \/ Gone(x)
     \/ Held(x) /\ heldBy' = live /\ UNCHANGED <<docker, dropped, refused>>
     \/ x \in up /\ Refuses(x)
  /\ todo' = Tail(todo)
  /\ UNCHANGED <<config, pc, exit, hung>>

\* Mutant: Stop waits for Docker, as the error branches do.
Unbounded == FALSE

\* runCleanupStep, which Stop uses and the error branches do not: after its
\* timeout Docker may or may not have done it.
Bounded == pc = "down"

TimeOut ==
  /\ hung /\ Bounded /\ todo # << >>
  /\ LET x == Head(todo) IN
     \/ Gone(x)
     \/ x \in up /\ Refuses(x)
  /\ todo' = Tail(todo) /\ hung' = FALSE
  /\ UNCHANGED <<config, pc, exit>>

\* Only what is done without Docker is certain to come back.
InDocker ==
  IF todo # << >> THEN Head(todo) # "dir"
  ELSE pc \notin {"bundle", "staging", "client", "running", "failed", "down"}

Hang ==
  /\ ~hung /\ InDocker /\ hung' = TRUE
  /\ UNCHANGED <<config, pc, todo, exit, docker, history>>

\* A container ends by itself.
Exits ==
  /\ \E c \in live : live' = live \ {c}
  /\ UNCHANGED <<config, pc, todo, exit, up, db, hung, history>>

Next ==
  \/ MakeNetwork \/ RunPostgres \/ BuildBundle \/ StageBundle
  \/ RunMigrations \/ CheckMigrations \/ RunSeed \/ CheckSeed
  \/ StartServer \/ FindAddresses \/ BootstrapActor \/ MakeClient
  \/ Stop \/ CleanUp \/ TimeOut \/ Hang \/ Exits

Spec == Init /\ [][Next]_vars

\* A removal is answered, unless Docker hangs, and the timer of runCleanupStep
\* fires.  Nothing is assumed of Docker.
FairSpec == Spec /\ WF_vars(CleanUp) /\ WF_vars(TimeOut)

-----------------------------------------------------------------------------
(* Properties. *)

TypeOK ==
  /\ config \in Configs
  /\ pc \in Steps /\ todo \in Seq(Things) /\ exit \in {0, 1}
  /\ up \subseteq Things /\ live \subseteq up \cap Containers
  /\ db \subseteq {"schema", "profile", "actor"}
  /\ hung \in BOOLEAN
  /\ dropped \subseteq Containers /\ refused \subseteq Things /\ heldBy \subseteq Containers

\* What an environment that tests run against consists of.
InUse ==
  IF pc = "running" THEN {"net", "pg", "server"} \cup (IF Staged THEN {"dir"} ELSE {}) ELSE {}

\* Whichever step of startContainers failed, and after Stop, nothing remains but
\* what Docker did not remove, a container whose handle came with an error and
\* was forgotten, and the network such a container keeps busy.  While the tests
\* run, no one-shot container remains beside the environment.  (The thirteen
\* error branches, and stopFn.)
LeftoversExplained ==
  pc \in {"running", "failed", "down"} /\ todo = << >> =>
    \A x \in up \ InUse :
      \/ x \in refused \cup dropped
      \/ x = "net" /\ heldBy # {} /\ heldBy \subseteq refused \cup dropped

\* What the next step reads or writes.
Needs(step) ==
  CASE step \in {"migrate", "serve"} -> {"net", "pg"} \cup (IF Staged THEN {"dir"} ELSE {})
    [] step \in {"seed", "addresses", "bootstrap"} -> {"net", "pg"}
    [] step \in {"client", "running"} -> {"net", "pg", "server"}
    [] OTHER -> {}

Facts(step) ==
  CASE step = "seed" -> {"schema"}
    [] step \in {"serve", "addresses", "bootstrap"} -> {"schema", "profile"}
    [] step \in {"client", "running"} -> {"schema", "profile", "actor"}
    [] OTHER -> {}

\* A step finds what it needs and a database that the steps before it completed:
\* a failed one-shot is not taken for a completed one, and what one step removes
\* a later one does not need.  So an environment that is handed out is migrated,
\* seeded, and has its actor (containers.go:150-160, 391-395).
NeedsMet == Needs(pc) \subseteq up /\ Facts(pc) \subseteq db

\* What a manifest mentions first is loaded first.
InManifestOrder(selector, dependsOn) ==
  \A a, b \in DOMAIN dependsOn :
    /\ a < b /\ Blank \notin {dependsOn[a], dependsOn[b]}
    /\ \A c \in 1..b - 1 : dependsOn[c] # dependsOn[b]
    => \E i, j \in DOMAIN selector :
         i < j /\ selector[i] = dependsOn[a] /\ selector[j] = dependsOn[b]

\* A consumer that depends on modules of the image is loaded together with them
\* and the base module, each once, in the manifest's order, and the consumer after
\* what it depends on (containers.go:581-589).  Without a bundle there is no
\* consumer to load.
ModulesLoad ==
  LET selector == Selector(config.dependsOn, config.name) IN
  /\ config.bundle # "none"
  /\ config.name # Base /\ ToSet(config.dependsOn) \subseteq (Image \cup {Blank}) \ {config.name}
  => /\ Boots /\ Base \in ToSet(selector) /\ IsInjective(selector)
     /\ InManifestOrder(selector, config.dependsOn)

\* Stop comes to an end even if Docker no longer answers: each of its removals
\* has a timeout (runCleanupStep).  A start that fails has none.
StopEnds == pc = "down" ~> todo = << >>
=============================================================================
