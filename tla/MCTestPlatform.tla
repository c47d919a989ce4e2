---------------------------- MODULE MCTestPlatform ----------------------------
(* Small instances of TestPlatform for TLC. *)
EXTENDS TestPlatform

CONSTANTS core, agents, crm, blank

\* Every manifest of up to three entries, a staged bundle and none
\* at all, for a consumer of one's own or one of the image's modules.
Manifests == UNION {[1..n -> {core, agents, crm, blank}] : n \in 0..3}

EveryConfig ==
  [bundle : {"real"}, name : {crm}, dependsOn : Manifests]
    \cup [bundle : {"staged", "none"}, name : {crm, agents}, dependsOn : {<< >>}]
=============================================================================
