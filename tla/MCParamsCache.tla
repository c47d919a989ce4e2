---------------------------- MODULE MCParamsCache ----------------------------
(* Small instances of ParamsCache for TLC. *)
EXTENDS ParamsCache, TLC

CONSTANTS k1, k2, k3, k4, p1, p2, t1, t2

OnePlatform  == [k \in Keys |-> p1]
TwoPlatforms == [k \in Keys |-> IF k = k2 THEN p2 ELSE p1]

JustThreads == Permutations(Threads)
KeysOfP1    == Permutations(Keys \ {k2})   \* with TwoPlatforms
=============================================================================
