------------------------------ MODULE Selections ------------------------------
(***************************************************************************)
(* What deriving clients promises (README, "Handler authority"): a client  *)
(* is a value.  A branch is the selection of grants a client speaks with;  *)
(* deriving adds a branch that selects at least as much as the one it      *)
(* comes from, and no step changes a branch that exists.  A branch whose   *)
(* credential could not be read is silent, and so is all that derives from *)
(* it.                                                                     *)
(***************************************************************************)
EXTENDS Sequences

CONSTANT Grants   \* grant strings

VARIABLE branches \* the selection of each client, in the order they were made

\* chosen: the client states its selection instead of inheriting the signed one.
Branch == [grants: SUBSET Grants, system: BOOLEAN, chosen: BOOLEAN, silent: BOOLEAN]

Inherited == {b \in Branch : ~b.chosen /\ (b.silent => b.grants = {} /\ ~b.system)}

Init == \E b \in Inherited : branches = <<b>>

WithSystemRole(b) ==
  [grants |-> b.grants, system |-> TRUE, chosen |-> TRUE, silent |-> b.silent]

WithGrants(b, grants) ==
  [grants |-> b.grants \cup grants, system |-> b.system, chosen |-> TRUE,
   silent |-> b.silent]

Derive(b) ==
  \/ branches' = Append(branches, WithSystemRole(b))
  \/ /\ ~b.silent
     /\ \E grants \in SUBSET Grants : branches' = Append(branches, WithGrants(b, grants))

Next == \E i \in DOMAIN branches : Derive(branches[i])

Spec == Init /\ [][Next]_branches
=============================================================================
