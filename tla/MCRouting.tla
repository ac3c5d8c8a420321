----------------------------- MODULE MCRouting -----------------------------
(***************************************************************************)
(* Instance of Routing for TLC: a provider with two models and two           *)
(* credentials and one with a single model and credential, all three models  *)
(* in the group.                                                             *)
(***************************************************************************)
EXTENDS Routing, TLC

CONSTANTS p1, p2

MixedOwners == (1 :> p1) @@ (2 :> p1) @@ (3 :> p2) @@ (11 :> p1) @@ (12 :> p1) @@ (13 :> p2)
MixedMembers == (21 :> 1) @@ (22 :> 3) @@ (23 :> 2)

Symmetry == Permutations(Callers) \cup Permutations(Prefixes) \cup Permutations(Names)

\* Either one resolution with edits between its steps, or all of them, by
\* both callers, in a catalog nobody edits
EditsOrCalls == edits > 0 => calls <= 1
=============================================================================
