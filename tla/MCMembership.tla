---------------------------- MODULE MCMembership ----------------------------
(***************************************************************************)
(* Three nodes and three groups for TLC: the groups that a serves go       *)
(* around the end, and the seed does not serve the group it is taken to.   *)
(***************************************************************************)
EXTENDS Membership

CONSTANTS seed, a, b

Groups == seed :> 1 @@ a :> 2 @@ b :> 0

Numbers == seed :> 1 @@ a :> 2 @@ b :> 1

=============================================================================
