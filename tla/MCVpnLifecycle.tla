---------------------------- MODULE MCVpnLifecycle ----------------------------
(***************************************************************************)
(* VpnLifecycle on a few inputs.  The inputs a run may use up are its only *)
(* bounds; profiles are interchangeable.                                   *)
(***************************************************************************)
EXTENDS VpnLifecycle, TLC

Symmetry == Permutations(Profiles)
===============================================================================
