---------------------------- MODULE MCSmartStorage ----------------------------
(***************************************************************************)
(* Two workers with a slot each and a population of two: six objects are   *)
(* enough for all of them.  Objects are interchangeable.                   *)
(***************************************************************************)
EXTENDS SmartStorage, TLC

CONSTANTS o1, o2, o3, o4, o5, o6

MCObject == {o1, o2, o3, o4, o5, o6}
MCShare == (0 :> {1}) @@ (1 :> {2})
Symmetry == Permutations(MCObject)
=============================================================================
