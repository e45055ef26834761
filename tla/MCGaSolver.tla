----------------------------- MODULE MCGaSolver -----------------------------
(***************************************************************************)
(* Three chromosomes with tour lengths 3, 2 and 1.                         *)
(***************************************************************************)
EXTENDS GaSolver, TLC

CONSTANTS c1, c2, c3

MCChromosome == {c1, c2, c3}
MCFitness == (c1 :> 3) @@ (c2 :> 2) @@ (c3 :> 1)
MCShippedCalls == {"StartNew"}
MCAllCalls == {"StartNew", "Resume", "Pause", "Stop", "SetCriteria", "ChangeParameters"}
=============================================================================
