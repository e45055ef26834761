----------------------------- MODULE MCGeneration -----------------------------
(***************************************************************************)
(* Four chromosomes, two of them of the same length.  Mating can yield     *)
(* either parent or a chromosome next to it; a chromosome can also mate    *)
(* with itself.                                                            *)
(***************************************************************************)
EXTENDS Generation, TLC

CONSTANTS c1, c2, c3, c4

MCChromosome == {c1, c2, c3, c4}
MCFitness == (c1 :> 1) @@ (c2 :> 2) @@ (c3 :> 2) @@ (c4 :> 3)
MCMate == [ab \in MCChromosome \X MCChromosome |->
    {ab[1], ab[2]} \cup {c \in MCChromosome : MCFitness[c] \in {MCFitness[ab[1]] - 1, MCFitness[ab[2]]}}]
=============================================================================
