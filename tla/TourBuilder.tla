---------------------------- MODULE TourBuilder ----------------------------
(***************************************************************************)
(* What a constructive tour operator promises: a tour is built by visiting *)
(* cities one at a time, never the same city twice, and the operator stops *)
(* only when no city is left.  Which unvisited city comes next is the      *)
(* operator's own business.                                                *)
(***************************************************************************)
EXTENDS Sequences

CONSTANT City

VARIABLES tour, finished

bvars == <<tour, finished>>

Visited == {tour[i] : i \in DOMAIN tour}

Init ==
    /\ tour = << >>
    /\ finished = FALSE

Visit ==
    /\ ~finished
    /\ \E c \in City \ Visited :
          /\ tour' = Append(tour, c)
          /\ finished' = (Visited \cup {c} = City)

SafeSpec == Init /\ [][Visit]_bvars
Spec == SafeSpec /\ WF_bvars(Visit)
=============================================================================
