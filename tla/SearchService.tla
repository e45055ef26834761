---------------------------- MODULE SearchService ----------------------------
(***************************************************************************)
(* What the rest of the program relies on when it calls Step03 and then    *)
(* reads _bestChromosome in Step04: once the search has announced that it  *)
(* is over, there is an answer, and the answer does not change any more.   *)
(***************************************************************************)
CONSTANTS Answer, None

VARIABLES phase, answer

svars == <<phase, answer>>

Init == phase = "idle" /\ answer = None

Begin ==
    /\ phase = "idle"
    /\ phase' = "searching"
    /\ UNCHANGED answer

Improve ==
    /\ phase = "searching"
    /\ answer' \in Answer
    /\ UNCHANGED phase

Announce ==
    /\ phase = "searching"
    /\ answer # None
    /\ phase' = "announced"
    /\ UNCHANGED answer

Next == Begin \/ Improve \/ Announce

SafeSpec == Init /\ [][Next]_svars
Spec == SafeSpec /\ WF_svars(Begin) /\ <>(phase = "announced")
=============================================================================
