--------------------------- MODULE MCTspCrossover ---------------------------
(***************************************************************************)
(* Five cities; the first parent is the identity (renaming the cities of a *)
(* run permutes the distance matrix only), the second is every tour.  The  *)
(* distances are asymmetric and have ties, so that the order of the probes *)
(* is observable.                                                          *)
(***************************************************************************)
EXTENDS TspCrossover

MCCity == 1 .. 5
MCN == 5
MCDist == [ab \in MCCity \X MCCity |-> (2 * ab[1] * ab[2] + ab[1] + ab[2] * ab[2]) % 4]

MCInit == Init /\ parent[1] = [i \in Pos |-> i + 1]
MCSpec == MCInit /\ [][Next]_vars /\ WF_vars(Next)

=============================================================================
