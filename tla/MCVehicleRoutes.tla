---------------------------- MODULE MCVehicleRoutes ----------------------------
(***************************************************************************)
(* Three vehicles for the depot and three stops, with arrays for three     *)
(* sections.  Each stop has one of two pays, and a freed row may give the  *)
(* smaller one for any of them, such that a last section can be empty,     *)
(* that the average has to be moved both ways, that there are more         *)
(* sections than room for them, and that a split is found in the last      *)
(* turn.  The stops are visited in an order other than that of loading.    *)
(***************************************************************************)
EXTENDS VehicleRoutes

MCCopy == [s \in Stops |-> IF s = 0 THEN 1 ELSE NumStops + 1 - s]
=============================================================================
