-------------------------- MODULE MCDeliveryDispatch --------------------------
(***************************************************************************)
(* Two vehicles at two locations.  Vehicle v1 starts at the depot, order   *)
(* 1, and delivers orders 2 and 3, which share an address.  Vehicle v2     *)
(* starts at order 4 and delivers order 5, of a group that has the name of *)
(* the group at the other location.  Two orders of v2 have an address in   *)
(* error: order 6 is of the group of order 5 but lies elsewhere, so that   *)
(* the second run has three cities; order 7 is of no group.  The distance  *)
(* from order 3 to the depot is not known: whether a tour needs it depends *)
(* on the order that stands for the group.                                 *)
(***************************************************************************)
EXTENDS DeliveryDispatch, TLC

CONSTANTS v1, v2, p1, p2, L1, L2, group, s1, s2, s4, s5, nowhere

MCOrder == 1 .. 7
MCErrorOrder == {6, 7}
MCSiteOf == <<s1, s2, s2, s4, s5, nowhere, nowhere>>
MCGroupOf == <<None, group, group, None, group, group, None>>
MCOrderLocation == [o \in MCOrder |-> IF o <= 3 THEN L1 ELSE L2]
MCAllocatedTo == [o \in MCOrder |-> IF o <= 3 THEN v1 ELSE v2]
MCVehicleOf == p1 :> v1 @@ p2 :> v2
MCLocationOf == p1 :> L1 @@ p2 :> L2
MCKnownLeg == (MCOrder \X MCOrder) \ {<<3, 1>>}

(***************************************************************************)
(* Two processes for the same vehicle, which may overlap and of which it   *)
(* does not matter which is which.  Orders 2 to 4 share an address and are *)
(* of one group, but that of order 4 is marked as in error.                *)
(***************************************************************************)
SharedOrder == 1 .. 4
SharedErrorOrder == {4}
SharedSiteOf == <<s1, s2, s2, s2>>
SharedGroupOf == <<None, group, group, group>>
SharedVehicleOf == p1 :> v1 @@ p2 :> v1
SharedLocationOf == p1 :> L1 @@ p2 :> L1
SharedAllocatedTo == [o \in SharedOrder |-> v1]
SharedOrderLocation == [o \in SharedOrder |-> L1]
SharedSymmetry == Permutations(Process)
SharedKnownLeg == SharedOrder \X SharedOrder
=============================================================================
