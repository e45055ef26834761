----------------------------- MODULE CityRegistry -----------------------------
(***************************************************************************)
(* TspCities, the registry of the cities of the running search, and the    *)
(* ids that TspCity hands out from a static counter.  A registry is a      *)
(* record of the map from ids to cities and of that counter; a city keeps  *)
(* its id, the order it stands for (its texts and coordinates), and        *)
(* _originId, the id of that order in the registration of Step02 or 0.     *)
(* The distances come from a matrix indexed by position of loading.        *)
(* RemoveCity and the lookups are not called by the program.               *)
(* Definitions marked "Mutant" are no part of the model.                   *)
(***************************************************************************)
EXTENDS Integers, Sequences

Empty == [cities |-> <<>>, nextId |-> 0]

\* A loop that makes a city of each order and inserts it under its id; an id
\* that is already there keeps its city.
Register(reg, orders, origins) ==
    LET ids == reg.nextId + 1 .. reg.nextId + Len(orders)
        New(id) == [id |-> id, origin |-> origins[id - reg.nextId],
                    order |-> orders[id - reg.nextId]]
    IN  [cities |-> [id \in DOMAIN reg.cities \cup ids |->
                        IF id \in DOMAIN reg.cities THEN reg.cities[id] ELSE New(id)],
         nextId |-> reg.nextId + Len(orders)]

\* Step02 registers its orders without, routeBestSearch with their origin.
AddCity(reg, orders) == Register(reg, orders, [n \in DOMAIN orders |-> 0])

\* Mutant: the origin is forgotten.
AddCityForgettingOrigin(reg, orders) == AddCity(reg, orders)
AddCityExt(reg, orders) == Register(reg, orders, orders)

\* Clear deletes the cities and leaves the counter alone.
Clear(reg) == [reg EXCEPT !.cities = <<>>]
ResetNextId(reg) == [reg EXCEPT !.nextId = 0]

GetCities(reg) == {reg.cities[id] : id \in DOMAIN reg.cities}

\* The cell of the distance matrix that a.GetDistance(b) reads.
DistanceCell(a, b) ==
    IF a.origin > 0 THEN <<a.origin - 1, b.origin - 1>> ELSE <<a.id - 1, b.id - 1>>

(***************************************************************************)
(* Whatever the ids, a distance between two cities is that of the orders   *)
(* they stand for: order o is row o - 1 of the matrix.                     *)
(***************************************************************************)
ReadsOwnDistances(reg) ==
    \A a, b \in GetCities(reg) : DistanceCell(a, b) = <<a.order - 1, b.order - 1>>
=============================================================================
