------------------------ MODULE DeliveryDispatchProofs ------------------------
(***************************************************************************)
(* For every set of orders, vehicles and processes, any faults, any number *)
(* of runs and any overlap of them, as long as the data satisfy            *)
(* DataAssumption: no delivery is lost and none is added but those dragged *)
(* along, unless a vehicle is spoilt; which orders can have two rows; and  *)
(* what is in the table is one tour, closed when the run finishes, unless  *)
(* two runs wrote at a time.                                               *)
(***************************************************************************)
EXTENDS DeliveryDispatch, SharedLemmas, FiniteSetTheorems

Places == {"off", "count", "orders", "matrix", "search", "poll", "connect", "delete",
           "leg", "row", "errors"}
Results == {"none", "complete", "error"}
Location == {OrderLocation[o] : o \in Order} \cup {LocationOf[p] : p \in Process}
RowSet == [order : Order, vehicle : Vehicle, location : Location, error : BOOLEAN, index : Nat,
           from : Order \cup {None}, by : Process \cup {None}]
MemSet == [count : Nat, cities : Seq(Order \cup {None}), matrix : BOOLEAN,
           route : Seq(Order \cup {None}), leg : Nat, pending : SUBSET Order,
           errors : SUBSET Order, nextIndex : Nat]

DispatchType ==
    /\ alloc \subseteq RowSet
    /\ pc \in [Process -> Places]
    /\ mem \in [Process -> MemSet]
    /\ report \in [Process -> Results] /\ runs \in [Process -> 0 .. MaxRuns]
    /\ torn \subseteq Process /\ spoilt \subseteq Vehicle /\ raced \subseteq Vehicle

\* The orders a run for vehicle v can come upon; order o may be entered when city
\* c is visited; the orders of v whose address is in error.
Reach(v) == Owed(v) \cup Dragged(v)
Goes(c, o) == o = c \/ SameGroup(c, o)
ErrorsOf(v) == {o \in ErrorOrder : AllocatedTo[o] = v}

\* A row is of the vehicle its order is allocated to.
RowsTrue ==
    \A r \in alloc :
        /\ r.error => r.order \in ErrorsOf(r.vehicle)
        /\ ~r.error => r.order \in Reach(r.vehicle) /\ r.location = OrderLocation[r.order]

HasRoute(p) == pc[p] \in {"connect", "delete", "leg", "row", "errors"}

\* The destination of a leg.
Dest(p, i) == IF i = Len(mem[p].route) THEN mem[p].route[1] ELSE mem[p].route[i + 1]

\* No two entries have the same address; blank ones may repeat.
OneEach(s) ==
    \A i, j \in DOMAIN s : s[i] # None /\ s[j] # None /\ SiteOf[s[i]] = SiteOf[s[j]] => i = j

\* Whatever happens, a process knows orders of its vehicle only, each address once.
OwnOrders(p) ==
    /\ \A i \in DOMAIN mem[p].cities : mem[p].cities[i] \in Reach(VehicleOf[p]) \cup {None}
    /\ \A i \in DOMAIN mem[p].route : mem[p].route[i] \in Reach(VehicleOf[p]) \cup {None}
    /\ mem[p].pending \subseteq Reach(VehicleOf[p])
    /\ mem[p].errors \subseteq ErrorsOf(VehicleOf[p])
    /\ OneEach(mem[p].cities) /\ OneEach(mem[p].route)

InOrder(p) ==
    /\ mem[p].count <= Cardinality(Order)
    /\ mem[p].cities # <<>> => Len(mem[p].cities) = mem[p].count
    /\ pc[p] \in {"off", "count", "orders"} => mem[p].cities = <<>>
    /\ Len(mem[p].route) \in {0, mem[p].count}
    /\ ~HasRoute(p) => mem[p].route = <<>>
    /\ mem[p].leg <= Len(mem[p].route)
    /\ ~Rewriting(p) => mem[p].leg = 0
    /\ pc[p] = "errors" => mem[p].leg = Len(mem[p].route)
    /\ pc[p] = "row" => /\ mem[p].leg < Len(mem[p].route)
                        /\ Origin(p) \in Order /\ Destination(p) \in Order
                        /\ mem[p].pending \subseteq Deliveries(p)
    /\ pc[p] # "off" => report[p] = "none"

ProcessInv(p) == OwnOrders(p) /\ InOrder(p)

MemInv == DispatchType /\ RowsTrue /\ \A p \in Process : ProcessInv(p)

-----------------------------------------------------------------------------
(***************************************************************************)
(* The data.                                                               *)
(***************************************************************************)
LEMMA ReachOne ==
    ASSUME NEW p \in Process, NEW c \in Reach(VehicleOf[p])
    PROVE  c \in Order /\ AllocatedTo[c] = VehicleOf[p] /\ OrderLocation[c] = LocationOf[p]
  <1>1. c \in Order /\ AllocatedTo[c] = VehicleOf[p]
    <2>1. CASE c \in Owed(VehicleOf[p])
      BY <2>1 DEF Owed
    <2>2. CASE c \in Dragged(VehicleOf[p])
      BY <2>2, DataAssumption, OrderAssumption DEF Dragged, Owed
    <2> QED
      BY <2>1, <2>2 DEF Reach
  <1> QED
    BY <1>1, DataAssumption

\* What is entered with an order within reach is within reach.
LEMMA GoesWithin ==
    ASSUME NEW v, NEW c \in Reach(v), NEW o \in Order, Goes(c, o)
    PROVE  o \in Reach(v)
  <1>1. CASE o = c
    BY <1>1
  <1>2. CASE SameGroup(c, o)
    <2>1. PICK q \in Owed(v) : SameGroup(q, o)
      <3>1. CASE c \in Owed(v)
        BY <1>2, <3>1
      <3>2. CASE c \in Dragged(v)
        BY <1>2, <3>2 DEF Dragged, SameGroup
      <3> QED
        BY <3>1, <3>2 DEF Reach
    <2>2. AllocatedTo[o] = v
      BY <2>1, DataAssumption DEF Owed
    <2> QED
      BY <2>1, <2>2 DEF Reach, Owed, Dragged
  <1> QED
    BY <1>1, <1>2 DEF Goes

\* An order that goes with two cities at different addresses is of a group that
\* has more than one address.
LEMMA GoesWithTwo ==
    ASSUME NEW c \in Order, NEW d \in Order, NEW o \in Order, Goes(c, o), Goes(d, o),
           SiteOf[c] # SiteOf[d]
    PROVE  Strewn(o)
  <1>1. GroupOf[o] # None
    BY DEF Goes, SameGroup
  <1>2. SameGroup(o, c) /\ SameGroup(o, d)
    BY <1>1 DEF Goes, SameGroup
  <1> QED
    BY <1>2 DEF Strewn

\* The orders entered for a leg go with its destination; when it is not the leg
\* home, or the depot is of no group, they are all orders that do.
LEMMA DeliveriesGo ==
    ASSUME NEW p \in Process, Destination(p) \in Reach(VehicleOf[p])
    PROVE  /\ Destination(p) \in Order /\ Destination(p) \in Deliveries(p)
           /\ \A o \in Deliveries(p) : o \in Order /\ Goes(Destination(p), o)
           /\ \A o \in Order :
                Goes(Destination(p), o) /\ (GroupOf[Destination(p)] = None \/ ~LastLeg(p))
                    => o \in Deliveries(p)
  <1>1. Destination(p) \in Order /\ OrderLocation[Destination(p)] = LocationOf[p]
    BY ReachOne
  <1> QED
    BY <1>1 DEF Deliveries, Goes, SameGroup

\* What a query of Step01 returns.
LEMMA OrdersAreOwn ==
    ASSUME MemInv, NEW p \in Process
    PROVE  /\ OrdersFor(p) = Served(VehicleOf[p])
           /\ OrdersFor(p) \subseteq Reach(VehicleOf[p])
           /\ IsFiniteSet(Sites(p)) /\ Cardinality(Sites(p)) \in Nat
           /\ Cardinality(Sites(p)) <= Cardinality(Order)
  <1>1. \A r \in RouteRows(VehicleOf[p]) :
            r.order \in Reach(VehicleOf[p]) /\ r.location = LocationOf[p]
    BY ReachOne DEF MemInv, RowsTrue, RouteRows, Rows
  <1>2. OrdersFor(p) = Served(VehicleOf[p])
    BY <1>1 DEF OrdersFor, Served, RouteRows, Rows
  <1>3. OrdersFor(p) \subseteq Reach(VehicleOf[p])
    BY <1>1, <1>2 DEF Served
  <1>4. OrdersFor(p) \subseteq Order /\ IsFiniteSet(OrdersFor(p))
    <2>1. OrdersFor(p) \subseteq Order
      BY <1>3, ReachOne
    <2> QED
      BY <2>1, FS_Subset, OrderAssumption
  <1>5. [o \in OrdersFor(p) |-> SiteOf[o]] \in Surjection(OrdersFor(p), Sites(p))
    BY DEF Surjection, Sites
  <1>6. IsFiniteSet(Sites(p)) /\ Cardinality(Sites(p)) <= Cardinality(OrdersFor(p))
    BY <1>4, <1>5, FS_Surjection
  <1>7. Cardinality(OrdersFor(p)) <= Cardinality(Order)
    BY <1>4, OrderAssumption, FS_Subset
  <1>8. Cardinality(OrdersFor(p)) \in Nat /\ Cardinality(Order) \in Nat /\ Cardinality(Sites(p)) \in Nat
    BY <1>4, <1>6, OrderAssumption, FS_CardinalityType
  <1> QED
    BY <1>2, <1>3, <1>6, <1>7, <1>8

LEMMA ListingOnce ==
    ASSUME MemInv, NEW p \in Process, NEW s \in Listing(p)
    PROVE  /\ s \in Seq(Order) /\ Len(s) = Cardinality(Sites(p)) /\ DOMAIN s = 1 .. Len(s)
           /\ Len(s) \in Nat /\ OneEach(s) /\ \A i \in DOMAIN s : s[i] \in Reach(VehicleOf[p])
  <1> DEFINE n == Cardinality(Sites(p))
             f == [i \in 1 .. n |-> SiteOf[s[i]]]
  <1>1. n \in Nat /\ IsFiniteSet(Sites(p)) /\ OrdersFor(p) \subseteq Reach(VehicleOf[p])
    BY OrdersAreOwn
  <1>2. s \in [1 .. n -> OrdersFor(p)]
    BY DEF Listing
  <1>3. s \in Seq(Order) /\ Len(s) = n /\ DOMAIN s = 1 .. n
    <2>1. OrdersFor(p) \subseteq Order
      BY <1>1, ReachOne
    <2> QED
      BY <1>1, <1>2, <2>1
  <1>4. f \in Surjection(1 .. n, Sites(p))
    <2>1. {SiteOf[s[i]] : i \in 1 .. n} = Sites(p)
      BY <1>2 DEF Listing
    <2> QED
      BY <2>1 DEF Surjection
  <1>5. IsFiniteSet(1 .. n) /\ Cardinality(1 .. n) = n
    BY <1>1, FS_Interval
  <1>6. f \in Injection(1 .. n, Sites(p))
    BY <1>4, <1>5, FS_SurjSameCardinalityImpliesInj
  <1>7. \A i, j \in 1 .. n : SiteOf[s[i]] = SiteOf[s[j]] => i = j
    BY <1>6 DEF Injection, IsInjective
  <1> QED
    BY <1>1, <1>2, <1>3, <1>7 DEF OneEach
\* Step04 turns a tour into one that visits the same cities, the depot first.
LEMMA RotatedTour ==
    ASSUME NEW n \in Nat, n # 0, NEW t \in Tours(n)
    PROVE  /\ DOMAIN Rotated(t) = 1 .. n /\ Rotated(t)[1] = 1
           /\ \A i \in 1 .. n : Rotated(t)[i] \in 1 .. n
           /\ \A i, j \in 1 .. n : Rotated(t)[i] = Rotated(t)[j] => i = j
           /\ \A k \in 1 .. n : \E i \in 1 .. n : Rotated(t)[i] = k
  <1>1. t \in [1 .. n -> 1 .. n] /\ (\A i, j \in 1 .. n : t[i] = t[j] => i = j)
    BY DEF Tours
  <1>2. \A k \in 1 .. n : \E i \in 1 .. n : t[i] = k
    <2>1. t \in Injection(1 .. n, 1 .. n)
      BY <1>1 DEF Injection, IsInjective
    <2>2. IsFiniteSet(1 .. n)
      BY FS_Interval
    <2>3. t \in Surjection(1 .. n, 1 .. n)
      BY <2>1, <2>2, FS_Injection
    <2> QED
      BY <2>3 DEF Surjection
  <1> DEFINE first == CHOOSE i \in DOMAIN t : t[i] = 1
  <1>3. first \in 1 .. n /\ t[first] = 1
    BY <1>1, <1>2
  <1>4. t \in Seq(1 .. n) /\ Len(t) = n
    BY <1>1
  <1>5. Rotated(t) = TurnedTo(t, first)
    BY DEF Rotated, TurnedTo
  <1> HIDE DEF first
  <1>6. /\ Rotated(t) \in Seq(1 .. n) /\ Len(Rotated(t)) = n
        /\ \E from : from[1] = first /\ Permutes(from, n) /\ Rearranges(Rotated(t), t, from)
    BY <1>3, <1>4, <1>5, Rotation
  <1>7. PICK from : from[1] = first /\ Permutes(from, n) /\ Rearranges(Rotated(t), t, from)
    BY <1>6
  <1>8. DOMAIN Rotated(t) = 1 .. n /\ \A i \in 1 .. n : Rotated(t)[i] \in 1 .. n
    BY <1>6
  <1>9. \A i \in 1 .. n : from[i] \in 1 .. n /\ Rotated(t)[i] = t[from[i]]
    BY <1>4, <1>7 DEF Permutes, Rearranges
  <1>10. Rotated(t)[1] = 1
    BY <1>3, <1>7, <1>9
  <1>11. ASSUME NEW i \in 1 .. n, NEW j \in 1 .. n, Rotated(t)[i] = Rotated(t)[j] PROVE i = j
    <2>1. from[i] \in 1 .. n /\ from[j] \in 1 .. n /\ t[from[i]] = t[from[j]]
      BY <1>9, <1>11
    <2>2. from[i] = from[j]
      BY <1>1, <2>1
    <2> QED
      BY <1>7, <2>2 DEF Permutes
  <1>12. \A k \in 1 .. n : \E i \in 1 .. n : Rotated(t)[i] = k
    <2> SUFFICES ASSUME NEW k \in 1 .. n PROVE \E i \in 1 .. n : Rotated(t)[i] = k
      OBVIOUS
    <2>1. PICK j \in 1 .. n : t[j] = k
      BY <1>2
    <2>2. PICK i \in 1 .. n : from[i] = j
      BY <1>7 DEF Permutes
    <2> QED
      BY <1>9, <2>1, <2>2
  <1> QED
    BY <1>8, <1>10, <1>11, <1>12

-----------------------------------------------------------------------------
(***************************************************************************)
(* The memory of the processes: types, and that it holds orders of the     *)
(* vehicle only, each address once.                                        *)
(***************************************************************************)
\* The data do not change.
LEMMA SameData ==
    ASSUME NEW v
    PROVE  Reach(v)' = Reach(v) /\ Owed(v)' = Owed(v) /\ ErrorsOf(v)' = ErrorsOf(v)
  BY DEF Reach, Owed, Dragged, ErrorsOf

\* What a process knows depends on its own place and memory only.
LEMMA MemoryIsOwn ==
    ASSUME NEW q \in Process, ProcessInv(q), pc'[q] = pc[q], mem'[q] = mem[q], report'[q] = report[q]
    PROVE  ProcessInv(q)'
  <1>1. Origin(q)' = Origin(q) /\ Destination(q)' = Destination(q) /\ Deliveries(q)' = Deliveries(q)
    BY DEF Origin, Destination, Deliveries, LastLeg
  <1> QED
    BY <1>1, SameData DEF ProcessInv, OwnOrders, InOrder, OneEach, HasRoute, Rewriting

LEMMA MemKept ==
    ASSUME MemInv, NEW p \in Process, DispatchType', RowsTrue', ProcessInv(p)',
           \A q \in Process \ {p} : pc'[q] = pc[q] /\ mem'[q] = mem[q] /\ report'[q] = report[q]
    PROVE  MemInv'
  <1>1. \A q \in Process \ {p} : ProcessInv(q)'
    BY MemoryIsOwn DEF MemInv
  <1> QED
    BY <1>1 DEF MemInv

\* A step that leaves the table alone.
LEMMA QuietStep ==
    ASSUME MemInv, NEW p \in Process, NEW place \in Places, Goto(p, place),
           NEW m \in MemSet, mem' = [mem EXCEPT ![p] = m],
           UNCHANGED <<alloc, runs, raced>>, torn' \subseteq Process, spoilt' \subseteq Vehicle,
           report' \in [Process -> Results], \A q \in Process \ {p} : report'[q] = report[q]
    PROVE  /\ pc'[p] = place /\ mem'[p] = m
           /\ ProcessInv(p)' => MemInv'
  <1>1. pc'[p] = place /\ mem'[p] = m /\ \A q \in Process \ {p} : pc'[q] = pc[q] /\ mem'[q] = mem[q]
    BY DEF MemInv, DispatchType, Goto
  <1>2. DispatchType'
    <2>1. pc' \in [Process -> Places] /\ mem' \in [Process -> MemSet]
      BY DEF MemInv, DispatchType, Goto
    <2> QED
      BY <2>1 DEF MemInv, DispatchType
  <1>3. RowsTrue'
    BY SameData DEF MemInv, RowsTrue
  <1> QED
    BY <1>1, <1>2, <1>3, MemKept

LEMMA EndMem ==
    ASSUME MemInv, NEW p \in Process, NEW result \in Results, End(p, result),
           UNCHANGED <<alloc, runs, raced>>
    PROVE  MemInv'
  <1>1. Fresh \in MemSet
    BY DEF Fresh, MemSet
  <1>2. torn' \subseteq Process /\ spoilt' \subseteq Vehicle
    BY AllocationAssumption DEF End, MemInv, DispatchType
  <1>3. report' \in [Process -> Results] /\ \A q \in Process \ {p} : report'[q] = report[q]
    BY DEF End, MemInv, DispatchType
  <1>4. Goto(p, "off") /\ mem' = [mem EXCEPT ![p] = Fresh]
    BY DEF End
  <1>5. pc'[p] = "off" /\ mem'[p] = Fresh /\ (ProcessInv(p)' => MemInv')
    BY <1>1, <1>2, <1>3, <1>4, QuietStep DEF Places
  <1>6. 0 <= Cardinality(Order)
    BY FS_CardinalityType, OrderAssumption
  <1>7. OwnOrders(p)' /\ InOrder(p)'
    BY <1>5, <1>6, SameData DEF OwnOrders, InOrder, OneEach, HasRoute, Rewriting, Fresh
  <1> QED
    BY <1>5, <1>7 DEF ProcessInv

LEMMA RunMem ==
    ASSUME MemInv, NEW p \in Process, Run(p)
    PROVE  MemInv'
  <1>1. /\ pc[p] = "off" /\ pc'[p] = "count" /\ mem' = mem /\ alloc' = alloc /\ report'[p] = "none"
        /\ \A q \in Process \ {p} : pc'[q] = pc[q] /\ report'[q] = report[q]
    BY DEF Run, Goto, MemInv, DispatchType
  <1>2. DispatchType'
    <2>1. runs[p] + 1 \in 0 .. MaxRuns
      BY MaxRunsAssumption DEF Run, MemInv, DispatchType
    <2> QED
      BY <2>1 DEF Run, Goto, MemInv, DispatchType, Places, Results
  <1>3. RowsTrue'
    BY <1>1, SameData DEF MemInv, RowsTrue
  <1>4. ProcessInv(p)
    BY DEF MemInv
  <1>5. OwnOrders(p)' /\ InOrder(p)'
    BY <1>1, <1>4, SameData DEF ProcessInv, OwnOrders, InOrder, OneEach, HasRoute, Rewriting
  <1> QED
    BY <1>1, <1>2, <1>3, <1>5, MemKept DEF ProcessInv

LEMMA CountOrdersMem ==
    ASSUME MemInv, NEW p \in Process, CountOrders(p)
    PROVE  MemInv' /\ pc'[p] = "orders" /\ mem'[p].count = Cardinality(Sites(p))
  <1>1. PICK s \in Listing(p) : mem' = [mem EXCEPT ![p].count = Len(s)]
    BY DEF CountOrders
  <1>2. Len(s) = Cardinality(Sites(p)) /\ Len(s) \in Nat /\ Len(s) <= Cardinality(Order)
    BY ListingOnce, OrdersAreOwn
  <1> DEFINE m == [mem[p] EXCEPT !.count = Len(s)]
  <1>3. pc[p] = "count" /\ Goto(p, "orders") /\ mem[p] \in MemSet /\ ProcessInv(p)
    BY DEF CountOrders, MemInv, DispatchType
  <1>4. m \in MemSet /\ mem' = [mem EXCEPT ![p] = m]
    BY <1>1, <1>2, <1>3 DEF MemSet
  <1>5. m.count = Len(s) /\ m.cities = mem[p].cities /\ m.route = mem[p].route
        /\ m.leg = mem[p].leg /\ m.pending = mem[p].pending /\ m.errors = mem[p].errors
    BY <1>3 DEF MemSet
  <1>6. UNCHANGED <<alloc, runs, raced, report, spoilt>> /\ torn' \subseteq Process
    BY DEF CountOrders, Reads, MemInv, DispatchType
  <1> HIDE DEF m
  <1>7. pc'[p] = "orders" /\ mem'[p] = m /\ (ProcessInv(p)' => MemInv')
    BY <1>3, <1>4, <1>6, QuietStep DEF Places, MemInv, DispatchType
  <1>8. m.route = <<>> /\ m.cities = <<>>
    BY <1>3, <1>5 DEF ProcessInv, InOrder, HasRoute
  <1>9. OwnOrders(p)'
    BY <1>3, <1>5, <1>7, <1>8, SameData DEF ProcessInv, OwnOrders, OneEach
  <1>10. InOrder(p)'
    BY <1>2, <1>3, <1>5, <1>6, <1>7, <1>8 DEF ProcessInv, InOrder, HasRoute, Rewriting
  <1> QED
    BY <1>2, <1>5, <1>7, <1>9, <1>10 DEF ProcessInv

\* The array of cities: what the second query returned, blank or cut off at the
\* size the first one gave.
Loaded(p, s) == [i \in 1 .. mem[p].count |-> IF i <= Len(s) THEN s[i] ELSE None]

LEMMA LoadOrdersMem ==
    ASSUME MemInv, NEW p \in Process, NEW s \in Listing(p), mem' = [mem EXCEPT ![p].cities = Loaded(p, s)],
           LoadOrders(p)
    PROVE  /\ MemInv' /\ pc'[p] = "matrix" /\ mem'[p].cities = Loaded(p, s)
           /\ Len(s) = mem[p].count => Loaded(p, s) = s
  <1>1. /\ s \in Seq(Order) /\ DOMAIN s = 1 .. Len(s) /\ Len(s) \in Nat
        /\ OneEach(s) /\ \A i \in DOMAIN s : s[i] \in Reach(VehicleOf[p])
    BY ListingOnce
  <1> DEFINE c == Loaded(p, s)
             m == [mem[p] EXCEPT !.cities = c]
  <1>2. pc[p] = "orders" /\ Goto(p, "matrix") /\ mem[p] \in MemSet /\ ProcessInv(p)
    BY DEF LoadOrders, MemInv, DispatchType
  <1>3. mem[p].count \in Nat
    BY <1>2 DEF MemSet
  <1>4. /\ DOMAIN c = 1 .. mem[p].count
        /\ \A i \in DOMAIN c : c[i] = IF i <= Len(s) THEN s[i] ELSE None
    BY <1>3 DEF Loaded
  <1>5. \A i \in DOMAIN c : c[i] \in Reach(VehicleOf[p]) \cup {None}
    BY <1>1, <1>3, <1>4
  <1>6. c \in Seq(Order \cup {None}) /\ Len(c) = mem[p].count
    <2>1. \A i \in 1 .. mem[p].count : (IF i <= Len(s) THEN s[i] ELSE None) \in Order \cup {None}
      BY <1>1, <1>3
    <2>2. c \in [1 .. mem[p].count -> Order \cup {None}]
      BY <2>1 DEF Loaded
    <2> HIDE DEF c
    <2> QED
      BY <1>3, <1>4, <2>2
  <1>7. OneEach(c)
    <2> SUFFICES ASSUME NEW i \in DOMAIN c, NEW j \in DOMAIN c, c[i] # None, c[j] # None,
                        SiteOf[c[i]] = SiteOf[c[j]]
                 PROVE  i = j
      BY DEF OneEach
    <2>1. i \in DOMAIN s /\ j \in DOMAIN s /\ c[i] = s[i] /\ c[j] = s[j]
      BY <1>1, <1>3, <1>4
    <2> HIDE DEF c
    <2> QED
      BY <1>1, <2>1 DEF OneEach
  <1>8. Len(s) = mem[p].count => c = s
    <2> SUFFICES ASSUME Len(s) = mem[p].count PROVE c = s
      OBVIOUS
    <2>1. s \in [1 .. mem[p].count -> Order]
      BY <1>1
    <2>2. \A i \in 1 .. mem[p].count : c[i] = s[i]
      BY <1>1, <1>4
    <2> QED
      BY <2>1, <2>2 DEF Loaded
  <1> HIDE DEF c
  <1>9. m \in MemSet /\ mem' = [mem EXCEPT ![p] = m]
    BY <1>2, <1>6 DEF MemSet, c
  <1>10. m.count = mem[p].count /\ m.cities = c /\ m.route = mem[p].route
        /\ m.leg = mem[p].leg /\ m.pending = mem[p].pending /\ m.errors = mem[p].errors
    BY <1>2 DEF MemSet
  <1>11. UNCHANGED <<alloc, runs, raced, report, spoilt>> /\ torn' \subseteq Process
    BY DEF LoadOrders, Reads, MemInv, DispatchType
  <1> HIDE DEF m
  <1>12. pc'[p] = "matrix" /\ mem'[p] = m /\ (ProcessInv(p)' => MemInv')
    <2>1. report' \in [Process -> Results] /\ spoilt' \subseteq Vehicle /\ "matrix" \in Places
      BY <1>11 DEF MemInv, DispatchType, Places
    <2> QED
      BY <1>2, <1>9, <1>11, <2>1, QuietStep
  <1>13. OwnOrders(p)'
    <2>1. OneEach(mem'[p].cities) /\ OneEach(mem'[p].route)
      BY <1>7, <1>2, <1>10, <1>12 DEF ProcessInv, OwnOrders
    <2> QED
      BY <1>2, <1>5, <1>10, <1>12, <2>1, SameData DEF ProcessInv, OwnOrders, OneEach
  <1>14. InOrder(p)'
    BY <1>2, <1>6, <1>10, <1>11, <1>12 DEF ProcessInv, InOrder, HasRoute, Rewriting
  <1> QED
    BY <1>8, <1>10, <1>12, <1>13, <1>14 DEF ProcessInv, c

\* Steps that at most tell whether the matrix is usable.
Passes(p) == LoadMatrix(p) \/ LoadFails(p) \/ StartFails(p) \/ Connect(p)

LEMMA PassesMem ==
    ASSUME MemInv, NEW p \in Process, Passes(p)
    PROVE  /\ MemInv' /\ ~Writing(p) /\ ~Rewriting(p)'
           /\ pc'[p] \in {"search", "poll", "delete"}
           /\ pc'[p] = "search" => pc[p] = "matrix" \/ mem[p].cities = <<>>
           /\ pc'[p] = "delete" => pc[p] = "connect"
           /\ mem'[p].cities = mem[p].cities /\ mem'[p].route = mem[p].route
           /\ UNCHANGED <<alloc, report, runs, torn, spoilt, raced>>
           /\ \A q \in Process \ {p} : pc'[q] = pc[q] /\ mem'[q] = mem[q]
  <1>1. PICK usable \in BOOLEAN : mem' = [mem EXCEPT ![p] = [mem[p] EXCEPT !.matrix = usable]]
    <2>1. mem[p] \in MemSet /\ mem \in [Process -> MemSet]
      BY DEF MemInv, DispatchType
    <2>2. CASE LoadMatrix(p)
      BY <2>1, <2>2 DEF LoadMatrix
    <2>3. CASE LoadFails(p)
      <3>1. PICK usable \in BOOLEAN : mem' = [mem EXCEPT ![p].matrix = usable]
        BY <2>3 DEF LoadFails
      <3> QED
        BY <2>1, <3>1
    <2>4. CASE StartFails(p) \/ Connect(p)
      <3>1. mem' = mem
        BY <2>4 DEF StartFails, Connect
      <3>2. mem[p] = [mem[p] EXCEPT !.matrix = mem[p].matrix] /\ mem[p].matrix \in BOOLEAN
        BY <2>1 DEF MemSet
      <3>3. mem = [mem EXCEPT ![p] = mem[p]]
        BY <2>1
      <3> QED
        BY <3>1, <3>2, <3>3
    <2> QED
      BY <2>2, <2>3, <2>4 DEF Passes
  <1> DEFINE m == [mem[p] EXCEPT !.matrix = usable]
  <1>2. PICK place \in {"search", "poll", "delete"} :
            /\ Goto(p, place)
            /\ place = "search" => pc[p] \in {"count", "orders", "matrix"}
            /\ place = "poll" => pc[p] = "search"
            /\ place = "delete" => pc[p] = "connect"
    BY DEF Passes, LoadMatrix, LoadFails, StartFails, Connect
  <1>3. mem[p] \in MemSet /\ ProcessInv(p) /\ Local
    BY DEF MemInv, DispatchType, Passes, LoadMatrix, LoadFails, StartFails, Connect
  <1>4. m \in MemSet /\ mem' = [mem EXCEPT ![p] = m]
    BY <1>1, <1>3 DEF MemSet
  <1>5. m.count = mem[p].count /\ m.cities = mem[p].cities /\ m.route = mem[p].route
        /\ m.leg = mem[p].leg /\ m.pending = mem[p].pending /\ m.errors = mem[p].errors
    BY <1>3 DEF MemSet
  <1> HIDE DEF m
  <1>6. pc'[p] = place /\ mem'[p] = m /\ (ProcessInv(p)' => MemInv')
    <2>1. report' \in [Process -> Results] /\ spoilt' \subseteq Vehicle /\ torn' \subseteq Process
          /\ place \in Places /\ UNCHANGED <<alloc, runs, raced, report>>
      BY <1>3 DEF MemInv, DispatchType, Places, Local
    <2> QED
      BY <1>2, <1>4, <2>1, QuietStep
  <1>7. OwnOrders(p)'
    BY <1>3, <1>5, <1>6, SameData DEF ProcessInv, OwnOrders, OneEach
  <1>8. InOrder(p)'
    BY <1>2, <1>3, <1>5, <1>6 DEF ProcessInv, InOrder, HasRoute, Rewriting, Local
  <1>9. ~Writing(p) /\ ~Rewriting(p)'
    BY <1>2, <1>6 DEF Writing, Rewriting
  <1>10. place = "search" => pc[p] = "matrix" \/ mem[p].cities = <<>>
    BY <1>2, <1>3 DEF ProcessInv, InOrder
  <1>11. \A q \in Process \ {p} : pc'[q] = pc[q] /\ mem'[q] = mem[q]
    BY <1>2, <1>4 DEF MemInv, DispatchType, Goto
  <1> QED
    BY <1>2, <1>3, <1>5, <1>6, <1>7, <1>8, <1>9, <1>10, <1>11 DEF ProcessInv, Local

LEMMA SearchMem ==
    ASSUME MemInv, NEW p \in Process, Search(p)
    PROVE  /\ MemInv' /\ pc'[p] = "connect"
           /\ \E from :
                /\ \A i \in 1 .. mem[p].count : from[i] \in 1 .. mem[p].count
                /\ from[1] = 1 /\ mem[p].count >= 1
                /\ DOMAIN mem[p].cities = 1 .. mem[p].count /\ DOMAIN mem'[p].route = 1 .. mem[p].count
                /\ \A i \in 1 .. mem[p].count : mem'[p].route[i] = mem[p].cities[from[i]]
                /\ \A k \in 1 .. mem[p].count : \E i \in 1 .. mem[p].count : from[i] = k
  <1> DEFINE n == mem[p].count
             city == mem[p].cities
             tour(t) == [i \in DOMAIN Rotated(t) |-> city[Rotated(t)[i]]]
             own == Reach(VehicleOf[p]) \cup {None}
  <1>1. PICK t \in Tours(n) : mem' = [mem EXCEPT ![p].route = tour(t)]
    BY DEF Search
  <1>2. /\ pc[p] = "search" /\ Local /\ Goto(p, "connect") /\ city # <<>>
        /\ mem[p] \in MemSet /\ ProcessInv(p)
    BY DEF Search, Searchable, MemInv, DispatchType
  <1>3. n \in Nat /\ n # 0 /\ DOMAIN city = 1 .. n /\ Len(city) = n /\ \A i \in 1 .. n : city[i] \in own
    <2>1. city \in Seq(Order \cup {None}) /\ Len(city) = n /\ n \in Nat
      BY <1>2 DEF MemSet, ProcessInv, InOrder
    <2> QED
      BY <1>2, <2>1 DEF ProcessInv, OwnOrders
  <1> DEFINE rot == Rotated(t)
             route == tour(t)
  <1> HIDE DEF n, city, own
  <1>4. /\ DOMAIN rot = 1 .. n /\ rot[1] = 1
        /\ \A i \in 1 .. n : rot[i] \in 1 .. n
        /\ \A i, j \in 1 .. n : rot[i] = rot[j] => i = j
        /\ \A k \in 1 .. n : \E i \in 1 .. n : rot[i] = k
    BY <1>3, RotatedTour
  <1> HIDE DEF rot
  <1>5. DOMAIN route = 1 .. n /\ \A i \in 1 .. n : route[i] = city[rot[i]]
    BY <1>4 DEF rot
  <1> HIDE DEF route
  <1>6. \A i \in 1 .. n : route[i] \in own
    BY <1>3, <1>4, <1>5
  <1>7. route \in Seq(Order \cup {None}) /\ Len(route) = n
    <2>1. route = [i \in 1 .. n |-> city[rot[i]]]
      BY <1>4 DEF rot, route
    <2>2. \A i \in 1 .. n : city[rot[i]] \in Order \cup {None}
      BY <1>3, <1>4, ReachOne DEF own
    <2>3. route \in [1 .. n -> Order \cup {None}]
      BY <2>1, <2>2
    <2> QED
      BY <1>3, <2>3
  <1>8. OneEach(route)
    <2> SUFFICES ASSUME NEW i \in 1 .. n, NEW j \in 1 .. n, route[i] # None, route[j] # None,
                        SiteOf[route[i]] = SiteOf[route[j]]
                 PROVE  i = j
      BY <1>5 DEF OneEach
    <2>1. rot[i] \in DOMAIN city /\ rot[j] \in DOMAIN city
      BY <1>3, <1>4
    <2>2. SiteOf[city[rot[i]]] = SiteOf[city[rot[j]]] /\ city[rot[i]] # None /\ city[rot[j]] # None
      BY <1>5
    <2>3. rot[i] = rot[j]
      BY <1>2, <2>1, <2>2 DEF ProcessInv, OwnOrders, OneEach, city
    <2> QED
      BY <1>4, <2>3
  <1> DEFINE m == [mem[p] EXCEPT !.route = route]
  <1>9. m \in MemSet /\ mem' = [mem EXCEPT ![p] = m]
    BY <1>1, <1>2, <1>7 DEF MemSet, route
  <1>10. m.count = n /\ m.cities = city /\ m.route = route
        /\ m.leg = mem[p].leg /\ m.pending = mem[p].pending /\ m.errors = mem[p].errors
    BY <1>2 DEF MemSet, n, city
  <1> HIDE DEF m
  <1>11. pc'[p] = "connect" /\ mem'[p] = m /\ (ProcessInv(p)' => MemInv')
    <2>1. report' \in [Process -> Results] /\ spoilt' \subseteq Vehicle /\ torn' \subseteq Process
          /\ "connect" \in Places /\ UNCHANGED <<alloc, runs, raced, report>>
      BY <1>2 DEF MemInv, DispatchType, Places, Local
    <2> QED
      BY <1>2, <1>9, <2>1, QuietStep
  <1>12. OwnOrders(p)'
    <2>1. \A i \in DOMAIN route : route[i] \in own
      BY <1>5, <1>6 DEF route
    <2>2. \A i \in DOMAIN mem'[p].route : mem'[p].route[i] \in Reach(VehicleOf[p]) \cup {None}
      BY <1>10, <1>11, <2>1 DEF own
    <2>3. OneEach(mem'[p].cities) /\ OneEach(mem'[p].route)
      BY <1>2, <1>8, <1>10, <1>11 DEF ProcessInv, OwnOrders, city
    <2> QED
      BY <1>2, <1>10, <1>11, <2>2, <2>3, SameData DEF ProcessInv, OwnOrders, OneEach, city
  <1>13. InOrder(p)'
    BY <1>2, <1>3, <1>7, <1>10, <1>11 DEF ProcessInv, InOrder, HasRoute, Rewriting, Local, city, n
  <1>14. n >= 1
    BY <1>3
  <1>15. \E from :
                /\ \A i \in 1 .. n : from[i] \in 1 .. n
                /\ from[1] = 1 /\ n >= 1
                /\ DOMAIN city = 1 .. n /\ DOMAIN mem'[p].route = 1 .. n
                /\ \A i \in 1 .. n : mem'[p].route[i] = city[from[i]]
                /\ \A k \in 1 .. n : \E i \in 1 .. n : from[i] = k
    <2> WITNESS rot
    <2> QED
      BY <1>3, <1>4, <1>5, <1>10, <1>11, <1>14 DEF route
  <1> QED
    BY <1>11, <1>12, <1>13, <1>15 DEF ProcessInv, n, city

\* A route is as long as its places, and the destination of a leg is one of them.
LEMMA RouteLegs ==
    ASSUME MemInv, NEW p \in Process
    PROVE  /\ mem[p] \in MemSet /\ ProcessInv(p)
           /\ Len(mem[p].route) \in Nat /\ DOMAIN mem[p].route = 1 .. Len(mem[p].route)
           /\ mem[p].leg \in 0 .. Len(mem[p].route)
           /\ \A i \in DOMAIN mem[p].route : Dest(p, i) \in Reach(VehicleOf[p]) \cup {None}
           /\ \A i, j \in DOMAIN mem[p].route :
                Dest(p, i) # None /\ Dest(p, j) # None /\ SiteOf[Dest(p, i)] = SiteOf[Dest(p, j)] => i = j
  <1> DEFINE route == mem[p].route
             n == Len(route)
             at(i) == IF i = n THEN 1 ELSE i + 1
  <1>1. mem[p] \in MemSet /\ ProcessInv(p)
    BY DEF MemInv, DispatchType
  <1>2. n \in Nat /\ DOMAIN route = 1 .. n
    BY <1>1 DEF MemSet
  <1>3. mem[p].leg \in 0 .. n
    BY <1>1, <1>2 DEF ProcessInv, InOrder, MemSet
  <1>4. \A i \in 1 .. n : at(i) \in 1 .. n /\ Dest(p, i) = route[at(i)]
    BY <1>2 DEF Dest
  <1>5. \A i, j \in 1 .. n : at(i) = at(j) => i = j
    BY <1>2
  <1>6. OneEach(route) /\ \A i \in DOMAIN route : route[i] \in Reach(VehicleOf[p]) \cup {None}
    BY <1>1 DEF ProcessInv, OwnOrders
  <1> HIDE DEF at, n, route
  <1>7. ASSUME NEW i \in DOMAIN route, NEW j \in DOMAIN route
        PROVE  /\ Dest(p, i) \in Reach(VehicleOf[p]) \cup {None}
               /\ Dest(p, i) # None /\ Dest(p, j) # None /\ SiteOf[Dest(p, i)] = SiteOf[Dest(p, j)] => i = j
    <2>1. at(i) \in DOMAIN route /\ at(j) \in DOMAIN route
          /\ Dest(p, i) = route[at(i)] /\ Dest(p, j) = route[at(j)]
      BY <1>2, <1>4
    <2>2. Dest(p, i) # None /\ Dest(p, j) # None /\ SiteOf[Dest(p, i)] = SiteOf[Dest(p, j)]
            => at(i) = at(j)
      BY <1>6, <2>1 DEF OneEach
    <2> QED
      BY <1>2, <1>5, <1>6, <2>1, <2>2
  <1> QED
    BY <1>1, <1>2, <1>3, <1>7 DEF route, n

\* The leg being written.
LEMMA LegIs ==
    ASSUME MemInv, NEW p \in Process, mem[p].leg < Len(mem[p].route)
    PROVE  /\ mem[p].leg \in Nat /\ mem[p].leg + 1 \in DOMAIN mem[p].route
           /\ Origin(p) = mem[p].route[mem[p].leg + 1]
           /\ Destination(p) = Dest(p, mem[p].leg + 1)
           /\ Destination(p) \in Reach(VehicleOf[p]) \cup {None}
           /\ Destination(p) \in Order => Destination(p) \in Reach(VehicleOf[p])
           /\ LastLeg(p) <=> mem[p].leg + 1 = Len(mem[p].route)
  <1>1. /\ Len(mem[p].route) \in Nat /\ DOMAIN mem[p].route = 1 .. Len(mem[p].route)
        /\ mem[p].leg \in 0 .. Len(mem[p].route)
    BY RouteLegs
  <1>2. mem[p].leg \in Nat /\ mem[p].leg + 1 \in DOMAIN mem[p].route
    BY <1>1
  <1>3. Destination(p) = Dest(p, mem[p].leg + 1)
    BY <1>1 DEF Destination, Dest, LastLeg
  <1>4. Destination(p) \in Reach(VehicleOf[p]) \cup {None}
    BY <1>2, <1>3, RouteLegs
  <1> QED
    BY <1>2, <1>3, <1>4, NoneAssumption DEF Origin, LastLeg

\* A step that keeps the route and the leg keeps what is derived from them.
LEMMA SameLeg ==
    ASSUME NEW p \in Process, mem'[p].route = mem[p].route
    PROVE  /\ \A i : Dest(p, i)' = Dest(p, i)
           /\ mem'[p].leg = mem[p].leg =>
                /\ Deliveries(p)' = Deliveries(p) /\ Origin(p)' = Origin(p)
                /\ Destination(p)' = Destination(p) /\ LastLeg(p)' = LastLeg(p)
  <1>1. \A i : Dest(p, i)' = Dest(p, i)
    BY DEF Dest
  <1>2. ASSUME mem'[p].leg = mem[p].leg
        PROVE  /\ Deliveries(p)' = Deliveries(p) /\ Origin(p)' = Origin(p)
               /\ Destination(p)' = Destination(p) /\ LastLeg(p)' = LastLeg(p)
    <2>1. LastLeg(p)' = LastLeg(p) /\ Destination(p)' = Destination(p) /\ Origin(p)' = Origin(p)
      BY <1>2 DEF LastLeg, Destination, Origin
    <2> QED
      BY <2>1 DEF Deliveries
  <1> QED
    BY <1>1, <1>2

LEMMA StartLegMem ==
    ASSUME MemInv, NEW p \in Process, StartLeg(p)
    PROVE  /\ MemInv' /\ pc[p] = "leg" /\ pc'[p] = "row"
           /\ mem[p].leg < Len(mem[p].route) /\ Origin(p) \in Order /\ Destination(p) \in Order
           /\ mem'[p].route = mem[p].route /\ mem'[p].leg = mem[p].leg
           /\ mem'[p].pending = Deliveries(p) /\ mem'[p].errors = mem[p].errors
           /\ UNCHANGED <<alloc, report, runs, torn, spoilt, raced>>
           /\ \A q \in Process \ {p} : pc'[q] = pc[q] /\ mem'[q] = mem[q]
  <1> DEFINE m == [mem[p] EXCEPT !.pending = Deliveries(p)]
  <1>1. /\ pc[p] = "leg" /\ Local /\ Goto(p, "row")
        /\ mem[p].leg < Len(mem[p].route) /\ mem[p] \in MemSet /\ ProcessInv(p)
        /\ mem' = [mem EXCEPT ![p].pending = Deliveries(p)]
    BY DEF StartLeg, MemInv, DispatchType
  <1>2. Origin(p) \in Order /\ Destination(p) \in Order
    BY KnownLegAssumption DEF StartLeg
  <1>3. Deliveries(p) \subseteq Reach(VehicleOf[p])
    <2>1. Destination(p) \in Reach(VehicleOf[p])
      BY <1>1, <1>2, LegIs
    <2> QED
      BY <2>1, DeliveriesGo, GoesWithin
  <1>4. m \in MemSet /\ mem' = [mem EXCEPT ![p] = m]
    <2>1. Deliveries(p) \subseteq Order
      BY <1>3, ReachOne
    <2> QED
      BY <1>1, <2>1 DEF MemSet
  <1>5. m.count = mem[p].count /\ m.cities = mem[p].cities /\ m.route = mem[p].route
        /\ m.leg = mem[p].leg /\ m.pending = Deliveries(p) /\ m.errors = mem[p].errors
    BY <1>1 DEF MemSet
  <1> HIDE DEF m
  <1>6. pc'[p] = "row" /\ mem'[p] = m /\ (ProcessInv(p)' => MemInv')
    <2>1. report' \in [Process -> Results] /\ spoilt' \subseteq Vehicle /\ torn' \subseteq Process
          /\ "row" \in Places /\ UNCHANGED <<alloc, runs, raced, report>>
      BY <1>1 DEF MemInv, DispatchType, Places, Local
    <2> QED
      BY <1>1, <1>4, <2>1, QuietStep
  <1>7. Deliveries(p)' = Deliveries(p) /\ Origin(p)' = Origin(p) /\ Destination(p)' = Destination(p)
    BY <1>5, <1>6, SameLeg
  <1>8. OwnOrders(p)'
    BY <1>1, <1>3, <1>5, <1>6, SameData DEF ProcessInv, OwnOrders, OneEach
  <1>9. InOrder(p)'
    BY <1>1, <1>2, <1>5, <1>6, <1>7 DEF ProcessInv, InOrder, HasRoute, Rewriting, Local
  <1>10. \A q \in Process \ {p} : pc'[q] = pc[q] /\ mem'[q] = mem[q]
    BY <1>1, <1>4 DEF MemInv, DispatchType, Goto
  <1> QED
    BY <1>1, <1>2, <1>5, <1>6, <1>8, <1>9, <1>10 DEF ProcessInv, Local

ErrorRows(v) == {r \in alloc : r.vehicle = v /\ r.error}

LEMMA SelectErrorsMem ==
    ASSUME MemInv, NEW p \in Process, SelectErrors(p)
    PROVE  /\ MemInv' /\ pc[p] = "leg" /\ pc'[p] = "errors" /\ mem[p].leg = Len(mem[p].route)
           /\ mem'[p].route = mem[p].route /\ mem'[p].leg = mem[p].leg
           /\ mem'[p].errors = {r.order : r \in ErrorRows(VehicleOf[p])}
           /\ mem'[p].nextIndex = Len(mem[p].route)
           /\ UNCHANGED <<alloc, report, runs, torn, spoilt, raced>>
           /\ \A q \in Process \ {p} : pc'[q] = pc[q] /\ mem'[q] = mem[q]
  <1> DEFINE v == VehicleOf[p]
             found == {r.order : r \in {x \in alloc : x.vehicle = v /\ x.error}}
             m == [mem[p] EXCEPT !.errors = found, !.nextIndex = FirstErrorIndex(p)]
  <1>1. /\ pc[p] = "leg" /\ Local /\ Goto(p, "errors")
        /\ mem[p].leg = Len(mem[p].route) /\ mem[p] \in MemSet /\ ProcessInv(p)
        /\ mem' = [mem EXCEPT ![p].errors = found, ![p].nextIndex = FirstErrorIndex(p)]
    BY DEF SelectErrors, MemInv, DispatchType
  <1>2. found = {r.order : r \in ErrorRows(v)} /\ found \subseteq ErrorsOf(v)
    BY DEF ErrorRows, MemInv, RowsTrue
  <1>3. m \in MemSet /\ mem' = [mem EXCEPT ![p] = m]
    <2>1. found \subseteq Order
      BY DEF MemInv, DispatchType, RowSet
    <2>2. FirstErrorIndex(p) \in Nat
      BY <1>1 DEF FirstErrorIndex, MemSet
    <2>3. m \in MemSet
      BY <1>1, <2>1, <2>2 DEF MemSet
    <2>4. mem' = [mem EXCEPT ![p] = m]
      BY <1>1 DEF MemSet, MemInv, DispatchType
    <2> QED
      BY <2>3, <2>4
  <1>4. m.count = mem[p].count /\ m.cities = mem[p].cities /\ m.route = mem[p].route
        /\ m.leg = mem[p].leg /\ m.pending = mem[p].pending /\ m.errors = found
        /\ m.nextIndex = Len(mem[p].route)
    BY <1>1 DEF MemSet, FirstErrorIndex
  <1> HIDE DEF m, found
  <1>5. pc'[p] = "errors" /\ mem'[p] = m /\ (ProcessInv(p)' => MemInv')
    <2>1. report' \in [Process -> Results] /\ spoilt' \subseteq Vehicle /\ torn' \subseteq Process
          /\ "errors" \in Places /\ UNCHANGED <<alloc, runs, raced, report>>
      BY <1>1 DEF MemInv, DispatchType, Places, Local
    <2> QED
      BY <1>1, <1>3, <2>1, QuietStep
  <1>6. OwnOrders(p)'
    <2>1. OneEach(mem'[p].cities) /\ OneEach(mem'[p].route)
      BY <1>1, <1>4, <1>5 DEF ProcessInv, OwnOrders
    <2>2. mem'[p].errors \subseteq ErrorsOf(VehicleOf[p])
      BY <1>2, <1>4, <1>5
    <2> QED
      BY <1>1, <1>4, <1>5, <2>1, <2>2, SameData DEF ProcessInv, OwnOrders, OneEach
  <1>7. InOrder(p)'
    BY <1>1, <1>4, <1>5 DEF ProcessInv, InOrder, HasRoute, Rewriting, Local
  <1>8. \A q \in Process \ {p} : pc'[q] = pc[q] /\ mem'[q] = mem[q]
    BY <1>1, <1>3 DEF MemInv, DispatchType, Goto
  <1> QED
    BY <1>1, <1>2, <1>4, <1>5, <1>6, <1>7, <1>8 DEF ProcessInv, Local

LEMMA DeleteRowsMem ==
    ASSUME MemInv, NEW p \in Process, DeleteRows(p)
    PROVE  /\ MemInv' /\ pc[p] = "delete" /\ pc'[p] = "leg" /\ mem' = mem /\ mem[p].leg = 0
           /\ UNCHANGED <<report, runs>> /\ \A q \in Process \ {p} : pc'[q] = pc[q]
           /\ RouteRows(VehicleOf[p])' = {}
           /\ \A v : ErrorRows(v)' = ErrorRows(v)
           /\ \A v : v # VehicleOf[p] => RouteRows(v)' = RouteRows(v)
  <1>1. /\ pc[p] = "delete" /\ alloc' = alloc \ Deleted(p) /\ mem' = mem /\ pc'[p] = "leg"
        /\ UNCHANGED <<report, runs>> /\ ProcessInv(p) /\ \A q \in Process \ {p} : pc'[q] = pc[q]
    BY DEF DeleteRows, Goto, MemInv, DispatchType
  <1>2. DispatchType'
    <2>1. pc' \in [Process -> Places]
      BY DEF DeleteRows, Goto, MemInv, DispatchType, Places
    <2>2. torn' \subseteq Process /\ spoilt' \subseteq Vehicle /\ raced' \subseteq Vehicle
      BY AllocationAssumption DEF DeleteRows, MemInv, DispatchType
    <2> QED
      BY <1>1, <2>1, <2>2 DEF MemInv, DispatchType
  <1>3. RowsTrue'
    BY <1>1, SameData DEF MemInv, RowsTrue
  <1>4. OwnOrders(p)'
    BY <1>1, SameData DEF ProcessInv, OwnOrders, OneEach
  <1>5. InOrder(p)'
    BY <1>1 DEF ProcessInv, InOrder, HasRoute, Rewriting
  <1>6. MemInv'
    BY <1>1, <1>2, <1>3, <1>4, <1>5, MemKept DEF ProcessInv
  <1>7. mem[p].leg = 0
    BY <1>1 DEF ProcessInv, InOrder, Rewriting
  <1>8. RouteRows(VehicleOf[p])' = {}
    BY <1>1 DEF RouteRows, Rows, Deleted
  <1>9. \A v : ErrorRows(v)' = ErrorRows(v)
    BY <1>1 DEF ErrorRows, Deleted
  <1>10. \A v : v # VehicleOf[p] => RouteRows(v)' = RouteRows(v)
    BY <1>1 DEF RouteRows, Rows, Deleted
  <1> QED
    BY <1>1, <1>6, <1>7, <1>8, <1>9, <1>10

\* Renumber(r, o, i): what an UPDATE of the number of error order o does to row r.
Renumber(r, o, i) == IF r.error /\ r.order = o THEN [r EXCEPT !.index = i] ELSE r

LEMMA UpdateErrorMem ==
    ASSUME MemInv, NEW p \in Process, UpdateError(p)
    PROVE  /\ MemInv' /\ pc[p] = "errors" /\ pc' = pc
           /\ UNCHANGED <<report, runs, torn, spoilt, raced>>
           /\ \A q \in Process \ {p} : mem'[q] = mem[q]
           /\ mem'[p].route = mem[p].route /\ mem'[p].leg = mem[p].leg
           /\ mem[p].nextIndex \in Nat /\ mem'[p].nextIndex = mem[p].nextIndex + 1
           /\ \E o \in mem[p].errors :
                /\ mem'[p].errors = mem[p].errors \ {o}
                /\ alloc' = {Renumber(r, o, mem[p].nextIndex) : r \in alloc}
                /\ \A r \in alloc :
                    LET s == Renumber(r, o, mem[p].nextIndex)
                    IN  /\ s \in RowSet /\ s.order = r.order /\ s.vehicle = r.vehicle
                        /\ s.location = r.location /\ s.error = r.error
                        /\ ~r.error \/ r.order # o => s = r
                        /\ r.error /\ r.order = o => s.index = mem[p].nextIndex
           /\ \A v : RouteRows(v)' = RouteRows(v)
  <1>1. PICK o \in mem[p].errors :
            /\ alloc' = {IF r.error /\ r.order = o THEN [r EXCEPT !.index = mem[p].nextIndex] ELSE r
                            : r \in alloc}
            /\ mem' = [mem EXCEPT ![p].errors = @ \ {o}, ![p].nextIndex = @ + 1]
    BY DEF UpdateError
  <1> DEFINE new(r) == Renumber(r, o, mem[p].nextIndex)
             m == [mem[p] EXCEPT !.errors = @ \ {o}, !.nextIndex = @ + 1]
  <1>2. /\ pc[p] = "errors" /\ pc' = pc /\ mem[p] \in MemSet /\ ProcessInv(p)
        /\ UNCHANGED <<report, runs, torn, spoilt, raced>> /\ mem[p].nextIndex \in Nat
    BY DEF UpdateError, MemInv, DispatchType, MemSet
  <1>3. m \in MemSet /\ mem' = [mem EXCEPT ![p] = m]
    <2>1. m \in MemSet
      <3>1. mem[p].errors \ {o} \in SUBSET Order /\ mem[p].nextIndex + 1 \in Nat
        BY <1>2 DEF MemSet
      <3> QED
        BY <1>2, <3>1 DEF MemSet
    <2>2. mem' = [mem EXCEPT ![p] = m]
      BY <1>1, <1>2 DEF MemSet, MemInv, DispatchType
    <2> QED
      BY <2>1, <2>2
  <1>4. m.count = mem[p].count /\ m.cities = mem[p].cities /\ m.route = mem[p].route
        /\ m.leg = mem[p].leg /\ m.pending = mem[p].pending
        /\ m.errors = mem[p].errors \ {o} /\ m.nextIndex = mem[p].nextIndex + 1
    BY <1>2 DEF MemSet
  <1> HIDE DEF m
  <1>5. mem' \in [Process -> MemSet] /\ mem'[p] = m /\ \A q \in Process \ {p} : mem'[q] = mem[q]
    BY <1>3 DEF MemInv, DispatchType
  <1>6. \A r \in alloc : /\ new(r) \in RowSet
                         /\ new(r).order = r.order /\ new(r).vehicle = r.vehicle
                         /\ new(r).location = r.location /\ new(r).error = r.error
                         /\ ~r.error \/ r.order # o => new(r) = r
                         /\ r.error /\ r.order = o => new(r).index = mem[p].nextIndex
    BY <1>2 DEF MemInv, DispatchType, RowSet, Renumber
  <1>7. alloc' = {new(r) : r \in alloc}
    BY <1>1 DEF Renumber
  <1> HIDE DEF new
  <1>8. DispatchType'
    BY <1>2, <1>5, <1>6, <1>7 DEF MemInv, DispatchType
  <1>9. \A v : RouteRows(v)' = RouteRows(v)
    <2> SUFFICES ASSUME NEW u PROVE RouteRows(u)' = RouteRows(u)
      OBVIOUS
    <2>1. RouteRows(u) = {r \in alloc : r.vehicle = u /\ ~r.error}
      BY DEF RouteRows, Rows
    <2>2. RouteRows(u)' = {r \in alloc' : r.vehicle = u /\ ~r.error}
      BY DEF RouteRows, Rows
    <2>3. \A x : x \in alloc' /\ x.vehicle = u /\ ~x.error <=> x \in alloc /\ x.vehicle = u /\ ~x.error
      BY <1>6, <1>7
    <2> QED
      BY <2>1, <2>2, <2>3
  <1>10. RowsTrue'
    BY <1>6, <1>7, SameData DEF MemInv, RowsTrue
  <1>11. OwnOrders(p)'
    BY <1>2, <1>4, <1>5, SameData DEF ProcessInv, OwnOrders, OneEach
  <1>12. InOrder(p)'
    BY <1>2, <1>4, <1>5 DEF ProcessInv, InOrder, HasRoute, Rewriting
  <1>13. MemInv'
    BY <1>2, <1>5, <1>8, <1>10, <1>11, <1>12, MemKept DEF ProcessInv
  <1> QED
    BY <1>2, <1>4, <1>5, <1>6, <1>7, <1>9, <1>13 DEF new

\* The INSERT of the row for order o.
Enters(p, o, row) ==
    /\ row = Row(p, o) /\ alloc' = alloc \cup {row}
    /\ row.order = o /\ row.vehicle = VehicleOf[p] /\ ~row.error
    /\ row.index = mem[p].leg /\ row.from = Origin(p) /\ row.by = p
    /\ o \in Reach(VehicleOf[p])
    /\ mem'[p].pending = mem[p].pending \ {o}
    /\ \/ mem[p].pending = {o} /\ pc'[p] = "leg" /\ mem'[p].leg = mem[p].leg + 1
       \/ mem[p].pending # {o} /\ pc'[p] = "row" /\ mem'[p].leg = mem[p].leg
    /\ RouteRows(VehicleOf[p])' = RouteRows(VehicleOf[p]) \cup {row}

LEMMA InsertRowMem ==
    ASSUME MemInv, NEW p \in Process, InsertRow(p)
    PROVE  /\ MemInv' /\ pc[p] = "row"
           /\ mem[p].leg \in Nat /\ mem[p].leg < Len(mem[p].route)
           /\ Origin(p) \in Order /\ Destination(p) \in Order
           /\ mem[p].pending \subseteq Deliveries(p)
           /\ UNCHANGED <<report, runs, torn, spoilt, raced>>
           /\ \A q \in Process \ {p} : pc'[q] = pc[q] /\ mem'[q] = mem[q]
           /\ mem'[p].route = mem[p].route /\ mem'[p].errors = mem[p].errors
           /\ \E o \in mem[p].pending, row \in RowSet : Enters(p, o, row)
           /\ \A v : v # VehicleOf[p] => RouteRows(v)' = RouteRows(v)
           /\ \A v : ErrorRows(v)' = ErrorRows(v)
  <1> DEFINE v == VehicleOf[p]
             leg == mem[p].leg
             last(o) == mem[p].pending = {o}
             after(o) == IF last(o) THEN [mem[p] EXCEPT !.pending = {}, !.leg = @ + 1]
                                    ELSE [mem[p] EXCEPT !.pending = @ \ {o}]
  <1>1. PICK o \in mem[p].pending :
            /\ alloc' = alloc \cup {Row(p, o)}
            /\ IF last(o)
               THEN /\ mem' = [mem EXCEPT ![p].pending = {}, ![p].leg = @ + 1]
                    /\ Goto(p, "leg")
               ELSE /\ mem' = [mem EXCEPT ![p].pending = @ \ {o}]
                    /\ UNCHANGED pc
    BY DEF InsertRow
  <1> DEFINE m == after(o)
             row == Row(p, o)
             place == IF last(o) THEN "leg" ELSE "row"
  <1>2. /\ pc[p] = "row" /\ mem[p] \in MemSet /\ ProcessInv(p)
        /\ UNCHANGED <<report, runs, torn, spoilt, raced>>
    BY DEF InsertRow, MemInv, DispatchType
  <1>3. /\ leg \in Nat /\ leg < Len(mem[p].route) /\ Len(mem[p].route) \in Nat
        /\ Origin(p) \in Order /\ Destination(p) \in Order /\ mem[p].pending \subseteq Deliveries(p)
    BY <1>2, RouteLegs DEF ProcessInv, InOrder
  <1>4. mem' = [mem EXCEPT ![p] = m] /\ pc' = [pc EXCEPT ![p] = place]
    BY <1>1, <1>2 DEF MemSet, MemInv, DispatchType, Goto
  <1>5. m \in MemSet /\ m.count = mem[p].count /\ m.cities = mem[p].cities /\ m.route = mem[p].route
        /\ m.pending = mem[p].pending \ {o} /\ (m.leg = IF last(o) THEN leg + 1 ELSE leg)
        /\ m.errors = mem[p].errors
    <2>0. {} \in SUBSET Order /\ mem[p].pending \ {o} \in SUBSET Order /\ leg + 1 \in Nat
      BY <1>2, <1>3 DEF MemSet
    <2>1. CASE last(o)
      <3>1. mem[p].pending \ {o} = {}
        BY <2>1
      <3> QED
        BY <1>2, <2>0, <2>1, <3>1 DEF MemSet
    <2>2. CASE ~last(o)
      BY <1>2, <2>0, <2>2 DEF MemSet
    <2> QED
      BY <2>1, <2>2
  <1> HIDE DEF m
  <1>6. /\ mem' \in [Process -> MemSet] /\ pc' \in [Process -> Places]
        /\ mem'[p] = m /\ pc'[p] = place
        /\ \A q \in Process \ {p} : pc'[q] = pc[q] /\ mem'[q] = mem[q]
    BY <1>4, <1>5 DEF MemInv, DispatchType, Places
  <1>7. o \in Reach(v) /\ o \in Order /\ OrderLocation[o] = LocationOf[p]
    BY <1>2, ReachOne DEF ProcessInv, OwnOrders
  <1>8. row.order = o /\ row.vehicle = v /\ row.location = LocationOf[p] /\ row.error = FALSE
        /\ row.index = leg /\ row.from = Origin(p) /\ row.by = p
    BY DEF Row, RowIndex
  <1>9. row \in RowSet
    <2>1. LocationOf[p] \in Location
      BY DEF Location
    <2> QED
      BY <1>2, <1>3, <1>7, <2>1, AllocationAssumption DEF Row, RowIndex, RowSet
  <1>10. alloc' = alloc \cup {row}
    BY <1>1
  <1> HIDE DEF row, place
  <1>11. DispatchType'
    BY <1>2, <1>6, <1>9, <1>10 DEF MemInv, DispatchType
  <1>12. RowsTrue'
    BY <1>7, <1>8, <1>10, SameData DEF MemInv, RowsTrue
  <1>13. OwnOrders(p)'
    BY <1>2, <1>5, <1>6, SameData DEF ProcessInv, OwnOrders, OneEach
  <1>14. InOrder(p)'
    <2>1. CASE last(o)
      BY <1>2, <1>3, <1>5, <1>6, <2>1 DEF ProcessInv, InOrder, HasRoute, Rewriting, place
    <2>2. CASE ~last(o)
      <3>1. Deliveries(p)' = Deliveries(p) /\ Origin(p)' = Origin(p) /\ Destination(p)' = Destination(p)
        BY <1>5, <1>6, <2>2, SameLeg
      <3> QED
        BY <1>2, <1>3, <1>5, <1>6, <2>2, <3>1 DEF ProcessInv, InOrder, HasRoute, Rewriting, place
    <2> QED
      BY <2>1, <2>2
  <1>15. MemInv'
    BY <1>2, <1>6, <1>11, <1>12, <1>13, <1>14, MemKept DEF ProcessInv
  <1>16. RouteRows(v)' = RouteRows(v) \cup {row}
    BY <1>8, <1>10 DEF RouteRows, Rows
  <1>17. \A u : u # v => RouteRows(u)' = RouteRows(u)
    BY <1>8, <1>10 DEF RouteRows, Rows
  <1>18. \A u : ErrorRows(u)' = ErrorRows(u)
    BY <1>8, <1>10 DEF ErrorRows
  <1>19. \/ mem[p].pending = {o} /\ pc'[p] = "leg" /\ mem'[p].leg = mem[p].leg + 1
         \/ mem[p].pending # {o} /\ pc'[p] = "row" /\ mem'[p].leg = mem[p].leg
    BY <1>5, <1>6 DEF place
  <1>20. Enters(p, o, row)
    BY <1>5, <1>6, <1>7, <1>8, <1>10, <1>16, <1>19 DEF row, Enters
  <1> QED
    BY <1>2, <1>3, <1>5, <1>6, <1>9, <1>15, <1>17, <1>18, <1>20

LEMMA MemInit == Init => MemInv
  <1> SUFFICES ASSUME Init PROVE MemInv
    OBVIOUS
  <1>1. \A o \in Order : AllocationRow(o) \in RowSet
    BY AllocationAssumption, OrderAssumption DEF AllocationRow, RowSet, Location
  <1>2. Fresh \in MemSet
    BY DEF Fresh, MemSet
  <1>3. DispatchType
    BY <1>1, <1>2, MaxRunsAssumption DEF Init, DispatchType, Places, Results
  <1>4. RowsTrue
    <2> SUFFICES ASSUME NEW o \in Order, NEW r, r = AllocationRow(o)
                 PROVE  /\ r.error => r.order \in ErrorsOf(r.vehicle)
                        /\ ~r.error => r.order \in Reach(r.vehicle) /\ r.location = OrderLocation[r.order]
      BY DEF Init, RowsTrue
    <2>1. r.order = o /\ r.vehicle = AllocatedTo[o] /\ r.location = OrderLocation[o]
      BY DEF AllocationRow
    <2>2. r.error <=> o \in ErrorOrder
      BY DEF AllocationRow
    <2> QED
      BY <2>1, <2>2 DEF Reach, Owed, ErrorsOf
  <1>5. 0 <= Cardinality(Order)
    BY FS_CardinalityType, OrderAssumption
  <1>6. \A p \in Process : mem[p] = Fresh /\ pc[p] = "off"
    BY DEF Init
  <1>7. ASSUME NEW p \in Process PROVE OwnOrders(p) /\ InOrder(p)
    BY <1>5, <1>6 DEF OwnOrders, InOrder, OneEach, HasRoute, Rewriting, Fresh
  <1> QED
    BY <1>3, <1>4, <1>7 DEF MemInv, ProcessInv

LEMMA MemStutter ==
    ASSUME MemInv, UNCHANGED vars
    PROVE  MemInv'
  <1>1. DispatchType' /\ RowsTrue'
    BY SameData DEF MemInv, DispatchType, RowsTrue, vars
  <1>2. \A p \in Process : ProcessInv(p)'
    BY MemoryIsOwn DEF MemInv, vars
  <1> QED
    BY <1>1, <1>2 DEF MemInv

\* All ways in which a process can be gone.
Ends(p) ==
    /\ pc[p] # "off" /\ UNCHANGED <<alloc, runs, raced>>
    /\ \E result \in Results : End(p, result)

LEMMA EveryEnd ==
    ASSUME NEW p \in Process,
           \/ LoadOverflows(p) \/ SearchCrashes(p) \/ ConnectFails(p) \/ LegUnknown(p)
           \/ Finish(p) \/ WriteFails(p) \/ Crash(p)
    PROVE  Ends(p)
  <1>1. {"none", "complete", "error"} \subseteq Results
    BY DEF Results
  <1> QED
    BY <1>1 DEF LoadOverflows, SearchCrashes, ConnectFails, LegUnknown, Finish, WriteFails, Crash, Ends

\* The steps of a process, gathered by what they change.
LEMMA StepCases ==
    ASSUME NEW p \in Process, Run(p) \/ Step(p) \/ Fault(p)
    PROVE  \/ Run(p) \/ Ends(p) \/ Passes(p) \/ CountOrders(p) \/ LoadOrders(p) \/ Search(p)
           \/ DeleteRows(p) \/ StartLeg(p) \/ InsertRow(p) \/ SelectErrors(p) \/ UpdateError(p)
  BY EveryEnd DEF Step, Fault, Passes

LEMMA MemStep == MemInv /\ [Next]_vars => MemInv'
  <1> SUFFICES ASSUME MemInv, [Next]_vars PROVE MemInv'
    OBVIOUS
  <1>1. CASE UNCHANGED vars
    BY <1>1, MemStutter
  <1>2. ASSUME NEW p \in Process, Run(p) \/ Step(p) \/ Fault(p) PROVE MemInv'
    <2>1. CASE Ends(p)
      BY <2>1, EndMem DEF Ends
    <2>2. CASE LoadOrders(p)
      <3>1. PICK s \in Listing(p) : mem' = [mem EXCEPT ![p].cities = Loaded(p, s)]
        BY <2>2 DEF LoadOrders, Loaded
      <3> QED
        BY <2>2, <3>1, LoadOrdersMem
    <2> QED
      BY <1>2, <2>1, <2>2, StepCases, RunMem, PassesMem, CountOrdersMem, SearchMem, DeleteRowsMem,
         StartLegMem, InsertRowMem, SelectErrorsMem, UpdateErrorMem
  <1> QED
    BY <1>1, <1>2 DEF Next

LEMMA MemAlways == Spec => []MemInv
  BY MemInit, MemStep, PTL DEF Spec

\* The types of the table and of the memory of every process.
THEOREM DispatchTypes == Spec => []TypeOK
  <1>1. MemInv => TypeOK
    <2> SUFFICES ASSUME MemInv PROVE TypeOK
      OBVIOUS
    <2>1. \A r \in alloc :
            /\ r.order \in Order /\ r.vehicle \in Vehicle /\ r.error \in BOOLEAN
            /\ r.index \in Nat /\ r.from \in Order \cup {None} /\ r.by \in Process \cup {None}
      BY DEF MemInv, DispatchType, RowSet
    <2>2. ASSUME NEW p \in Process
          PROVE  /\ mem[p].count \in 0 .. Cardinality(Order)
                 /\ Len(mem[p].cities) \in {0, mem[p].count} /\ Len(mem[p].route) \in {0, mem[p].count}
                 /\ mem[p].leg \in 0 .. Len(mem[p].route)
                 /\ mem[p].pending \subseteq Order /\ mem[p].errors \subseteq ErrorOrder
      <3>1. mem[p] \in MemSet /\ ProcessInv(p) /\ Cardinality(Order) \in Nat
        BY FS_CardinalityType, OrderAssumption DEF MemInv, DispatchType
      <3>2. mem[p].count \in 0 .. Cardinality(Order)
        BY <3>1 DEF ProcessInv, InOrder, MemSet
      <3>3. Len(mem[p].cities) \in {0, mem[p].count}
        BY <3>1 DEF ProcessInv, InOrder
      <3>4. Len(mem[p].route) \in {0, mem[p].count} /\ mem[p].leg \in 0 .. Len(mem[p].route)
        BY RouteLegs, <3>1 DEF ProcessInv, InOrder
      <3>5. mem[p].pending \subseteq Order /\ mem[p].errors \subseteq ErrorOrder
        BY <3>1 DEF ProcessInv, OwnOrders, MemSet, ErrorsOf
      <3> QED
        BY <3>2, <3>3, <3>4, <3>5
    <2> QED
      BY <2>1, <2>2 DEF TypeOK, MemInv, DispatchType, Places, Results
  <1> QED
    BY <1>1, MemAlways, PTL

-----------------------------------------------------------------------------
(***************************************************************************)
(* No delivery is lost.  What a process has read, and what it has still to *)
(* enter, covers the deliveries of its vehicle, as long as it has not read *)
(* while another was writing and the vehicle is not spoilt.                *)
(***************************************************************************)
Covers(p, s) ==
    /\ s # <<>> /\ GroupOf[s[1]] = None
    /\ \A o \in Owed(VehicleOf[p]) : \E i \in DOMAIN s : s[i] # None /\ Goes(s[i], o)

Clean(p) == p \notin torn /\ VehicleOf[p] \notin spoilt

Loading(p) ==
    pc[p] = "orders" /\ Clean(p) =>
        ~BeingWritten(VehicleOf[p]) /\ mem[p].count = Cardinality(Sites(p))

Wholly(p) ==
    Clean(p) =>
        /\ pc[p] \in {"matrix", "search"} /\ mem[p].cities # <<>> => Covers(p, mem[p].cities)
        /\ HasRoute(p) => Covers(p, mem[p].route)

Untorn(p) == Writing(p) /\ VehicleOf[p] \notin spoilt => p \notin torn

\* The first of the legs of which nothing has been entered, from 1.
Ahead(p) == IF pc[p] = "row" THEN mem[p].leg + 2 ELSE mem[p].leg + 1
ToEnter(p) ==
    (IF pc[p] = "row" THEN mem[p].pending ELSE {}) \cup
    {o \in Order : \E i \in DOMAIN mem[p].route :
                        i >= Ahead(p) /\ Dest(p, i) # None /\ Goes(Dest(p, i), o)}

\* The deliveries are in the table or in the memory of one of those who write.
Owing(v) ==
    \/ v \in spoilt
    \/ Owed(v) \subseteq Served(v)
    \/ \E w \in Process : VehicleOf[w] = v /\ Writing(w) /\ Owed(v) \subseteq Served(v) \cup ToEnter(w)

ProcessKeeps(p) == Loading(p) /\ Wholly(p) /\ Untorn(p)
KeepInv == (\A p \in Process : ProcessKeeps(p)) /\ \A v \in Vehicle : Owing(v)

\* A query that finds all deliveries of the vehicle returns a list that covers
\* them, with the depot at its head.
LEMMA ListingCovers ==
    ASSUME MemInv, NEW p \in Process, Owed(VehicleOf[p]) \subseteq Served(VehicleOf[p]),
           NEW s \in Listing(p), s # <<>>
    PROVE  Covers(p, s)
  <1> DEFINE v == VehicleOf[p]
  <1>1. /\ s \in Seq(Order) /\ DOMAIN s = 1 .. Len(s) /\ Len(s) \in Nat
        /\ \A i \in DOMAIN s : s[i] \in Reach(v)
    BY ListingOnce
  <1>2. OrdersFor(p) = Served(v)
    BY OrdersAreOwn
  <1>3. 1 \in DOMAIN s
    BY <1>1
  <1>4. ASSUME NEW o \in Owed(v) PROVE \E i \in DOMAIN s : s[i] # None /\ Goes(s[i], o)
    <2>1. SiteOf[o] \in Sites(p)
      BY <1>2, <1>4 DEF Sites
    <2>2. PICK i \in DOMAIN s : SiteOf[s[i]] = SiteOf[o]
      BY <2>1 DEF Listing
    <2>3. s[i] \in Order /\ AllocatedTo[s[i]] = v
      BY <1>1, ReachOne
    <2>4. o = s[i] \/ SameGroup(o, s[i])
      BY <2>2, <2>3, DataAssumption DEF Owed
    <2>5. Goes(s[i], o)
      BY <2>4 DEF Goes, SameGroup
    <2> QED
      BY <2>3, <2>5, NoneAssumption
  <1>5. Owed(v) # {} /\ Owed(v) \subseteq Nat
    <2>1. s[1] \in Reach(v)
      BY <1>1, <1>3
    <2> QED
      BY <2>1, OrderAssumption DEF Reach, Dragged, Owed
  <1>6. PICK d \in Owed(v) : \A o \in Owed(v) : d <= o
    BY <1>5, Least
  <1>7. /\ d \in Order \ ErrorOrder /\ GroupOf[d] = None
        /\ \A q \in Order : AllocatedTo[q] = v /\ GroupOf[q] # None => d < q
    <2>1. d \in Order \ ErrorOrder /\ AllocatedTo[d] = v
      BY DEF Owed
    <2>2. \A q \in Order \ ErrorOrder : AllocatedTo[q] = AllocatedTo[d] => d <= q
      BY <1>6, <2>1 DEF Owed
    <2> QED
      BY <2>1, <2>2, DataAssumption
  <1>8. PICK i \in DOMAIN s : Goes(s[i], d)
    BY <1>4
  <1>9. s[i] = d
    BY <1>7, <1>8 DEF Goes, SameGroup
  <1>10. GroupOf[s[1]] = None
    <2>1. CASE i = 1
      BY <1>7, <1>9, <2>1
    <2>2. CASE i # 1
      <3>1. s[1] < s[i]
        <4>1. \A j, k \in DOMAIN s : j < k => s[j] < s[k]
          BY DEF Listing
        <4>2. 1 < i
          BY <1>1, <2>2
        <4> QED
          BY <1>3, <4>1, <4>2
      <3>2. s[1] \in Order /\ AllocatedTo[s[1]] = v
        BY <1>1, <1>3, ReachOne
      <3>3. s[1] \in Nat /\ d \in Nat
        BY <3>2, <1>7, OrderAssumption
      <3> QED
        BY <1>7, <1>9, <3>1, <3>2, <3>3
    <2> QED
      BY <2>1, <2>2
  <1> QED
    BY <1>4, <1>10 DEF Covers

\* What a process knows to be entered depends on its own place and memory.
LEMMA SameToEnter ==
    ASSUME NEW q, pc'[q] = pc[q], mem'[q] = mem[q]
    PROVE  ToEnter(q)' = ToEnter(q) /\ Writing(q)' = Writing(q) /\ HasRoute(q)' = HasRoute(q)
  BY DEF ToEnter, Dest, Ahead, Writing, HasRoute

LEMMA SameCovers ==
    ASSUME NEW p, NEW s
    PROVE  Covers(p, s) <=> /\ s # <<>> /\ GroupOf[s[1]] = None
                            /\ \A o \in Owed(VehicleOf[p])' : \E i \in DOMAIN s : s[i] # None /\ Goes(s[i], o)
  BY SameData DEF Covers

\* A step of p that is not the DELETE: rows may be added by who is writing.
Adds(p) ==
    /\ \A q \in Process \ {p} : pc'[q] = pc[q] /\ mem'[q] = mem[q]
    /\ Writing(p)' => Writing(p)
    /\ \A v : /\ RouteRows(v) \subseteq RouteRows(v)'
              /\ RouteRows(v)' = RouteRows(v) \/ (v = VehicleOf[p] /\ Writing(p))
    /\ torn \ {p} \subseteq torn' /\ torn' \subseteq torn \cup {p}
    /\ spoilt \subseteq spoilt'
    /\ Writing(p) /\ VehicleOf[p] \notin spoilt' =>
            ToEnter(p) \subseteq Served(VehicleOf[p])' \cup (IF Writing(p)' THEN ToEnter(p)' ELSE {})

LEMMA ServedGrows ==
    ASSUME NEW v
    PROVE  /\ RouteRows(v) \subseteq RouteRows(v)' => Served(v) \subseteq Served(v)'
           /\ RouteRows(v) = RouteRows(v)' => Served(v) = Served(v)'
  BY DEF Served

LEMMA AddsOthers ==
    ASSUME MemInv, MemInv', NEW p \in Process, NEW q \in Process \ {p}, Adds(p), ProcessKeeps(q)
    PROVE  ProcessKeeps(q)'
  <1> DEFINE v == VehicleOf[q]
  <1>1. /\ pc'[q] = pc[q] /\ mem'[q] = mem[q] /\ (Clean(q)' => Clean(q))
        /\ (q \in torn' => q \in torn)
    BY DEF Adds, Clean
  <1>2. Writing(q)' = Writing(q) /\ HasRoute(q)' = HasRoute(q)
    BY <1>1, SameToEnter
  <1>3. Untorn(q)'
    BY <1>1, <1>2 DEF Untorn, ProcessKeeps, Adds
  <1>4. Wholly(q)'
    BY <1>1, <1>2, SameData DEF Wholly, ProcessKeeps, Covers
  <1>5. Loading(q)'
    <2> SUFFICES ASSUME pc[q] = "orders", Clean(q)
                 PROVE  ~BeingWritten(v)' /\ mem[q].count = Cardinality(Sites(q)')
      BY <1>1 DEF Loading
    <2>1. ~BeingWritten(v) /\ mem[q].count = Cardinality(Sites(q))
      BY DEF ProcessKeeps, Loading
    <2>2. ~BeingWritten(v)'
      BY <2>1, SameToEnter DEF BeingWritten, Adds
    <2>3. RouteRows(v)' = RouteRows(v)
      BY <2>1 DEF Adds, BeingWritten
    <2>4. Served(v)' = Served(v)
      BY <2>3, ServedGrows
    <2>5. OrdersFor(q)' = OrdersFor(q)
      <3>1. OrdersFor(q) = Served(v)
        BY OrdersAreOwn
      <3>2. \A r \in RouteRows(v)' : r.order \in Reach(v) /\ r.location = LocationOf[q]
        BY SameData, ReachOne DEF MemInv, RowsTrue, RouteRows, Rows
      <3>3. OrdersFor(q)' = Served(v)'
        BY <3>2 DEF OrdersFor, Served, RouteRows, Rows
      <3> QED
        BY <2>4, <3>1, <3>3
    <2> QED
      BY <2>1, <2>2, <2>5 DEF Sites
  <1> QED
    BY <1>3, <1>4, <1>5 DEF ProcessKeeps

LEMMA AddsKeeps ==
    ASSUME MemInv, MemInv', KeepInv, NEW p \in Process, Adds(p), ProcessKeeps(p)'
    PROVE  KeepInv'
  <1>1. \A q \in Process : ProcessKeeps(q)'
    BY AddsOthers DEF KeepInv
  <1>2. ASSUME NEW v \in Vehicle PROVE Owing(v)'
    <2>1. Served(v) \subseteq Served(v)' /\ Owed(v)' = Owed(v)
      BY ServedGrows, SameData DEF Adds
    <2>2. CASE v \in spoilt \/ Owed(v) \subseteq Served(v)
      BY <2>1, <2>2 DEF Owing, Adds
    <2>3. ASSUME NEW w \in Process, VehicleOf[w] = v, Writing(w), Owed(v) \subseteq Served(v) \cup ToEnter(w)
          PROVE  Owing(v)'
      <3>1. CASE w # p
        <4>1. Writing(w)' /\ ToEnter(w)' = ToEnter(w)
          BY <2>3, <3>1, SameToEnter DEF Adds
        <4> QED
          BY <2>1, <2>3, <4>1 DEF Owing
      <3>2. CASE w = p /\ v \notin spoilt'
        <4>1. ToEnter(p) \subseteq Served(v)' \cup (IF Writing(p)' THEN ToEnter(p)' ELSE {})
          BY <2>3, <3>2 DEF Adds
        <4> QED
          BY <2>1, <2>3, <3>2, <4>1 DEF Owing
      <3> QED
        BY <3>1, <3>2 DEF Owing
    <2> QED
      BY <2>2, <2>3 DEF Owing, KeepInv
  <1> QED
    BY <1>1, <1>2 DEF KeepInv

\* A step that leaves the table alone and after which p is not writing: it was
\* not writing before either, or the vehicle is spoilt.
LEMMA QuietKeeps ==
    ASSUME MemInv, MemInv', KeepInv, NEW p \in Process, alloc' = alloc,
           \A q \in Process \ {p} : pc'[q] = pc[q] /\ mem'[q] = mem[q],
           torn \ {p} \subseteq torn', torn' \subseteq torn \cup {p}, spoilt \subseteq spoilt',
           Writing(p) => VehicleOf[p] \in spoilt', ~Writing(p)', Loading(p)', Wholly(p)'
    PROVE  KeepInv'
  <1>1. \A v : RouteRows(v)' = RouteRows(v)
    BY DEF RouteRows, Rows
  <1>2. Adds(p)
    BY <1>1 DEF Adds
  <1>3. ProcessKeeps(p)'
    BY DEF ProcessKeeps, Untorn
  <1> QED
    BY <1>2, <1>3, AddsKeeps

LEMMA RunKeeps ==
    ASSUME MemInv, MemInv', KeepInv, NEW p \in Process, Run(p)
    PROVE  KeepInv'
  <1>1. /\ pc[p] = "off" /\ pc'[p] = "count" /\ UNCHANGED <<alloc, mem, torn, spoilt>>
        /\ \A q \in Process \ {p} : pc'[q] = pc[q]
    BY DEF Run, Goto, MemInv, DispatchType
  <1>2. ~Writing(p) /\ ~Writing(p)' /\ Loading(p)' /\ Wholly(p)'
    BY <1>1 DEF Writing, Loading, Wholly, HasRoute
  <1> QED
    BY <1>1, <1>2, QuietKeeps

LEMMA EndKeeps ==
    ASSUME MemInv, MemInv', KeepInv, NEW p \in Process, Ends(p)
    PROVE  /\ KeepInv' /\ alloc' = alloc /\ pc'[p] = "off"
           /\ spoilt' = IF Writing(p) THEN spoilt \cup {VehicleOf[p]} ELSE spoilt
           /\ raced' = raced /\ \A q \in Process \ {p} : pc'[q] = pc[q] /\ mem'[q] = mem[q]
  <1>1. /\ pc'[p] = "off" /\ alloc' = alloc /\ torn' = torn \ {p} /\ raced' = raced
        /\ spoilt' = (IF Writing(p) THEN spoilt \cup {VehicleOf[p]} ELSE spoilt)
        /\ \A q \in Process \ {p} : pc'[q] = pc[q] /\ mem'[q] = mem[q]
    BY DEF Ends, End, Goto, MemInv, DispatchType
  <1>2. ~Writing(p)' /\ Loading(p)' /\ Wholly(p)'
    BY <1>1 DEF Writing, Loading, Wholly, HasRoute
  <1>3. KeepInv'
    BY <1>1, <1>2, QuietKeeps
  <1> QED
    BY <1>1, <1>3

LEMMA PassesKeeps ==
    ASSUME MemInv, MemInv', KeepInv, NEW p \in Process, Passes(p)
    PROVE  KeepInv'
  <1>1. /\ ~Writing(p)
        /\ pc'[p] \in {"search", "poll", "delete"}
        /\ pc'[p] = "search" => pc[p] = "matrix" \/ mem[p].cities = <<>>
        /\ pc'[p] = "delete" => pc[p] = "connect"
        /\ mem'[p].cities = mem[p].cities /\ mem'[p].route = mem[p].route
        /\ UNCHANGED <<alloc, torn, spoilt>>
        /\ \A q \in Process \ {p} : pc'[q] = pc[q] /\ mem'[q] = mem[q]
    BY PassesMem
  <1>2. ~Writing(p)' /\ Loading(p)'
    BY <1>1 DEF Writing, Loading
  <1>3. Wholly(p)'
    <2> SUFFICES ASSUME Clean(p)
                 PROVE  /\ pc'[p] \in {"matrix", "search"} /\ mem[p].cities # <<>> => Covers(p, mem[p].cities)
                        /\ HasRoute(p)' => Covers(p, mem[p].route)
      BY <1>1, SameData DEF Wholly, Clean, Covers
    <2>1. Wholly(p)
      BY DEF KeepInv, ProcessKeeps
    <2> QED
      BY <1>1, <2>1 DEF Wholly, HasRoute
  <1> QED
    BY <1>1, <1>2, <1>3, QuietKeeps

LEMMA CountOrdersKeeps ==
    ASSUME MemInv, MemInv', KeepInv, NEW p \in Process, CountOrders(p)
    PROVE  KeepInv'
  <1>1. /\ pc[p] = "count" /\ pc'[p] = "orders" /\ mem'[p].count = Cardinality(Sites(p))
        /\ UNCHANGED <<alloc, spoilt>>
        /\ torn' = (IF BeingWritten(VehicleOf[p]) THEN torn \cup {p} ELSE torn)
        /\ \A q \in Process \ {p} : pc'[q] = pc[q] /\ mem'[q] = mem[q]
    BY CountOrdersMem DEF CountOrders, Reads, Goto, MemInv, DispatchType
  <1>2. ~Writing(p) /\ ~Writing(p)' /\ Wholly(p)'
    BY <1>1 DEF Writing, Wholly, HasRoute
  <1>3. Loading(p)'
    <2>1. Clean(p)' => ~BeingWritten(VehicleOf[p])
      BY <1>1 DEF Clean
    <2>2. ASSUME NEW q \in Process PROVE Writing(q)' <=> Writing(q)
      <3>1. CASE q = p
        BY <1>2, <3>1
      <3>2. CASE q # p
        BY <1>1, <3>2 DEF Writing
      <3> QED
        BY <3>1, <3>2
    <2>3. BeingWritten(VehicleOf[p])' = BeingWritten(VehicleOf[p])
      BY <2>2 DEF BeingWritten
    <2>4. Sites(p)' = Sites(p)
      BY <1>1 DEF Sites, OrdersFor
    <2> QED
      BY <1>1, <2>1, <2>3, <2>4 DEF Loading
  <1>4. torn \ {p} \subseteq torn' /\ torn' \subseteq torn \cup {p}
    BY <1>1
  <1> QED
    BY <1>1, <1>2, <1>3, <1>4, QuietKeeps

LEMMA LoadOrdersKeeps ==
    ASSUME MemInv, MemInv', KeepInv, NEW p \in Process, LoadOrders(p)
    PROVE  KeepInv'
  <1> DEFINE v == VehicleOf[p]
  <1>0. PICK s \in Listing(p) : mem' = [mem EXCEPT ![p].cities = Loaded(p, s)]
    BY DEF LoadOrders, Loaded
  <1>1. /\ pc[p] = "orders" /\ pc'[p] = "matrix" /\ mem'[p].cities = Loaded(p, s)
        /\ Len(s) = mem[p].count => Loaded(p, s) = s
    BY <1>0, LoadOrdersMem DEF LoadOrders
  <1>2. /\ UNCHANGED <<alloc, spoilt>> /\ torn' = (IF BeingWritten(v) THEN torn \cup {p} ELSE torn)
        /\ \A q \in Process \ {p} : pc'[q] = pc[q] /\ mem'[q] = mem[q]
    BY DEF LoadOrders, Reads, Goto, MemInv, DispatchType
  <1>3. ~Writing(p) /\ ~Writing(p)' /\ Loading(p)'
    BY <1>1 DEF Writing, Loading
  <1>4. Wholly(p)'
    <2> SUFFICES ASSUME Clean(p)', mem'[p].cities # <<>> PROVE Covers(p, mem'[p].cities)
      BY <1>1, SameData DEF Wholly, Covers, HasRoute
    <2>1. ~BeingWritten(v) /\ Clean(p)
      BY <1>2 DEF Clean
    <2>2. mem[p].count = Cardinality(Sites(p))
      BY <1>1, <2>1 DEF KeepInv, ProcessKeeps, Loading
    <2>3. Len(s) = Cardinality(Sites(p))
      BY ListingOnce
    <2>4. mem'[p].cities = s
      BY <1>1, <2>2, <2>3
    <2>5. Owed(v) \subseteq Served(v)
      BY <2>1, AllocationAssumption DEF KeepInv, Owing, BeingWritten, Clean
    <2> QED
      BY <2>4, <2>5, ListingCovers
  <1>5. torn \ {p} \subseteq torn' /\ torn' \subseteq torn \cup {p}
    BY <1>2
  <1> QED
    BY <1>1, <1>2, <1>3, <1>4, <1>5, QuietKeeps

\* The tour visits all cities and still starts with the depot.
LEMMA SearchKeeps ==
    ASSUME MemInv, MemInv', KeepInv, NEW p \in Process, Search(p)
    PROVE  KeepInv'
  <1> DEFINE n == mem[p].count
             city == mem[p].cities
             route == mem'[p].route
  <1>1. /\ pc[p] = "search" /\ pc'[p] = "connect" /\ city # <<>> /\ UNCHANGED <<alloc, torn, spoilt>>
        /\ \A q \in Process \ {p} : pc'[q] = pc[q] /\ mem'[q] = mem[q]
    BY DEF Search, Searchable, Local, Goto, MemInv, DispatchType
  <1>2. PICK from :
            /\ \A i \in 1 .. n : from[i] \in 1 .. n
            /\ from[1] = 1 /\ n >= 1
            /\ DOMAIN city = 1 .. n /\ DOMAIN route = 1 .. n
            /\ \A i \in 1 .. n : route[i] = city[from[i]]
            /\ \A k \in 1 .. n : \E i \in 1 .. n : from[i] = k
    BY SearchMem
  <1>3. n \in Nat /\ route \in Seq(Order \cup {None})
    BY DEF MemInv, DispatchType, MemSet
  <1>4. ~Writing(p) /\ ~Writing(p)' /\ Loading(p)'
    BY <1>1 DEF Writing, Loading
  <1>5. Wholly(p)'
    <2> SUFFICES ASSUME Clean(p)' PROVE Covers(p, route)
      BY <1>1, SameData DEF Wholly, Covers
    <2>1. Covers(p, city)
      BY <1>1 DEF KeepInv, ProcessKeeps, Wholly, Clean
    <2>2. 1 \in 1 .. n
      BY <1>2, <1>3
    <2>3. route # <<>> /\ GroupOf[route[1]] = None
      <3>1. route[1] = city[1]
        BY <1>2, <2>2
      <3>2. route # <<>>
        <4>1. DOMAIN route # {}
          BY <1>2, <2>2
        <4> QED
          BY <1>3, <4>1
      <3> QED
        BY <2>1, <3>1, <3>2 DEF Covers
    <2>4. ASSUME NEW o \in Owed(VehicleOf[p]) PROVE \E i \in DOMAIN route : route[i] # None /\ Goes(route[i], o)
      <3>1. PICK k \in DOMAIN city : city[k] # None /\ Goes(city[k], o)
        BY <2>1 DEF Covers
      <3>2. PICK i \in 1 .. n : from[i] = k
        BY <1>2, <3>1
      <3> QED
        BY <1>2, <3>1, <3>2
    <2> QED
      BY <2>3, <2>4 DEF Covers
  <1> QED
    BY <1>1, <1>4, <1>5, QuietKeeps

LEMMA StartLegKeeps ==
    ASSUME MemInv, MemInv', KeepInv, NEW p \in Process, StartLeg(p)
    PROVE  KeepInv'
  <1> DEFINE v == VehicleOf[p]
             leg == mem[p].leg
             route == mem[p].route
  <1>1. /\ pc[p] = "leg" /\ pc'[p] = "row"
        /\ leg < Len(route) /\ Origin(p) \in Order /\ Destination(p) \in Order
        /\ mem'[p].route = route /\ mem'[p].leg = leg
        /\ mem'[p].pending = Deliveries(p) /\ UNCHANGED <<alloc, torn, spoilt>>
        /\ \A q \in Process \ {p} : pc'[q] = pc[q] /\ mem'[q] = mem[q]
    BY StartLegMem
  <1>2. /\ leg \in Nat /\ leg + 1 \in DOMAIN route /\ Destination(p) = Dest(p, leg + 1)
        /\ Destination(p) \in Reach(v) /\ (LastLeg(p) <=> leg + 1 = Len(route))
    BY <1>1, LegIs
  <1>3. Len(route) \in Nat /\ DOMAIN route = 1 .. Len(route)
    BY RouteLegs
  <1>4. Writing(p) /\ Writing(p)'
    BY <1>1 DEF Writing
  <1>5. ASSUME v \notin spoilt, NEW o \in ToEnter(p) PROVE o \in ToEnter(p)'
    <2>1. PICK i \in DOMAIN route : i >= leg + 1 /\ Dest(p, i) # None /\ Goes(Dest(p, i), o)
      BY <1>1, <1>5 DEF ToEnter, Ahead
    <2>2. o \in Order
      BY <1>1, <1>5 DEF ToEnter
    <2>3. CASE i = leg + 1
      <3>1. GroupOf[Destination(p)] = None \/ ~LastLeg(p)
        <4> SUFFICES ASSUME LastLeg(p) PROVE GroupOf[Destination(p)] = None
          OBVIOUS
        <4>1. Covers(p, route)
          BY <1>1, <1>4, <1>5 DEF KeepInv, ProcessKeeps, Untorn, Wholly, Clean, HasRoute
        <4>2. Destination(p) = route[1]
          BY DEF Destination
        <4> QED
          BY <4>1, <4>2 DEF Covers
      <3>2. o \in Deliveries(p)
        BY <1>2, <2>1, <2>2, <2>3, <3>1, DeliveriesGo
      <3> QED
        BY <1>1, <3>2 DEF ToEnter
    <2>4. CASE i # leg + 1
      <3>1. i >= leg + 2
        BY <1>2, <1>3, <2>1, <2>4
      <3>2. Dest(p, i)' = Dest(p, i)
        BY <1>1, SameLeg
      <3> QED
        BY <1>1, <2>1, <2>2, <3>1, <3>2 DEF ToEnter, Ahead
    <2> QED
      BY <2>3, <2>4
  <1>6. \A u : RouteRows(u)' = RouteRows(u)
    BY <1>1 DEF RouteRows, Rows
  <1>7. Adds(p)
    BY <1>1, <1>4, <1>5, <1>6 DEF Adds
  <1>8. Loading(p)' /\ Wholly(p)' /\ Untorn(p)'
    <2>1. Wholly(p) /\ Untorn(p)
      BY DEF KeepInv, ProcessKeeps
    <2>2. Loading(p)' /\ Untorn(p)'
      BY <1>1, <1>4, <2>1 DEF Loading, Untorn
    <2>3. Wholly(p)'
      BY <1>1, <2>1, SameData DEF Wholly, HasRoute, Clean, Covers
    <2> QED
      BY <2>2, <2>3
  <1> QED
    BY <1>7, <1>8, AddsKeeps DEF ProcessKeeps

LEMMA InsertRowKeeps ==
    ASSUME MemInv, MemInv', KeepInv, NEW p \in Process, InsertRow(p)
    PROVE  KeepInv'
  <1> DEFINE v == VehicleOf[p]
             leg == mem[p].leg
             route == mem[p].route
  <1>1. /\ pc[p] = "row" /\ leg \in Nat /\ mem'[p].route = route /\ UNCHANGED <<torn, spoilt>>
        /\ \A q \in Process \ {p} : pc'[q] = pc[q] /\ mem'[q] = mem[q]
        /\ \A u : u # v => RouteRows(u)' = RouteRows(u)
    BY InsertRowMem
  <1>2. PICK o \in mem[p].pending, row \in RowSet : Enters(p, o, row)
    BY InsertRowMem
  <1>3. Writing(p) /\ Writing(p)'
    BY <1>1, <1>2 DEF Writing, Enters
  <1>4. Ahead(p)' = Ahead(p) /\ \A i : Dest(p, i)' = Dest(p, i)
    BY <1>1, <1>2, SameLeg DEF Ahead, Enters
  <1>5. ToEnter(p) \subseteq ToEnter(p)' \cup {o}
    BY <1>1, <1>2, <1>4 DEF ToEnter, Enters
  <1>6. o \in Served(v)'
    BY <1>2 DEF Served, Enters
  <1>7. Adds(p)
    BY <1>1, <1>2, <1>3, <1>5, <1>6 DEF Adds, Enters
  <1>8. Loading(p)' /\ Wholly(p)' /\ Untorn(p)'
    <2>1. Wholly(p) /\ Untorn(p)
      BY DEF KeepInv, ProcessKeeps
    <2>2. Loading(p)' /\ Untorn(p)'
      BY <1>1, <1>2, <1>3, <2>1 DEF Loading, Untorn, Enters
    <2>3. Wholly(p)'
      BY <1>1, <1>2, <2>1, SameData DEF Wholly, HasRoute, Clean, Covers, Enters
    <2> QED
      BY <2>2, <2>3
  <1> QED
    BY <1>7, <1>8, AddsKeeps DEF ProcessKeeps

\* After the last leg nothing is left to enter.
LEMMA SelectErrorsKeeps ==
    ASSUME MemInv, MemInv', KeepInv, NEW p \in Process, SelectErrors(p)
    PROVE  KeepInv'
  <1> DEFINE v == VehicleOf[p]
  <1>1. /\ pc[p] = "leg" /\ pc'[p] = "errors" /\ mem[p].leg = Len(mem[p].route)
        /\ mem'[p].route = mem[p].route /\ UNCHANGED <<alloc, torn, spoilt>>
        /\ \A q \in Process \ {p} : pc'[q] = pc[q] /\ mem'[q] = mem[q]
    BY SelectErrorsMem
  <1>2. Writing(p) /\ ~Writing(p)'
    BY <1>1 DEF Writing
  <1>3. ToEnter(p) = {}
    BY <1>1, RouteLegs DEF ToEnter, Ahead
  <1>4. \A u : RouteRows(u)' = RouteRows(u)
    BY <1>1 DEF RouteRows, Rows
  <1>5. Adds(p)
    BY <1>1, <1>2, <1>3, <1>4 DEF Adds
  <1>6. Loading(p)' /\ Wholly(p)' /\ Untorn(p)'
    <2>1. Wholly(p)
      BY DEF KeepInv, ProcessKeeps
    <2>2. Loading(p)' /\ Untorn(p)'
      BY <1>1, <1>2 DEF Loading, Untorn
    <2>3. Wholly(p)'
      BY <1>1, <2>1, SameData DEF Wholly, HasRoute, Clean, Covers
    <2> QED
      BY <2>2, <2>3
  <1> QED
    BY <1>5, <1>6, AddsKeeps DEF ProcessKeeps

LEMMA UpdateErrorKeeps ==
    ASSUME MemInv, MemInv', KeepInv, NEW p \in Process, UpdateError(p)
    PROVE  KeepInv'
  <1>1. /\ pc[p] = "errors" /\ pc' = pc /\ UNCHANGED <<torn, spoilt>>
        /\ mem'[p].route = mem[p].route
        /\ \A q \in Process \ {p} : mem'[q] = mem[q]
        /\ \A u : RouteRows(u)' = RouteRows(u)
    BY UpdateErrorMem
  <1>2. ~Writing(p) /\ ~Writing(p)'
    BY <1>1 DEF Writing
  <1>3. Adds(p)
    BY <1>1, <1>2 DEF Adds
  <1>4. Loading(p)' /\ Wholly(p)' /\ Untorn(p)'
    <2>1. Wholly(p)
      BY DEF KeepInv, ProcessKeeps
    <2>2. Loading(p)' /\ Untorn(p)'
      BY <1>1, <1>2 DEF Loading, Untorn
    <2>3. Wholly(p)'
      BY <1>1, <2>1, SameData DEF Wholly, HasRoute, Clean, Covers
    <2> QED
      BY <2>2, <2>3
  <1> QED
    BY <1>3, <1>4, AddsKeeps DEF ProcessKeeps

\* What has been deleted is in the memory of the process, unless that has read
\* while another was writing, and then the vehicle is spoilt.
LEMMA DeleteRowsKeeps ==
    ASSUME MemInv, MemInv', KeepInv, NEW p \in Process, DeleteRows(p)
    PROVE  KeepInv'
  <1> DEFINE v == VehicleOf[p]
             route == mem[p].route
  <1>1. /\ pc[p] = "delete" /\ pc'[p] = "leg" /\ mem' = mem /\ mem[p].leg = 0
        /\ \A q \in Process \ {p} : pc'[q] = pc[q]
        /\ \A u : u # v => RouteRows(u)' = RouteRows(u)
    BY DeleteRowsMem
  <1>2. /\ spoilt' = (IF p \in torn THEN spoilt \cup {v} ELSE spoilt)
        /\ torn' = torn \cup {q \in Process : VehicleOf[q] = v /\ pc[q] = "orders"}
    BY DEF DeleteRows
  <1>3. Writing(p)' /\ ~Writing(p)
    BY <1>1 DEF Writing
  <1>4. /\ Len(route) \in Nat /\ DOMAIN route = 1 .. Len(route)
    BY RouteLegs
  <1>5. ASSUME NEW q \in Process PROVE ProcessKeeps(q)'
    <2>1. ProcessKeeps(q) /\ (Clean(q)' => Clean(q))
      BY <1>2 DEF KeepInv, Clean
    <2>2. Wholly(q)'
      <3>1. CASE q = p
        BY <1>1, <2>1, <3>1, SameData DEF ProcessKeeps, Wholly, HasRoute, Covers
      <3>2. CASE q # p
        BY <1>1, <2>1, <3>2, SameData DEF ProcessKeeps, Wholly, HasRoute, Covers
      <3> QED
        BY <3>1, <3>2
    <2>3. Untorn(q)'
      <3>1. CASE q = p
        BY <1>1, <1>2, <3>1 DEF Untorn
      <3>2. CASE q # p
        BY <1>1, <1>2, <2>1, <3>2 DEF ProcessKeeps, Untorn, Writing
      <3> QED
        BY <3>1, <3>2
    <2>4. Loading(q)'
      <3>1. CASE q = p
        BY <1>1, <3>1 DEF Loading
      <3>2. CASE q # p /\ VehicleOf[q] = v
        BY <1>1, <1>2, <3>2 DEF Loading, Clean
      <3>3. CASE q # p /\ VehicleOf[q] # v /\ pc[q] = "orders" /\ Clean(q)'
        <4>1. ~BeingWritten(VehicleOf[q]) /\ mem[q].count = Cardinality(Sites(q))
          BY <2>1, <3>3 DEF ProcessKeeps, Loading
        <4>2. ~BeingWritten(VehicleOf[q])'
          BY <1>1, <3>3, <4>1 DEF BeingWritten, Writing
        <4>3. OrdersFor(q)' = OrdersFor(q)
          BY <3>3 DEF OrdersFor, DeleteRows, Deleted
        <4> QED
          BY <1>1, <4>1, <4>2, <4>3 DEF Loading, Sites
      <3> QED
        BY <1>1, <3>1, <3>2, <3>3 DEF Loading
    <2> QED
      BY <2>2, <2>3, <2>4 DEF ProcessKeeps
  <1>6. ASSUME NEW u \in Vehicle PROVE Owing(u)'
    <2>1. Owing(u) /\ Owed(u)' = Owed(u)
      BY SameData DEF KeepInv
    <2>2. CASE u # v
      <3>1. Served(u)' = Served(u)
        BY <1>1, <2>2 DEF Served
      <3>2. \A w \in Process : VehicleOf[w] = u => Writing(w)' = Writing(w) /\ ToEnter(w)' = ToEnter(w)
        BY <1>1, <2>2, SameToEnter
      <3> QED
        BY <1>2, <2>1, <3>1, <3>2 DEF Owing
    <2>3. CASE u = v /\ p \in torn
      BY <1>2, <2>3 DEF Owing
    <2>4. CASE u = v /\ v \in spoilt
      BY <1>2, <2>4 DEF Owing
    <2>5. CASE u = v /\ p \notin torn /\ v \notin spoilt
      <3>1. Covers(p, route)
        BY <1>1, <2>5 DEF KeepInv, ProcessKeeps, Wholly, Clean, HasRoute
      <3>2. ASSUME NEW o \in Owed(v) PROVE o \in ToEnter(p)'
        <4>1. PICK k \in DOMAIN route : route[k] # None /\ Goes(route[k], o)
          BY <3>1 DEF Covers
        <4>2. PICK i \in DOMAIN route : i >= 1 /\ Dest(p, i) = route[k]
          <5>1. CASE k = 1
            <6>1. Len(route) \in DOMAIN route /\ Len(route) >= 1 /\ Dest(p, Len(route)) = route[k]
              BY <1>4, <5>1 DEF Dest
            <6> QED
              BY <6>1
          <5>2. CASE k # 1
            <6>1. k - 1 \in DOMAIN route /\ k - 1 >= 1 /\ Dest(p, k - 1) = route[k]
              BY <1>4, <5>2 DEF Dest
            <6> QED
              BY <6>1
          <5> QED
            BY <5>1, <5>2
        <4>3. o \in Order /\ Ahead(p)' = 1 /\ Dest(p, i)' = Dest(p, i)
          BY <1>1 DEF Owed, Ahead, Dest
        <4>4. i \in DOMAIN mem'[p].route /\ i >= Ahead(p)' /\ Dest(p, i)' # None /\ Goes(Dest(p, i)', o)
          BY <1>1, <4>1, <4>2, <4>3
        <4> QED
          BY <4>3, <4>4 DEF ToEnter, Goes
      <3> QED
        BY <1>3, <2>1, <2>5, <3>2 DEF Owing
    <2> QED
      BY <2>2, <2>3, <2>4, <2>5
  <1> QED
    BY <1>5, <1>6 DEF KeepInv

LEMMA KeepInit == Init => KeepInv
  <1> SUFFICES ASSUME Init PROVE KeepInv
    OBVIOUS
  <1>1. ASSUME NEW p \in Process PROVE ProcessKeeps(p)
    BY DEF Init, ProcessKeeps, Loading, Wholly, Untorn, Writing, HasRoute
  <1>2. ASSUME NEW v \in Vehicle, NEW o \in Owed(v) PROVE o \in Served(v)
    <2>1. AllocationRow(o) \in alloc
      BY DEF Init, Owed
    <2>2. /\ AllocationRow(o).order = o /\ AllocationRow(o).vehicle = v
          /\ AllocationRow(o).error <=> o \in ErrorOrder
      BY DEF AllocationRow, Owed
    <2>3. o \notin ErrorOrder
      BY DEF Owed
    <2> QED
      BY <2>1, <2>2, <2>3 DEF Served, RouteRows, Rows
  <1> QED
    BY <1>1, <1>2 DEF KeepInv, Owing

LEMMA KeepStep == MemInv /\ MemInv' /\ KeepInv /\ [Next]_vars => KeepInv'
  <1> SUFFICES ASSUME MemInv, MemInv', KeepInv, [Next]_vars PROVE KeepInv'
    OBVIOUS
  <1>1. CASE UNCHANGED vars
    <2>1. \A q \in Process : Writing(q)' = Writing(q) /\ ToEnter(q)' = ToEnter(q)
      BY <1>1, SameToEnter DEF vars
    <2>2. ASSUME NEW q \in Process PROVE ProcessKeeps(q)'
      <3>1. ProcessKeeps(q) /\ Sites(q)' = Sites(q) /\ HasRoute(q)' = HasRoute(q)
            /\ Clean(q)' = Clean(q) /\ BeingWritten(VehicleOf[q])' = BeingWritten(VehicleOf[q])
        BY <1>1, <2>1 DEF KeepInv, vars, Sites, OrdersFor, HasRoute, Clean, BeingWritten
      <3> QED
        BY <1>1, <2>1, <3>1, SameData DEF vars, ProcessKeeps, Loading, Wholly, Untorn, Covers
    <2>3. ASSUME NEW v \in Vehicle PROVE Owing(v)'
      <3>1. Served(v)' = Served(v) /\ Owing(v)
        BY <1>1 DEF vars, Served, RouteRows, Rows, KeepInv
      <3> QED
        BY <1>1, <2>1, <3>1, SameData DEF vars, Owing
    <2> QED
      BY <2>2, <2>3 DEF KeepInv
  <1>2. ASSUME NEW p \in Process, Run(p) \/ Step(p) \/ Fault(p) PROVE KeepInv'
    BY <1>2, StepCases, RunKeeps, EndKeeps, PassesKeeps, CountOrdersKeeps, LoadOrdersKeeps, SearchKeeps,
       DeleteRowsKeeps, StartLegKeeps, InsertRowKeeps, SelectErrorsKeeps, UpdateErrorKeeps
  <1> QED
    BY <1>1, <1>2 DEF Next

\* As long as a vehicle is not spoilt its deliveries are in the table, or in the
\* memory of one of those who are writing them.
THEOREM DeliveriesInHand == Spec => []KeepInv
  BY MemInit, MemStep, KeepInit, KeepStep, PTL DEF Spec

\* No delivery is lost, and none is added but those that are dragged along.
THEOREM DeliveriesKept == Spec => []OrdersKept
  <1>1. MemInv /\ KeepInv => OrdersKept
    <2> SUFFICES ASSUME MemInv, KeepInv, NEW v \in Vehicle \ spoilt, ~BeingWritten(v)
                 PROVE  Owed(v) \subseteq Served(v) /\ Served(v) \subseteq Owed(v) \cup Dragged(v)
      BY DEF OrdersKept
    <2>1. Owed(v) \subseteq Served(v)
      BY DEF KeepInv, Owing, BeingWritten
    <2>2. Served(v) \subseteq Owed(v) \cup Dragged(v)
      BY DEF MemInv, RowsTrue, Served, RouteRows, Rows, Reach
    <2> QED
      BY <2>1, <2>2
  <1> QED
    BY <1>1, MemAlways, DeliveriesInHand, PTL

-----------------------------------------------------------------------------
(***************************************************************************)
(* What is in the table is one tour.  This and the next part hold whatever *)
(* has been read or lost: a tour may be one of too few orders.             *)
(***************************************************************************)
Entering(p) == Rewriting(p) /\ VehicleOf[p] \notin raced

\* A row p has entered is of a leg of its route.
OfLeg(p, r) ==
    LET n == Len(mem[p].route)
    IN  /\ r.by = p /\ r.index < n
        /\ r.index < mem[p].leg \/ (pc[p] = "row" /\ r.index = mem[p].leg)
        /\ r.from = mem[p].route[r.index + 1] /\ r.from \in Order
        /\ Dest(p, r.index + 1) \in Order /\ Goes(Dest(p, r.index + 1), r.order)
        /\ r.index + 1 = n => r.order = mem[p].route[1]

LegsEntered(p) ==
    Entering(p) =>
        /\ \A r \in RouteRows(VehicleOf[p]) : OfLeg(p, r)
        /\ \A i \in 0 .. mem[p].leg - 1 :
                \E r \in RouteRows(VehicleOf[p]) : r.index = i /\ r.order = Dest(p, i + 1)
        /\ pc[p] = "row" => \A o \in Deliveries(p) \ mem[p].pending :
                \E r \in RouteRows(VehicleOf[p]) : r.index = mem[p].leg /\ r.order = o

\* The rows with an address in error that have their number, and the numbers.
Done(p) == {r \in ErrorRows(VehicleOf[p]) : r.order \notin mem[p].errors}
Numbers(p) == Len(mem[p].route) .. mem[p].nextIndex - 1

ErrorsNumbered(p) ==
    Entering(p) /\ pc[p] = "errors" =>
        /\ mem[p].nextIndex = Len(mem[p].route) + Cardinality(Done(p))
        /\ {r.index : r \in Done(p)} = Numbers(p)
        /\ \A r, s \in Done(p) : r.index = s.index => r = s

\* The rows with an address in error are those of the planner, one each.
ErrorRowsApart ==
    \A v \in Vehicle :
        /\ {r.order : r \in ErrorRows(v)} = ErrorsOf(v)
        /\ \A r, s \in ErrorRows(v) : r.order = s.order => r = s

OnceOnTour(v) ==
    \A r, s \in RouteRows(v) : r.order = s.order /\ r # s => r.index # s.index /\ Strewn(r.order)

Solo ==
    \A p, q \in Process :
        VehicleOf[p] = VehicleOf[q] /\ Rewriting(p) /\ Rewriting(q) => p = q \/ VehicleOf[p] \in raced

\* A vehicle nobody rewrites has one tour.
QuietTours ==
    \A v \in Vehicle \ raced :
        (\A p \in Process : VehicleOf[p] = v => ~Rewriting(p)) => OneTour(v) /\ OnceOnTour(v)

TourOf(p) == LegsEntered(p) /\ ErrorsNumbered(p)
TourInv == Solo /\ ErrorRowsApart /\ QuietTours /\ \A p \in Process : TourOf(p)

LEMMA OfLegKept ==
    ASSUME NEW p \in Process, NEW r, OfLeg(p, r), mem'[p].route = mem[p].route,
           r.index < mem'[p].leg \/ (pc'[p] = "row" /\ r.index = mem'[p].leg)
    PROVE  OfLeg(p, r)'
  <1>1. Dest(p, r.index + 1)' = Dest(p, r.index + 1)
    BY DEF Dest
  <1> QED
    BY <1>1 DEF OfLeg, Goes

\* Where a row of a leg comes from and leads to.
LEMMA LegLeadsTo ==
    ASSUME MemInv, NEW p \in Process, NEW r \in RouteRows(VehicleOf[p]), OfLeg(p, r)
    PROVE  /\ r \in RowSet /\ r.index \in Nat /\ r.index + 1 \in DOMAIN mem[p].route
           /\ r.order \in Order /\ r.location = OrderLocation[r.order]
           /\ r.vehicle = VehicleOf[p] /\ r.error = FALSE
  <1>1. r \in RowSet /\ r.vehicle = VehicleOf[p] /\ ~r.error /\ r.location = OrderLocation[r.order]
    BY DEF RouteRows, Rows, MemInv, DispatchType, RowsTrue
  <1>2. r.index \in Nat /\ r.order \in Order /\ r.error \in BOOLEAN
    BY <1>1 DEF RowSet
  <1>3. Len(mem[p].route) \in Nat /\ DOMAIN mem[p].route = 1 .. Len(mem[p].route)
    BY RouteLegs
  <1>4. r.index + 1 \in DOMAIN mem[p].route
    BY <1>2, <1>3 DEF OfLeg
  <1> QED
    BY <1>1, <1>2, <1>4

\* The numbers of the legs that have rows.
LEMMA LegNumbers ==
    ASSUME MemInv, NEW p \in Process, Entering(p), LegsEntered(p)
    PROVE  \E k \in Nat :
                /\ {r.index : r \in RouteRows(VehicleOf[p])} = 0 .. k - 1
                /\ Cardinality({r.index : r \in RouteRows(VehicleOf[p])}) = k
                /\ pc[p] # "row" => k = mem[p].leg
  <1> DEFINE rows == RouteRows(VehicleOf[p])
             leg == mem[p].leg
             open == \E r \in rows : r.index = leg
             k == IF open THEN leg + 1 ELSE leg
  <1>1. leg \in Nat /\ \A r \in rows : r.index \in Nat
    BY LegLeadsTo DEF LegsEntered, MemInv, DispatchType, MemSet
  <1>2. \A r \in rows : r.index < leg \/ (pc[p] = "row" /\ r.index = leg)
    BY DEF LegsEntered, OfLeg
  <1>3. \A i \in 0 .. leg - 1 : \E r \in rows : r.index = i
    BY DEF LegsEntered
  <1> HIDE DEF leg, rows
  <1>4. k \in Nat /\ (pc[p] # "row" => k = leg)
    BY <1>1, <1>2
  <1>5. {r.index : r \in rows} = 0 .. k - 1
    <2>1. \A r \in rows : r.index \in 0 .. k - 1
      BY <1>1, <1>2
    <2>2. \A i \in 0 .. k - 1 : \E r \in rows : r.index = i
      BY <1>1, <1>3
    <2> HIDE DEF k
    <2> QED
      BY <2>1, <2>2
  <1> HIDE DEF k
  <1>6. Cardinality(0 .. k - 1) = k
    <2>1. Cardinality(0 .. k - 1) = IF 0 > k - 1 THEN 0 ELSE (k - 1) - 0 + 1
      BY <1>4, FS_Interval
    <2> QED
      BY <1>4, <2>1
  <1> QED
    BY <1>4, <1>5, <1>6 DEF rows, leg

LEMMA EnteredTour ==
    ASSUME MemInv, NEW p \in Process, Entering(p), LegsEntered(p)
    PROVE  OneTour(VehicleOf[p]) /\ OnceOnTour(VehicleOf[p])
  <1> DEFINE rows == RouteRows(VehicleOf[p])
             n == Len(mem[p].route)
             leg == mem[p].leg
             to(i) == Dest(p, i)
  <1>1. \A r \in rows : OfLeg(p, r)
    BY DEF LegsEntered
  <1>2. {r.index : r \in rows} = 0 .. Cardinality({r.index : r \in rows}) - 1
    BY LegNumbers
  <1>3. \A r \in rows : /\ r \in RowSet /\ r.index \in Nat /\ r.index + 1 \in DOMAIN mem[p].route
                        /\ r.order \in Order /\ r.location = OrderLocation[r.order]
                        /\ r.vehicle = VehicleOf[p] /\ r.error = FALSE
    BY <1>1, LegLeadsTo
  <1>4. \A r \in rows : /\ r.by = p /\ r.from = mem[p].route[r.index + 1] /\ r.index < n
                        /\ to(r.index + 1) \in Order /\ Goes(to(r.index + 1), r.order)
                        /\ r.index < leg \/ r.index = leg
    BY <1>1 DEF OfLeg
  <1>5. n \in Nat /\ leg \in Nat
    BY RouteLegs
  <1>6. ASSUME NEW r \in rows, NEW s \in rows, r.index = s.index
        PROVE  r.from = s.from /\ (r.order = s.order \/ SameGroup(r.order, s.order))
    BY <1>4, <1>6 DEF Goes, SameGroup
  <1>7. ASSUME NEW r \in rows, NEW s \in rows, r.index + 1 = s.index
        PROVE  \E t \in rows : t.index = r.index /\ t.order = s.from
    <2>1. r.index \in Nat /\ s.index < n /\ s.index <= leg
      BY <1>3, <1>4, <1>5
    <2>2. r.index \in 0 .. leg - 1 /\ r.index + 1 # n
      BY <1>5, <1>7, <2>1
    <2>3. PICK t \in rows : t.index = r.index /\ t.order = Dest(p, r.index + 1)
      BY <2>2 DEF LegsEntered
    <2>4. Dest(p, r.index + 1) = mem[p].route[(r.index + 1) + 1]
      BY <2>2 DEF Dest
    <2>5. s.from = mem[p].route[(r.index + 1) + 1]
      BY <1>4, <1>7
    <2> QED
      BY <2>3, <2>4, <2>5
  <1>8. ASSUME NEW r \in rows, NEW s \in rows, r.order = s.order, r # s
        PROVE  r.index # s.index /\ Strewn(r.order)
    <2>1. r.index # s.index
      <3> SUFFICES ASSUME r.index = s.index PROVE r = s
        BY <1>8
      <3>1. r.by = s.by /\ r.from = s.from /\ r.location = s.location /\ r.vehicle = s.vehicle
            /\ r.error = s.error
        BY <1>3, <1>4, <1>8
      <3> QED
        BY <1>3, <1>8, <3>1 DEF RowSet
    <2>2. r.index + 1 # s.index + 1
      BY <1>3, <2>1
    <2>3. to(r.index + 1) # None /\ to(s.index + 1) # None
      BY <1>4, NoneAssumption
    <2>4. SiteOf[to(r.index + 1)] # SiteOf[to(s.index + 1)]
      BY <1>3, <2>2, <2>3, RouteLegs
    <2> HIDE DEF to
    <2>5. Goes(to(r.index + 1), r.order) /\ Goes(to(s.index + 1), r.order)
      BY <1>4, <1>8
    <2>6. Strewn(r.order)
      BY <1>3, <1>4, <2>4, <2>5, GoesWithTwo
    <2> QED
      BY <2>1, <2>6
  <1>9. \A r \in rows : r.by # None
    BY <1>4, NoneAssumption
  <1> HIDE DEF rows
  <1>10. OneTour(VehicleOf[p])
    BY <1>2, <1>6, <1>7, <1>9 DEF OneTour, rows
  <1>11. OnceOnTour(VehicleOf[p])
    BY <1>8 DEF OnceOnTour, rows
  <1> QED
    BY <1>10, <1>11

LEMMA ToursKnown ==
    ASSUME MemInv, TourInv, NEW v \in Vehicle \ raced
    PROVE  OneTour(v) /\ OnceOnTour(v)
  <1>1. ASSUME NEW p \in Process, VehicleOf[p] = v, Rewriting(p) PROVE OneTour(v) /\ OnceOnTour(v)
    <2>1. Entering(p) /\ LegsEntered(p)
      BY <1>1 DEF Entering, TourInv, TourOf
    <2> QED
      BY <1>1, <2>1, EnteredTour
  <1> QED
    BY <1>1 DEF TourInv, QuietTours

\* What is entered by q and its errors depend on its own place and memory, and on
\* the rows of its vehicle.
LEMMA TourOfSame ==
    ASSUME NEW q \in Process, TourOf(q), pc'[q] = pc[q], mem'[q] = mem[q], Entering(q)' <=> Entering(q),
           RouteRows(VehicleOf[q])' = RouteRows(VehicleOf[q]),
           ErrorRows(VehicleOf[q])' = ErrorRows(VehicleOf[q])
    PROVE  TourOf(q)'
  <1>1. (\A i : Dest(q, i)' = Dest(q, i)) /\ Deliveries(q)' = Deliveries(q)
    BY SameLeg
  <1>2. ASSUME NEW r, OfLeg(q, r) PROVE OfLeg(q, r)'
    BY <1>2, OfLegKept DEF OfLeg
  <1>3. LegsEntered(q)'
    BY <1>1, <1>2 DEF TourOf, LegsEntered
  <1>4. Done(q)' = Done(q) /\ Numbers(q)' = Numbers(q)
    BY DEF Done, Numbers
  <1>5. ErrorsNumbered(q)'
    BY <1>4 DEF TourOf, ErrorsNumbered
  <1> QED
    BY <1>3, <1>5 DEF TourOf

LEMMA SameRows ==
    ASSUME NEW v, RouteRows(v)' = RouteRows(v), OneTour(v), OnceOnTour(v)
    PROVE  OneTour(v)' /\ OnceOnTour(v)'
  BY DEF OneTour, OnceOnTour, Strewn, SameGroup

\* What a step other than the DELETE has to keep for the tour of its own process.
LEMMA TourKept ==
    ASSUME MemInv, TourInv, NEW p \in Process, raced' = raced, Rewriting(p)' => Rewriting(p),
           \A q \in Process \ {p} : pc'[q] = pc[q] /\ mem'[q] = mem[q],
           \A u : u # VehicleOf[p] => RouteRows(u)' = RouteRows(u) /\ ErrorRows(u)' = ErrorRows(u),
           \/ Rewriting(p)'
           \/ /\ RouteRows(VehicleOf[p])' = RouteRows(VehicleOf[p])
              /\ ErrorRows(VehicleOf[p])' = ErrorRows(VehicleOf[p]),
           ErrorRowsApart', TourOf(p)'
    PROVE  TourInv'
  <1> DEFINE v == VehicleOf[p]
  <1>1. \A q \in Process : Rewriting(q)' => Rewriting(q)
    BY DEF Rewriting
  <1>2. Solo'
    BY <1>1 DEF TourInv, Solo
  <1>3. ASSUME NEW q \in Process, q # p PROVE TourOf(q)'
    <2>1. pc'[q] = pc[q] /\ mem'[q] = mem[q] /\ TourOf(q)
      BY <1>3 DEF TourInv
    <2>2. CASE ~Entering(q)'
      BY <2>2 DEF TourOf, LegsEntered, ErrorsNumbered
    <2>3. CASE Entering(q)'
      <3>1. VehicleOf[q] # v \/ ~Rewriting(p)
        BY <1>1, <1>3, <2>3 DEF Entering, TourInv, Solo
      <3>2. RouteRows(VehicleOf[q])' = RouteRows(VehicleOf[q])
            /\ ErrorRows(VehicleOf[q])' = ErrorRows(VehicleOf[q])
        BY <3>1
      <3>3. Entering(q)' <=> Entering(q)
        BY <2>1 DEF Entering, Rewriting
      <3> QED
        BY <2>1, <3>2, <3>3, TourOfSame
    <2> QED
      BY <2>2, <2>3
  <1>4. QuietTours'
    <2> SUFFICES ASSUME NEW u \in Vehicle \ raced, \A q \in Process : VehicleOf[q] = u => ~Rewriting(q)'
                 PROVE  OneTour(u)' /\ OnceOnTour(u)'
      BY DEF QuietTours
    <2>1. RouteRows(u)' = RouteRows(u)
      OBVIOUS
    <2>2. OneTour(u) /\ OnceOnTour(u)
      BY ToursKnown
    <2> QED
      BY <2>1, <2>2, SameRows
  <1> QED
    BY <1>2, <1>3, <1>4 DEF TourInv

\* A step that leaves the table alone, and after which p is not rewriting.
LEMMA QuietTour ==
    ASSUME MemInv, TourInv, NEW p \in Process, raced' = raced, alloc' = alloc, ~Rewriting(p)',
           \A q \in Process \ {p} : pc'[q] = pc[q] /\ mem'[q] = mem[q]
    PROVE  TourInv'
  <1>1. \A u : RouteRows(u)' = RouteRows(u) /\ ErrorRows(u)' = ErrorRows(u)
    BY DEF RouteRows, Rows, ErrorRows
  <1>2. ErrorRowsApart'
    BY <1>1, SameData DEF TourInv, ErrorRowsApart
  <1>3. TourOf(p)'
    BY DEF TourOf, LegsEntered, ErrorsNumbered, Entering
  <1> QED
    BY <1>1, <1>2, <1>3, TourKept

LEMMA EarlyTour ==
    ASSUME MemInv, TourInv, NEW p \in Process,
           \/ Run(p) \/ Ends(p) \/ Passes(p) \/ CountOrders(p) \/ LoadOrders(p) \/ Search(p)
    PROVE  TourInv'
  <1>1. PICK place \in {"off", "count", "orders", "matrix", "search", "poll", "connect", "delete"} :
            pc' = [pc EXCEPT ![p] = place]
    BY DEF Run, Ends, End, Passes, LoadMatrix, LoadFails, StartFails, Connect, CountOrders,
           LoadOrders, Search, Goto
  <1>2. raced' = raced /\ alloc' = alloc
    BY DEF Run, Ends, End, Passes, LoadMatrix, LoadFails, StartFails, Connect, CountOrders,
           LoadOrders, Search, Local, Reads
  <1>3. \A q \in Process \ {p} : mem'[q] = mem[q]
    BY DEF Run, Ends, End, Passes, LoadMatrix, LoadFails, StartFails, Connect, CountOrders,
           LoadOrders, Search, MemInv, DispatchType
  <1>4. ~Rewriting(p)' /\ \A q \in Process \ {p} : pc'[q] = pc[q]
    BY <1>1 DEF Rewriting, MemInv, DispatchType
  <1> QED
    BY <1>2, <1>3, <1>4, QuietTour

LEMMA StartLegTour ==
    ASSUME MemInv, TourInv, NEW p \in Process, StartLeg(p)
    PROVE  TourInv'
  <1> DEFINE v == VehicleOf[p]
             leg == mem[p].leg
  <1>1. /\ pc[p] = "leg" /\ pc'[p] = "row"
        /\ mem'[p].route = mem[p].route /\ mem'[p].leg = leg /\ mem'[p].pending = Deliveries(p)
        /\ UNCHANGED <<alloc, raced>>
        /\ \A q \in Process \ {p} : pc'[q] = pc[q] /\ mem'[q] = mem[q]
    BY StartLegMem
  <1>2. \A u : RouteRows(u)' = RouteRows(u) /\ ErrorRows(u)' = ErrorRows(u)
    BY <1>1 DEF RouteRows, Rows, ErrorRows
  <1>3. ErrorRowsApart'
    BY <1>2, SameData DEF TourInv, ErrorRowsApart
  <1>4. Rewriting(p) /\ Rewriting(p)' /\ (Entering(p)' <=> Entering(p))
    BY <1>1 DEF Rewriting, Entering
  <1>5. (\A i : Dest(p, i)' = Dest(p, i)) /\ Deliveries(p)' = Deliveries(p)
    BY <1>1, SameLeg
  <1>6. LegsEntered(p)'
    <2> SUFFICES ASSUME Entering(p)
                 PROVE  /\ \A r \in RouteRows(v) : OfLeg(p, r)'
                        /\ \A i \in 0 .. leg - 1 :
                                \E r \in RouteRows(v) : r.index = i /\ r.order = Dest(p, i + 1)
      BY <1>1, <1>2, <1>4, <1>5 DEF LegsEntered
    <2>1. ASSUME NEW r \in RouteRows(v) PROVE OfLeg(p, r)'
      <3>1. OfLeg(p, r) /\ r.index < mem[p].leg
        BY <1>1 DEF TourInv, TourOf, LegsEntered, OfLeg
      <3> QED
        BY <1>1, <3>1, OfLegKept
    <2> QED
      BY <2>1 DEF TourInv, TourOf, LegsEntered
  <1>7. TourOf(p)'
    BY <1>1, <1>6 DEF TourOf, ErrorsNumbered
  <1> QED
    BY <1>1, <1>2, <1>3, <1>4, <1>7, TourKept

LEMMA ErrorRowsFinite ==
    ASSUME TourInv, NEW v \in Vehicle
    PROVE  IsFiniteSet(ErrorRows(v))
  <1>1. {r.order : r \in ErrorRows(v)} = ErrorsOf(v) /\ \A r, s \in ErrorRows(v) : r.order = s.order => r = s
    BY DEF TourInv, ErrorRowsApart
  <1>2. IsFiniteSet(ErrorsOf(v))
    BY OrderAssumption, FS_Subset DEF ErrorsOf
  <1> DEFINE row == [o \in ErrorsOf(v) |-> CHOOSE r \in ErrorRows(v) : r.order = o]
  <1>3. \A r \in ErrorRows(v) : r.order \in ErrorsOf(v) /\ row[r.order] = r
    BY <1>1
  <1>4. \A o \in ErrorsOf(v) : row[o] \in ErrorRows(v)
    BY <1>1
  <1>5. row \in Surjection(ErrorsOf(v), ErrorRows(v))
    BY <1>3, <1>4 DEF Surjection
  <1> QED
    BY <1>2, <1>5, FS_Surjection

LEMMA SelectErrorsTour ==
    ASSUME MemInv, TourInv, NEW p \in Process, SelectErrors(p)
    PROVE  TourInv'
  <1> DEFINE v == VehicleOf[p]
             n == Len(mem[p].route)
  <1>1. /\ pc[p] = "leg" /\ pc'[p] = "errors" /\ mem[p].leg = n
        /\ mem'[p].route = mem[p].route /\ mem'[p].leg = mem[p].leg
        /\ mem'[p].errors = {r.order : r \in ErrorRows(v)} /\ mem'[p].nextIndex = n
        /\ UNCHANGED <<alloc, raced>>
        /\ \A q \in Process \ {p} : pc'[q] = pc[q] /\ mem'[q] = mem[q]
    BY SelectErrorsMem
  <1>2. \A u : RouteRows(u)' = RouteRows(u) /\ ErrorRows(u)' = ErrorRows(u)
    BY <1>1 DEF RouteRows, Rows, ErrorRows
  <1>3. ErrorRowsApart'
    BY <1>2, SameData DEF TourInv, ErrorRowsApart
  <1>4. Rewriting(p) /\ Rewriting(p)' /\ (Entering(p)' <=> Entering(p))
    BY <1>1 DEF Rewriting, Entering
  <1>5. \A i : Dest(p, i)' = Dest(p, i)
    BY <1>1, SameLeg
  <1>6. LegsEntered(p)'
    <2> SUFFICES ASSUME Entering(p)
                 PROVE  /\ \A r \in RouteRows(v) : OfLeg(p, r)'
                        /\ \A i \in 0 .. mem[p].leg - 1 :
                                \E r \in RouteRows(v) : r.index = i /\ r.order = Dest(p, i + 1)
      BY <1>1, <1>2, <1>4, <1>5 DEF LegsEntered
    <2>1. ASSUME NEW r \in RouteRows(v) PROVE OfLeg(p, r)'
      <3>1. OfLeg(p, r) /\ r.index < mem[p].leg
        BY <1>1 DEF TourInv, TourOf, LegsEntered, OfLeg
      <3> QED
        BY <1>1, <3>1, OfLegKept
    <2> QED
      BY <2>1 DEF TourInv, TourOf, LegsEntered
  <1>7. ErrorsNumbered(p)'
    <2>1. Done(p)' = {}
      BY <1>1, <1>2 DEF Done
    <2>2. n \in Nat /\ Cardinality({}) = 0
      BY RouteLegs, FS_EmptySet
    <2>3. Numbers(p)' = n .. n - 1 /\ n .. n - 1 = {}
      BY <1>1, <2>2 DEF Numbers
    <2>4. mem'[p].nextIndex = Len(mem'[p].route) + Cardinality(Done(p)')
      BY <1>1, <2>1, <2>2
    <2> HIDE DEF n
    <2> QED
      BY <2>1, <2>3, <2>4 DEF ErrorsNumbered
  <1>8. TourOf(p)'
    BY <1>6, <1>7 DEF TourOf
  <1> QED
    BY <1>1, <1>2, <1>3, <1>4, <1>8, TourKept

LEMMA DeleteRowsTour ==
    ASSUME MemInv, TourInv, NEW p \in Process, DeleteRows(p)
    PROVE  TourInv'
  <1> DEFINE v == VehicleOf[p]
  <1>1. /\ pc[p] = "delete" /\ pc'[p] = "leg" /\ mem' = mem /\ mem[p].leg = 0
        /\ \A q \in Process \ {p} : pc'[q] = pc[q]
        /\ RouteRows(v)' = {}
        /\ \A u : ErrorRows(u)' = ErrorRows(u)
        /\ \A u : u # v => RouteRows(u)' = RouteRows(u)
    BY DeleteRowsMem
  <1>2. raced' = IF \E q \in Process \ {p} : VehicleOf[q] = v /\ Rewriting(q)
                 THEN raced \cup {v} ELSE raced \ {v}
    BY DEF DeleteRows
  <1>3. Rewriting(p)' /\ ~Rewriting(p) /\ \A q \in Process \ {p} : Rewriting(q)' <=> Rewriting(q)
    BY <1>1 DEF Rewriting
  <1>4. \A u : u # v => (u \in raced' <=> u \in raced)
    BY <1>2
  <1>5. v \notin raced' => \A q \in Process \ {p} : VehicleOf[q] = v => ~Rewriting(q)
    BY <1>2
  <1>6. Solo'
    <2> SUFFICES ASSUME NEW q \in Process, NEW w \in Process, VehicleOf[q] = VehicleOf[w],
                        Rewriting(q)', Rewriting(w)', q # w
                 PROVE  VehicleOf[q] \in raced'
      BY DEF Solo
    <2>1. CASE VehicleOf[q] = v
      BY <1>3, <1>5, <2>1
    <2>2. CASE VehicleOf[q] # v
      BY <1>3, <1>4, <2>2 DEF TourInv, Solo
    <2> QED
      BY <2>1, <2>2
  <1>7. ErrorRowsApart'
    BY <1>1, SameData DEF TourInv, ErrorRowsApart
  <1>8. QuietTours'
    <2> SUFFICES ASSUME NEW u \in Vehicle, u \notin raced',
                        \A q \in Process : VehicleOf[q] = u => ~Rewriting(q)'
                 PROVE  OneTour(u)' /\ OnceOnTour(u)'
      BY DEF QuietTours
    <2>1. u # v
      BY <1>3
    <2>2. RouteRows(u)' = RouteRows(u) /\ OneTour(u) /\ OnceOnTour(u)
      BY <1>1, <1>4, <2>1, ToursKnown
    <2> QED
      BY <2>2, SameRows
  <1>9. ASSUME NEW q \in Process PROVE TourOf(q)'
    <2>1. CASE ~Entering(q)'
      BY <2>1 DEF TourOf, LegsEntered, ErrorsNumbered
    <2>2. CASE q = p
      BY <1>1, <2>2 DEF TourOf, LegsEntered, ErrorsNumbered
    <2>3. CASE q # p /\ VehicleOf[q] # v
      <3>1. Entering(q)' <=> Entering(q)
        BY <1>3, <1>4, <2>3 DEF Entering
      <3>2. TourOf(q) /\ pc'[q] = pc[q] /\ mem'[q] = mem[q]
            /\ RouteRows(VehicleOf[q])' = RouteRows(VehicleOf[q])
            /\ ErrorRows(VehicleOf[q])' = ErrorRows(VehicleOf[q])
        BY <1>1, <2>3 DEF TourInv
      <3> QED
        BY <3>1, <3>2, TourOfSame
    <2>4. CASE q # p /\ VehicleOf[q] = v /\ Entering(q)'
      BY <1>3, <1>5, <2>4 DEF Entering
    <2> QED
      BY <2>1, <2>2, <2>3, <2>4
  <1> QED
    BY <1>6, <1>7, <1>8, <1>9 DEF TourInv

LEMMA InsertRowTour ==
    ASSUME MemInv, TourInv, NEW p \in Process, InsertRow(p)
    PROVE  TourInv'
  <1> DEFINE v == VehicleOf[p]
             leg == mem[p].leg
             n == Len(mem[p].route)
  <1>1. /\ pc[p] = "row" /\ leg \in Nat /\ leg < n
        /\ Origin(p) \in Order /\ Destination(p) \in Order /\ mem[p].pending \subseteq Deliveries(p)
        /\ raced' = raced /\ mem'[p].route = mem[p].route /\ mem'[p].errors = mem[p].errors
        /\ \A q \in Process \ {p} : pc'[q] = pc[q] /\ mem'[q] = mem[q]
        /\ \A u : u # v => RouteRows(u)' = RouteRows(u)
        /\ \A u : ErrorRows(u)' = ErrorRows(u)
    BY InsertRowMem
  <1>2. PICK o \in mem[p].pending, row \in RowSet : Enters(p, o, row)
    BY InsertRowMem
  <1>3. /\ row.order = o /\ ~row.error /\ row.index = leg /\ row.by = p /\ row.from = Origin(p)
        /\ mem'[p].pending = mem[p].pending \ {o}
        /\ RouteRows(v)' = RouteRows(v) \cup {row}
    BY <1>2 DEF Enters
  <1>4. \/ mem[p].pending = {o} /\ pc'[p] = "leg" /\ mem'[p].leg = leg + 1
        \/ mem[p].pending # {o} /\ pc'[p] = "row" /\ mem'[p].leg = leg
    BY <1>2 DEF Enters
  <1>5. Rewriting(p) /\ Rewriting(p)' /\ (Entering(p)' <=> Entering(p))
    BY <1>1, <1>4 DEF Rewriting, Entering
  <1>6. ErrorRowsApart'
    BY <1>1, SameData DEF TourInv, ErrorRowsApart
  <1>7. /\ Destination(p) = Dest(p, leg + 1) /\ Origin(p) = mem[p].route[leg + 1]
        /\ Destination(p) \in Reach(v) /\ (LastLeg(p) <=> leg + 1 = n)
    BY <1>1, LegIs
  <1>8. OfLeg(p, row)'
    <2>1. row.index < mem'[p].leg \/ (pc'[p] = "row" /\ row.index = mem'[p].leg)
      BY <1>1, <1>3, <1>4
    <2>2. leg + 1 = n => o = mem[p].route[1]
      BY <1>1, <1>7 DEF Deliveries, Destination
    <2>3. Goes(Dest(p, leg + 1), o)
      BY <1>1, <1>7, DeliveriesGo
    <2>4. OfLeg(p, row)
      BY <1>1, <1>3, <1>7, <2>2, <2>3 DEF OfLeg
    <2> QED
      BY <1>1, <2>1, <2>4, OfLegKept
  <1>9. LegsEntered(p)'
    <2> SUFFICES ASSUME Entering(p)
                 PROVE  /\ \A r \in RouteRows(v) \cup {row} : OfLeg(p, r)'
                        /\ \A i \in 0 .. mem'[p].leg - 1 :
                                \E r \in RouteRows(v) \cup {row} : r.index = i /\ r.order = Dest(p, i + 1)'
                        /\ pc'[p] = "row" => \A x \in Deliveries(p)' \ mem'[p].pending :
                                \E r \in RouteRows(v) \cup {row} : r.index = mem'[p].leg /\ r.order = x
      BY <1>3, <1>5 DEF LegsEntered
    <2>1. /\ \A r \in RouteRows(v) : OfLeg(p, r)
          /\ \A i \in 0 .. leg - 1 : \E r \in RouteRows(v) : r.index = i /\ r.order = Dest(p, i + 1)
          /\ \A x \in Deliveries(p) \ mem[p].pending :
                \E r \in RouteRows(v) : r.index = leg /\ r.order = x
      BY <1>1 DEF TourInv, TourOf, LegsEntered
    <2>2. ASSUME NEW r \in RouteRows(v) PROVE OfLeg(p, r)'
      <3>1. OfLeg(p, r) /\ r.index \in Nat /\ (r.index < leg \/ r.index = leg)
        BY <1>1, <2>1, LegLeadsTo DEF OfLeg
      <3>2. r.index < mem'[p].leg \/ (pc'[p] = "row" /\ r.index = mem'[p].leg)
        BY <1>1, <1>4, <3>1
      <3> QED
        BY <1>1, <3>1, <3>2, OfLegKept
    <2>3. \A i : Dest(p, i)' = Dest(p, i)
      BY <1>1, SameLeg
    <2>4. \A x \in Deliveries(p) \ (mem[p].pending \ {o}) :
                \E r \in RouteRows(v) \cup {row} : r.index = leg /\ r.order = x
      BY <1>3, <2>1
    <2>5. ASSUME NEW i \in 0 .. mem'[p].leg - 1
          PROVE  \E r \in RouteRows(v) \cup {row} : r.index = i /\ r.order = Dest(p, i + 1)
      <3>1. CASE i \in 0 .. leg - 1
        BY <2>1, <3>1
      <3>2. CASE i = leg /\ mem[p].pending = {o}
        <4>1. Destination(p) \in Deliveries(p)
          BY <1>7, DeliveriesGo
        <4> QED
          BY <1>7, <2>4, <3>2, <4>1
      <3> QED
        BY <1>1, <1>4, <3>1, <3>2
    <2>6. ASSUME pc'[p] = "row", NEW x \in Deliveries(p)' \ mem'[p].pending
          PROVE  \E r \in RouteRows(v) \cup {row} : r.index = mem'[p].leg /\ r.order = x
      <3>1. mem'[p].leg = leg
        BY <1>4, <2>6
      <3>2. Deliveries(p)' = Deliveries(p)
        BY <1>1, <3>1, SameLeg
      <3> QED
        BY <1>3, <2>4, <3>1, <3>2
    <2> QED
      BY <1>8, <2>2, <2>3, <2>5, <2>6
  <1>10. TourOf(p)'
    BY <1>4, <1>9 DEF TourOf, ErrorsNumbered
  <1> QED
    BY <1>1, <1>5, <1>6, <1>10, TourKept

LEMMA UpdateErrorTour ==
    ASSUME MemInv, TourInv, NEW p \in Process, UpdateError(p)
    PROVE  TourInv'
  <1> DEFINE v == VehicleOf[p]
             n == Len(mem[p].route)
             next == mem[p].nextIndex
  <1>1. /\ pc[p] = "errors" /\ pc' = pc /\ raced' = raced
        /\ \A q \in Process \ {p} : mem'[q] = mem[q]
        /\ mem'[p].route = mem[p].route /\ mem'[p].leg = mem[p].leg
        /\ next \in Nat /\ mem'[p].nextIndex = next + 1
        /\ \A u : RouteRows(u)' = RouteRows(u)
    BY UpdateErrorMem
  <1>2. PICK o \in mem[p].errors :
            /\ mem'[p].errors = mem[p].errors \ {o}
            /\ alloc' = {Renumber(r, o, next) : r \in alloc}
            /\ \A r \in alloc :
                LET s == Renumber(r, o, next)
                IN  /\ s \in RowSet /\ s.order = r.order /\ s.vehicle = r.vehicle
                    /\ s.location = r.location /\ s.error = r.error
                    /\ ~r.error \/ r.order # o => s = r
                    /\ r.error /\ r.order = o => s.index = next
    BY UpdateErrorMem
  <1> DEFINE new(r) == Renumber(r, o, next)
  <1>3. o \in ErrorsOf(v) /\ n \in Nat /\ v \in Vehicle
    BY AllocationAssumption, RouteLegs DEF ProcessInv, OwnOrders
  <1>4. \A r \in alloc : /\ new(r).order = r.order /\ new(r).vehicle = r.vehicle /\ new(r).error = r.error
                         /\ (~r.error \/ r.order # o => new(r) = r)
                         /\ (r.error /\ r.order = o => new(r).index = next)
    BY <1>2
  <1>5. alloc' = {new(r) : r \in alloc}
    BY <1>2
  <1> HIDE DEF new, n, next
  <1>6. \A u : /\ \A x \in ErrorRows(u)' : \E r \in ErrorRows(u) : x = new(r)
               /\ \A r \in ErrorRows(u) : new(r) \in ErrorRows(u)'
    BY <1>4, <1>5 DEF ErrorRows
  <1>7. ASSUME NEW u, u # v PROVE ErrorRows(u)' = ErrorRows(u)
    <2>1. \A r \in ErrorRows(u) : r.order # o
      BY <1>3, <1>7 DEF ErrorRows, MemInv, RowsTrue, ErrorsOf
    <2>2. \A r \in ErrorRows(u) : new(r) = r
      BY <1>4, <2>1 DEF ErrorRows
    <2>3. \A x \in ErrorRows(u)' : x \in ErrorRows(u)
      BY <1>6, <2>2
    <2>4. \A x \in ErrorRows(u) : x \in ErrorRows(u)'
      BY <1>6, <2>2
    <2> QED
      BY <2>3, <2>4
  <1>8. ErrorRowsApart'
    <2> SUFFICES ASSUME NEW u \in Vehicle
                 PROVE  /\ {r.order : r \in ErrorRows(u)'} = ErrorsOf(u)
                        /\ \A r, s \in ErrorRows(u)' : r.order = s.order => r = s
      BY SameData DEF ErrorRowsApart
    <2>1. /\ {r.order : r \in ErrorRows(u)} = ErrorsOf(u)
          /\ \A r, s \in ErrorRows(u) : r.order = s.order => r = s
      BY DEF TourInv, ErrorRowsApart
    <2>2. \A r \in ErrorRows(u) : new(r).order = r.order
      BY <1>4 DEF ErrorRows
    <2>3. {r.order : r \in ErrorRows(u)'} = {r.order : r \in ErrorRows(u)}
      BY <1>6, <2>2
    <2>4. \A r, s \in ErrorRows(u)' : r.order = s.order => r = s
      BY <1>6, <2>1, <2>2
    <2> QED
      BY <2>1, <2>3, <2>4
  <1>9. Rewriting(p) /\ Rewriting(p)' /\ (Entering(p)' <=> Entering(p))
    BY <1>1 DEF Rewriting, Entering
  <1>10. LegsEntered(p)'
    <2>1. (\A i : Dest(p, i)' = Dest(p, i)) /\ Deliveries(p)' = Deliveries(p)
      BY <1>1, SameLeg
    <2>2. \A r : OfLeg(p, r) => OfLeg(p, r)'
      BY <1>1, OfLegKept DEF OfLeg
    <2> QED
      BY <1>1, <1>9, <2>1, <2>2 DEF TourInv, TourOf, LegsEntered
  <1>11. ErrorsNumbered(p)'
    <2> SUFFICES ASSUME Entering(p)
                 PROVE  /\ mem'[p].nextIndex = Len(mem'[p].route) + Cardinality(Done(p)')
                        /\ {r.index : r \in Done(p)'} = Numbers(p)'
                        /\ \A r, s \in Done(p)' : r.index = s.index => r = s
      BY <1>9 DEF ErrorsNumbered
    <2>1. /\ next = n + Cardinality(Done(p))
          /\ {r.index : r \in Done(p)} = n .. next - 1
          /\ \A r, s \in Done(p) : r.index = s.index => r = s
      BY <1>1 DEF TourInv, TourOf, ErrorsNumbered, Numbers, n, next
    <2>2. PICK x \in ErrorRows(v) : x.order = o
      BY <1>3 DEF TourInv, ErrorRowsApart
    <2>3. PICK y : y = new(x)
      OBVIOUS
    <2>4. y.index = next /\ y.order = o /\ y \in ErrorRows(v)'
      BY <1>4, <1>6, <2>2, <2>3 DEF ErrorRows
    <2>5. \A r \in ErrorRows(v) : r.order = o => r = x
      BY <1>3, <2>2 DEF TourInv, ErrorRowsApart
    <2>6. Done(p)' = Done(p) \cup {y}
      <3>1. ASSUME NEW r \in Done(p) PROVE r \in Done(p)'
        <4>1. r \in ErrorRows(v) /\ r.order \notin mem[p].errors
          BY DEF Done
        <4>2. new(r) = r
          BY <1>4, <4>1 DEF ErrorRows
        <4>3. r \in ErrorRows(v)'
          BY <1>6, <4>1, <4>2
        <4> QED
          BY <1>2, <4>1, <4>3 DEF Done
      <3>2. y \in Done(p)'
        BY <1>2, <2>4 DEF Done
      <3>3. ASSUME NEW z \in Done(p)' PROVE z \in Done(p) \cup {y}
        <4>1. z \in ErrorRows(v)' /\ z.order \notin mem[p].errors \ {o}
          BY <1>2 DEF Done
        <4>2. PICK r \in ErrorRows(v) : z = new(r)
          BY <1>6, <4>1
        <4>3. r.order = z.order
          BY <1>4, <4>2 DEF ErrorRows
        <4>4. CASE r.order = o
          BY <2>3, <2>5, <4>2, <4>4
        <4>5. CASE r.order # o
          BY <1>4, <4>1, <4>2, <4>3, <4>5 DEF Done, ErrorRows
        <4> QED
          BY <4>4, <4>5
      <3> QED
        BY <3>1, <3>2, <3>3
    <2>7. y \notin Done(p)
      BY <2>4 DEF Done
    <2>8. IsFiniteSet(Done(p)) /\ Cardinality(Done(p)) \in Nat
      <3>1. IsFiniteSet(ErrorRows(v)) /\ Done(p) \subseteq ErrorRows(v)
        BY <1>3, ErrorRowsFinite DEF Done
      <3> QED
        BY <3>1, FS_Subset, FS_CardinalityType
    <2>9. Cardinality(Done(p)') = Cardinality(Done(p)) + 1
      <3>1. Cardinality(Done(p) \cup {y}) = Cardinality(Done(p)) + 1
        BY <2>7, <2>8, FS_AddElement
      <3> QED
        BY <2>6, <3>1
    <2>10. mem'[p].nextIndex = Len(mem'[p].route) + Cardinality(Done(p)')
      <3>1. Len(mem'[p].route) = n /\ mem'[p].nextIndex = next + 1
        BY <1>1 DEF n, next
      <3>2. next + 1 = n + (Cardinality(Done(p)) + 1)
        BY <1>1, <1>3, <2>1, <2>8
      <3> QED
        BY <2>9, <3>1, <3>2
    <2>11. {r.index : r \in Done(p)'} = Numbers(p)'
      <3>0. next \in Nat /\ n \in Nat
        BY <1>1, <1>3 DEF next
      <3>1. Numbers(p)' = n .. next
        <4>1. (next + 1) - 1 = next
          BY <3>0
        <4> QED
          BY <1>1, <4>1 DEF Numbers, n, next
      <3>2. {r.index : r \in Done(p)'} = {r.index : r \in Done(p)} \cup {next}
        BY <2>4, <2>6
      <3>3. n <= next
        BY <3>0, <2>1, <2>8
      <3>4. (n .. next - 1) \cup {next} = n .. next
        BY <3>0, <3>3
      <3> QED
        BY <2>1, <3>1, <3>2, <3>4
    <2>12. \A r, s \in Done(p)' : r.index = s.index => r = s
      <3>0. next \in Nat /\ n \in Nat
        BY <1>1, <1>3 DEF next
      <3>1. \A r \in Done(p) : r.index \in n .. next - 1
        BY <2>1
      <3>2. \A r \in Done(p) : r.index # y.index
        BY <3>0, <2>4, <3>1
      <3> QED
        BY <2>1, <2>6, <3>2
    <2> QED
      BY <2>10, <2>11, <2>12
  <1>12. TourOf(p)'
    BY <1>10, <1>11 DEF TourOf
  <1> QED
    BY <1>1, <1>7, <1>8, <1>9, <1>12, TourKept

LEMMA TourInit == Init => TourInv
  <1> SUFFICES ASSUME Init PROVE TourInv
    OBVIOUS
  <1>1. \A o \in Order : /\ AllocationRow(o).order = o /\ AllocationRow(o).vehicle = AllocatedTo[o]
                         /\ AllocationRow(o).by = None
    BY DEF AllocationRow
  <1>2. \A o \in Order : AllocationRow(o).error <=> o \in ErrorOrder
    BY DEF AllocationRow
  <1>3. alloc = {AllocationRow(o) : o \in Order} /\ \A p \in Process : ~Rewriting(p)
    BY DEF Init, Rewriting
  <1>4. \A r, s \in alloc : r.order = s.order => r = s
    BY <1>1, <1>3
  <1>5. ErrorRowsApart
    <2> SUFFICES ASSUME NEW v \in Vehicle
                 PROVE  {r.order : r \in ErrorRows(v)} = ErrorsOf(v)
      BY <1>4 DEF ErrorRowsApart, ErrorRows
    <2>1. \A r \in ErrorRows(v) : r.order \in ErrorsOf(v)
      BY <1>1, <1>2, <1>3 DEF ErrorRows, ErrorsOf
    <2>2. ASSUME NEW o \in ErrorsOf(v) PROVE \E r \in ErrorRows(v) : r.order = o
      <3>1. o \in Order /\ o \in ErrorOrder /\ AllocatedTo[o] = v
        BY OrderAssumption DEF ErrorsOf
      <3>2. AllocationRow(o) \in ErrorRows(v) /\ AllocationRow(o).order = o
        BY <1>1, <1>2, <1>3, <3>1 DEF ErrorRows
      <3> QED
        BY <3>2
    <2> QED
      BY <2>1, <2>2
  <1>6. \A v : OneTour(v) /\ OnceOnTour(v)
    <2>1. \A v : \A r \in RouteRows(v) : r \in alloc /\ r.by = None
      BY <1>1, <1>3 DEF RouteRows, Rows
    <2> QED
      BY <1>4, <2>1 DEF OneTour, OnceOnTour
  <1>7. \A p \in Process : TourOf(p)
    BY <1>3 DEF TourOf, LegsEntered, ErrorsNumbered, Entering
  <1> QED
    BY <1>3, <1>5, <1>6, <1>7 DEF TourInv, Solo, QuietTours

LEMMA TourStep == MemInv /\ TourInv /\ [Next]_vars => TourInv'
  <1> SUFFICES ASSUME MemInv, TourInv, [Next]_vars PROVE TourInv'
    OBVIOUS
  <1>1. CASE UNCHANGED vars
    <2>1. \A q \in Process : pc'[q] = pc[q] /\ mem'[q] = mem[q] /\ (Entering(q)' <=> Entering(q))
                             /\ (Rewriting(q)' <=> Rewriting(q))
      BY <1>1 DEF vars, Entering, Rewriting
    <2>2. \A v : RouteRows(v)' = RouteRows(v) /\ ErrorRows(v)' = ErrorRows(v)
      BY <1>1 DEF vars, RouteRows, Rows, ErrorRows
    <2>3. \A q \in Process : TourOf(q)'
      BY <2>1, <2>2, TourOfSame DEF TourInv
    <2>4. Solo' /\ raced' = raced
      BY <1>1, <2>1 DEF TourInv, Solo, vars
    <2>5. ErrorRowsApart'
      BY <2>2, SameData DEF TourInv, ErrorRowsApart
    <2>6. QuietTours'
      <3> SUFFICES ASSUME NEW v \in Vehicle \ raced PROVE OneTour(v)' /\ OnceOnTour(v)'
        BY <2>4 DEF QuietTours
      <3> QED
        BY <2>2, ToursKnown, SameRows
    <2> QED
      BY <2>3, <2>4, <2>5, <2>6 DEF TourInv
  <1>2. ASSUME NEW p \in Process, Run(p) \/ Step(p) \/ Fault(p) PROVE TourInv'
    BY <1>2, StepCases, EarlyTour, DeleteRowsTour, StartLegTour, InsertRowTour, SelectErrorsTour,
       UpdateErrorTour
  <1> QED
    BY <1>1, <1>2 DEF Next

LEMMA ToursAlways == Spec => []TourInv
  BY MemInit, MemStep, TourInit, TourStep, PTL DEF Spec

\* At any moment, after any faults, reruns and torn reads, the rows
\* OnVehicleDataInsert has left of a vehicle are the beginning of one tour,
\* unless two of its runs have written at a time.
THEOREM TablesAreTours == Spec => []LegsChain
  <1>1. MemInv /\ TourInv => LegsChain
    BY ToursKnown DEF LegsChain
  <1> QED
    BY <1>1, MemAlways, ToursAlways, PTL

\* An order with two rows is one with an address in error, which is dragged along
\* with its group, or one of a group with more than one address; or else two runs
\* of its vehicle have written at a time.
THEOREM DeliveriesOnce == Spec => []NoOrderTwice
  <1>1. MemInv /\ TourInv => NoOrderTwice
    <2> SUFFICES ASSUME MemInv, TourInv,
                        NEW r \in alloc, NEW s \in alloc, r.order = s.order, r # s, r.vehicle \notin raced
                 PROVE  \/ r.error # s.error /\ r.order \in Dragged(r.vehicle)
                        \/ r.index # s.index /\ ~r.error /\ ~s.error /\ Strewn(r.order)
      BY DEF NoOrderTwice
    <2>1. ASSUME NEW x \in alloc
          PROVE  x \in RowSet /\ x.vehicle = AllocatedTo[x.order] /\ x.vehicle \in Vehicle
      <3>1. x \in RowSet /\ x.vehicle \in Vehicle /\ x.error \in BOOLEAN
        BY DEF MemInv, DispatchType, RowSet
      <3>2. x.error => x.order \in ErrorsOf(x.vehicle)
        BY DEF MemInv, RowsTrue
      <3>3. ~x.error => x.order \in Owed(x.vehicle) \/ x.order \in Dragged(x.vehicle)
        BY DEF MemInv, RowsTrue, Reach
      <3>4. x.order \in Dragged(x.vehicle) => AllocatedTo[x.order] = x.vehicle
        BY OrderAssumption, DataAssumption DEF Dragged, Owed
      <3> QED
        BY <3>1, <3>2, <3>3, <3>4 DEF ErrorsOf, Owed
    <2>2. r.vehicle = s.vehicle /\ r.vehicle \in Vehicle \ raced
      BY <2>1
    <2>3. r.error \in BOOLEAN /\ s.error \in BOOLEAN
      BY <2>1 DEF RowSet
    <2>4. ASSUME r.error, s.error PROVE FALSE
      BY <2>2, <2>4 DEF TourInv, ErrorRowsApart, ErrorRows
    <2>5. ASSUME ~r.error, ~s.error PROVE r.index # s.index /\ Strewn(r.order)
      <3>1. OnceOnTour(r.vehicle)
        BY <2>2, ToursKnown
      <3> QED
        BY <2>2, <2>5, <3>1 DEF OnceOnTour, RouteRows, Rows
    <2>6. ASSUME r.error # s.error PROVE r.order \in Dragged(r.vehicle)
      <3>1. r.order \in ErrorOrder /\ r.order \in Reach(r.vehicle)
        BY <2>2, <2>3, <2>6 DEF MemInv, RowsTrue, ErrorsOf
      <3> QED
        BY <3>1 DEF Reach, Owed
    <2> QED
      BY <2>3, <2>4, <2>5, <2>6
  <1> QED
    BY <1>1, MemAlways, ToursAlways, PTL

-----------------------------------------------------------------------------
(***************************************************************************)
(* A run that finishes leaves a closed tour.                               *)
(***************************************************************************)
LEMMA AllEntered ==
    ASSUME MemInv, TourInv, NEW p \in Process, pc[p] = "errors", mem[p].errors = {},
           VehicleOf[p] \notin raced
    PROVE  ClosedTour(VehicleOf[p])
  <1> DEFINE v == VehicleOf[p]
             route == mem[p].route
             n == Len(route)
             rows == RouteRows(v)
             failed == ErrorRows(v)
  <1>1. Entering(p) /\ TourOf(p) /\ v \in Vehicle /\ ProcessInv(p)
    BY AllocationAssumption DEF Entering, Rewriting, TourInv, MemInv
  <1>2. n \in Nat /\ mem[p].leg = n /\ DOMAIN route = 1 .. n /\ OneEach(route)
    BY <1>1, RouteLegs DEF ProcessInv, InOrder, OwnOrders
  <1>3. Rows(v) \ rows = failed
    BY DEF RouteRows, ErrorRows, Rows
  <1>4. Cardinality({r.index : r \in rows}) - 1 = n - 1
    BY <1>1, <1>2, LegNumbers DEF TourOf
  <1>5. \A r \in rows : /\ OfLeg(p, r) /\ r.index \in Nat /\ r.index + 1 \in DOMAIN route
                        /\ r.from = route[r.index + 1] /\ r.from \in Order /\ r.index < n
                        /\ r.index + 1 = n => r.order = route[1]
    <2>1. \A r \in rows : OfLeg(p, r)
      BY <1>1 DEF TourOf, LegsEntered
    <2> QED
      BY <2>1, LegLeadsTo DEF OfLeg
  <1>6. Done(p) = failed
    BY DEF Done
  <1>7. /\ {r.index : r \in failed} = n .. mem[p].nextIndex - 1
        /\ mem[p].nextIndex = n + Cardinality(failed)
        /\ \A r, s \in failed : r.index = s.index => r = s
    BY <1>1, <1>6 DEF TourOf, ErrorsNumbered, Numbers
  <1>8. ASSUME NEW r \in rows, NEW s \in rows, r.index = 0
        PROVE  /\ s.index = n - 1 => s.order = r.from
               /\ s.from = r.from => s.index = 0
    <2>1. r.from = route[1] /\ 1 \in DOMAIN route /\ route[1] # None
      BY <1>5, <1>8, NoneAssumption
    <2>2. s.index = n - 1 => s.order = route[1]
      BY <1>2, <1>5
    <2>3. ASSUME s.from = r.from PROVE s.index = 0
      <3>1. s.index + 1 \in DOMAIN route /\ route[s.index + 1] = route[1]
        BY <1>5, <2>1, <2>3
      <3>2. s.index + 1 = 1
        BY <1>2, <2>1, <3>1 DEF OneEach
      <3>3. s.index \in Nat
        BY <1>5
      <3> QED
        BY <3>2, <3>3
    <2> QED
      BY <2>1, <2>2, <2>3
  <1>9. {r.order : r \in failed} = {o \in ErrorOrder : AllocatedTo[o] = v}
    BY <1>1 DEF TourInv, ErrorRowsApart, ErrorsOf
  <1>10. ASSUME NEW r \in Rows(v), NEW s \in Rows(v), r.error, r.index = s.index
         PROVE  r = s
    <2>1. r \in failed
      BY <1>10 DEF ErrorRows, Rows
    <2>2. r.index \in n .. mem[p].nextIndex - 1
      BY <1>7, <2>1
    <2>3. s \notin rows
      <3>1. s \in rows => s.index < n
        BY <1>5
      <3> QED
        BY <1>2, <1>10, <2>2, <3>1
    <2>4. s \in failed
      BY <1>3, <2>3
    <2> QED
      BY <1>7, <1>10, <2>1, <2>4
  <1>11. {r.index : r \in failed} = (n - 1) + 1 .. (n - 1) + Cardinality(failed)
    <2>1. Cardinality(failed) \in Nat
      BY <1>1, ErrorRowsFinite, FS_CardinalityType
    <2>2. (n - 1) + 1 = n /\ (n - 1) + Cardinality(failed) = mem[p].nextIndex - 1
      BY <1>2, <1>7, <2>1
    <2> QED
      BY <1>7, <2>2
  <1> HIDE DEF rows, failed, n
  <1> QED
    BY <1>3, <1>4, <1>8, <1>9, <1>10, <1>11 DEF ClosedTour, rows

\* A run that finishes leaves a closed tour, and after it the rows with an
\* address in error, numbered on, unless two runs wrote at a time.
THEOREM FinishedToursClose == Spec => FinishedTourIsClosed
  <1> DEFINE closes == \A p \in Process :
                pc[p] = "errors" /\ report'[p] = "complete" /\ VehicleOf[p] \notin raced
                    => ClosedTour(VehicleOf[p])'
  <1>1. MemInv /\ TourInv /\ [Next]_vars => [closes]_vars
    <2> SUFFICES ASSUME MemInv, TourInv, Next,
                        NEW p \in Process, pc[p] = "errors", report'[p] = "complete",
                        VehicleOf[p] \notin raced
                 PROVE  ClosedTour(VehicleOf[p])'
      OBVIOUS
    <2>1. report[p] = "none" /\ report \in [Process -> Results]
      BY DEF MemInv, DispatchType, ProcessInv, InOrder
    <2>2. PICK q \in Process : Run(q) \/ Step(q) \/ Fault(q)
      BY DEF Next
    <2>3. ASSUME report' = report PROVE FALSE
      BY <2>1, <2>3
    <2>4. Run(q) => FALSE
      BY <2>1 DEF Run
    <2>5. ASSUME NEW result, End(q, result) PROVE q = p /\ result = "complete"
      BY <2>1, <2>5 DEF End
    <2>6. LoadOverflows(q) \/ SearchCrashes(q) \/ LegUnknown(q) \/ WriteFails(q) \/ Crash(q) => FALSE
      <3>1. End(q, "none") \/ End(q, "error") => FALSE
        BY <2>5
      <3> QED
        BY <3>1 DEF LoadOverflows, SearchCrashes, LegUnknown, WriteFails, Crash
    <2>7. ConnectFails(q) => FALSE
      BY <2>5 DEF ConnectFails
    <2>8. Finish(q)
      <3>1. Passes(q) => report' = report
        BY DEF Passes, LoadMatrix, LoadFails, StartFails, Connect, Local
      <3>2. CountOrders(q) \/ LoadOrders(q) \/ Search(q) \/ DeleteRows(q) \/ StartLeg(q) \/ InsertRow(q)
                \/ SelectErrors(q) \/ UpdateError(q) => report' = report
        BY DEF CountOrders, LoadOrders, Reads, Search, DeleteRows, StartLeg, InsertRow, SelectErrors,
               UpdateError, Local
      <3> QED
        BY <2>2, <2>3, <2>4, <2>6, <2>7, <3>1, <3>2 DEF Step, Fault, Passes
    <2>9. q = p /\ mem[p].errors = {} /\ alloc' = alloc
      BY <2>5, <2>8 DEF Finish
    <2>10. ClosedTour(VehicleOf[p])
      BY <2>9, AllEntered
    <2> QED
      BY <2>9, <2>10 DEF ClosedTour, RouteRows, Rows
  <1> QED
    BY <1>1, MemAlways, ToursAlways, PTL DEF Spec, FinishedTourIsClosed

-----------------------------------------------------------------------------
(***************************************************************************)
(* The table as a ledger: every step of the program is a step of the books *)
(* of its owner.                                                           *)
(***************************************************************************)
Good(v) == Served(v) \ ErrorOrder
Entered == [v \in Vehicle |-> Good(v)]
Phases == [v \in Vehicle |-> LedgerPhase(v)]

\* The changes a step may make to one vehicle are steps of the ledger.
LEMMA LedgerStep ==
    ASSUME NEW v \in Vehicle,
           \A u \in Vehicle \ {v} : Good(u)' = Good(u) /\ LedgerPhase(u)' = LedgerPhase(u),
           \/ Good(v)' = Good(v) /\ LedgerPhase(v)' = LedgerPhase(v)
           \/ LedgerPhase(v) # "spoilt" /\ LedgerPhase(v)' = "rewriting" /\ Good(v)' = {}
           \/ /\ LedgerPhase(v) = "rewriting" /\ LedgerPhase(v)' = "rewriting"
              /\ \E o \in Owed(v) \ Good(v) : Good(v)' = Good(v) \cup {o}
           \/ /\ LedgerPhase(v) = "rewriting" /\ LedgerPhase(v)' = "kept"
              /\ Good(v)' = Good(v) /\ Good(v) = Owed(v)
           \/ LedgerPhase(v)' = "spoilt" /\ Good(v)' \subseteq Owed(v)
    PROVE  [Ledger!Next]_(Ledger!lvars)
  <1> DEFINE due == [w \in Vehicle |-> Owed(w)]
  <1>1. Entered' = [Entered EXCEPT ![v] = Good(v)'] /\ Entered[v] = Good(v)
    BY DEF Entered
  <1>2. Phases' = [Phases EXCEPT ![v] = LedgerPhase(v)'] /\ Phases[v] = LedgerPhase(v)
    BY DEF Phases
  <1>3. due[v] = Owed(v)
    OBVIOUS
  <1>4. CASE Good(v)' = Good(v) /\ LedgerPhase(v)' = LedgerPhase(v)
    <2>1. Entered' = Entered /\ Phases' = Phases
      BY <1>4 DEF Entered, Phases
    <2> QED
      BY <2>1 DEF Ledger!lvars, Entered, Phases, Good
  <1>5. CASE LedgerPhase(v) # "spoilt" /\ LedgerPhase(v)' = "rewriting" /\ Good(v)' = {}
    <2>1. Ledger!TakeOff(v)
      BY <1>1, <1>2, <1>5 DEF Ledger!TakeOff, Entered, Phases, Good
    <2> QED
      BY <2>1 DEF Ledger!Next
  <1>6. CASE /\ LedgerPhase(v) = "rewriting" /\ LedgerPhase(v)' = "rewriting"
             /\ \E o \in Owed(v) \ Good(v) : Good(v)' = Good(v) \cup {o}
    <2>1. Phases' = Phases
      BY <1>6 DEF Phases
    <2>2. PICK o \in Owed(v) \ Good(v) : Entered' = [Entered EXCEPT ![v] = Entered[v] \cup {o}]
      BY <1>1, <1>6
    <2>3. Ledger!Enter(v)
      BY <1>1, <1>2, <1>3, <1>6, <2>1, <2>2 DEF Ledger!Enter, Entered, Phases, Good
    <2> QED
      BY <2>3 DEF Ledger!Next
  <1>7. CASE /\ LedgerPhase(v) = "rewriting" /\ LedgerPhase(v)' = "kept"
             /\ Good(v)' = Good(v) /\ Good(v) = Owed(v)
    <2>1. Entered' = Entered
      BY <1>7 DEF Entered
    <2>2. Ledger!Close(v)
      BY <1>1, <1>2, <1>3, <1>7, <2>1 DEF Ledger!Close, Entered, Phases, Good
    <2> QED
      BY <2>2 DEF Ledger!Next
  <1>8. CASE LedgerPhase(v)' = "spoilt" /\ Good(v)' \subseteq Owed(v)
    <2>1. Ledger!Spoil(v)
      BY <1>1, <1>2, <1>3, <1>8 DEF Ledger!Spoil, Entered, Phases, Good
    <2> QED
      BY <2>1 DEF Ledger!Next
  <1> QED
    BY <1>4, <1>5, <1>6, <1>7, <1>8

\* The phase of a vehicle depends on who writes its rows.
LEMMA SamePhase ==
    ASSUME NEW v, v \in spoilt' <=> v \in spoilt,
           \A q \in Process : VehicleOf[q] = v => (Writing(q)' <=> Writing(q))
    PROVE  LedgerPhase(v)' = LedgerPhase(v)
  <1>1. BeingWritten(v)' <=> BeingWritten(v)
    BY DEF BeingWritten
  <1> QED
    BY <1>1 DEF LedgerPhase

\* What is on the ledger is due.
LEMMA GoodIsOwed ==
    ASSUME MemInv, NEW v
    PROVE  Good(v) \subseteq Owed(v)
  BY DEF MemInv, RowsTrue, Good, Served, RouteRows, Rows, Reach, Dragged

LEMMA GoodIsSame ==
    ASSUME NEW v, RouteRows(v)' = RouteRows(v)
    PROVE  Good(v)' = Good(v)
  BY DEF Good, Served

\* A step of p that leaves the rows and only changes who is writing.
LEMMA PassOnLedger ==
    ASSUME MemInv, KeepInv, KeepInv', NEW p \in Process,
           \A u : RouteRows(u)' = RouteRows(u),
           \A q \in Process \ {p} : pc'[q] = pc[q],
           \/ spoilt' = spoilt /\ (Writing(p)' => Writing(p))
           \/ spoilt' = spoilt \cup {VehicleOf[p]}
    PROVE  [Ledger!Next]_(Ledger!lvars)
  <1> DEFINE v == VehicleOf[p]
  <1>1. v \in Vehicle
    BY AllocationAssumption
  <1>2. \A u : Good(u)' = Good(u)
    BY GoodIsSame
  <1>3. \A q \in Process \ {p} : Writing(q)' <=> Writing(q)
    BY DEF Writing
  <1>4. ASSUME NEW u \in Vehicle \ {v} PROVE LedgerPhase(u)' = LedgerPhase(u)
    BY <1>3, SamePhase
  <1>5. CASE v \in spoilt'
    <2>1. LedgerPhase(v)' = "spoilt" /\ Good(v)' \subseteq Owed(v)
      BY <1>2, <1>5, GoodIsOwed DEF LedgerPhase
    <2> QED
      BY <1>1, <1>2, <1>4, <2>1, LedgerStep
  <1>6. CASE v \notin spoilt' /\ (BeingWritten(v)' <=> BeingWritten(v))
    <2>1. LedgerPhase(v)' = LedgerPhase(v)
      BY <1>6 DEF LedgerPhase
    <2> QED
      BY <1>1, <1>2, <1>4, <2>1, LedgerStep
  <1>7. CASE v \notin spoilt' /\ ~(BeingWritten(v)' <=> BeingWritten(v))
    <2>1. BeingWritten(v) /\ ~BeingWritten(v)'
      BY <1>3, <1>7 DEF BeingWritten
    <2>2. LedgerPhase(v) = "rewriting" /\ LedgerPhase(v)' = "kept"
      BY <1>7, <2>1 DEF LedgerPhase
    <2>3. Owed(v) \subseteq Served(v)'
      BY <1>1, <1>7, <2>1, SameData DEF KeepInv, Owing, BeingWritten
    <2>4. Good(v) = Owed(v)
      <3>1. Owed(v) \subseteq Good(v)'
        BY <2>3 DEF Good, Owed
      <3> QED
        BY <1>2, <3>1, GoodIsOwed
    <2> QED
      BY <1>1, <1>2, <1>4, <2>2, <2>4, LedgerStep
  <1> QED
    BY <1>5, <1>6, <1>7

\* Every step is one of the ledger.
LEMMA StepOnLedger ==
    ASSUME MemInv, MemInv', KeepInv, KeepInv', [Next]_vars
    PROVE  [Ledger!Next]_(Ledger!lvars)
  <1>1. CASE UNCHANGED vars
    <2>1. \A v \in Vehicle : RouteRows(v)' = RouteRows(v)
      BY <1>1 DEF vars, RouteRows, Rows
    <2>2. \A v \in Vehicle : Good(v)' = Good(v)
      BY <2>1, GoodIsSame
    <2>3. \A v \in Vehicle : LedgerPhase(v)' = LedgerPhase(v)
      BY <1>1, SamePhase DEF vars, Writing
    <2>4. Entered' = Entered /\ Phases' = Phases
      BY <2>2, <2>3 DEF Entered, Phases
    <2> QED
      BY <2>4 DEF Ledger!lvars, Entered, Phases, Good
  <1>2. ASSUME NEW p \in Process, Run(p) \/ Step(p) \/ Fault(p) PROVE [Ledger!Next]_(Ledger!lvars)
    <2> DEFINE v == VehicleOf[p]
    <2>0. v \in Vehicle
      BY AllocationAssumption
    <2>1. CASE Ends(p)
      <3>1. /\ alloc' = alloc /\ \A q \in Process \ {p} : pc'[q] = pc[q]
            /\ pc'[p] = "off"
            /\ spoilt' = IF Writing(p) THEN spoilt \cup {v} ELSE spoilt
        BY <2>1, EndKeeps
      <3>2. (\A u : RouteRows(u)' = RouteRows(u)) /\ ~Writing(p)'
        BY <3>1 DEF RouteRows, Rows, Writing
      <3> QED
        BY <3>1, <3>2, PassOnLedger
    <2>2. CASE Run(p) \/ Passes(p) \/ CountOrders(p) \/ LoadOrders(p) \/ Search(p) \/ StartLeg(p)
               \/ SelectErrors(p)
      <3>1. alloc' = alloc /\ spoilt' = spoilt
        BY <2>2 DEF Run, Passes, LoadMatrix, LoadFails, StartFails, Connect, CountOrders, LoadOrders,
                    Search, StartLeg, SelectErrors, Local, Reads
      <3>2. PICK place \in Places : /\ pc' = [pc EXCEPT ![p] = place]
                                    /\ place \in {"leg", "row"} => pc[p] = "leg"
        BY <2>2 DEF Run, Passes, LoadMatrix, LoadFails, StartFails, Connect, CountOrders, LoadOrders,
                    Search, StartLeg, SelectErrors, Goto, Places
      <3>3. (\A q \in Process \ {p} : pc'[q] = pc[q]) /\ (Writing(p)' => Writing(p))
        BY <3>2 DEF Writing, MemInv, DispatchType
      <3>4. \A u : RouteRows(u)' = RouteRows(u)
        BY <3>1 DEF RouteRows, Rows
      <3> QED
        BY <3>1, <3>3, <3>4, PassOnLedger
    <2>3. CASE UpdateError(p)
      <3>1. pc' = pc /\ spoilt' = spoilt /\ \A u : RouteRows(u)' = RouteRows(u)
        BY <2>3, UpdateErrorMem
      <3>2. Writing(p)' => Writing(p)
        BY <3>1 DEF Writing
      <3> QED
        BY <3>1, <3>2, PassOnLedger
    <2>4. CASE DeleteRows(p)
      <3>1. /\ pc'[p] = "leg" /\ \A q \in Process \ {p} : pc'[q] = pc[q]
            /\ RouteRows(v)' = {} /\ \A u : u # v => RouteRows(u)' = RouteRows(u)
        BY <2>4, DeleteRowsMem
      <3>2. Good(v)' = {} /\ \A u \in Vehicle \ {v} : Good(u)' = Good(u)
        BY <3>1, GoodIsSame DEF Good, Served
      <3>3. \A u \in Vehicle \ {v} : LedgerPhase(u)' = LedgerPhase(u)
        BY <2>4, <3>1, SamePhase DEF DeleteRows, Writing
      <3>4. LedgerPhase(v)' \in {"rewriting", "spoilt"} /\ (LedgerPhase(v) = "spoilt" => LedgerPhase(v)' = "spoilt")
        BY <2>4, <3>1 DEF DeleteRows, LedgerPhase, BeingWritten, Writing
      <3> QED
        BY <2>0, <3>2, <3>3, <3>4, LedgerStep
    <2>5. CASE InsertRow(p)
      <3>1. /\ pc[p] = "row" /\ spoilt' = spoilt /\ \A q \in Process \ {p} : pc'[q] = pc[q]
            /\ \A u : u # v => RouteRows(u)' = RouteRows(u)
        BY <2>5, InsertRowMem
      <3>2. PICK o \in mem[p].pending, row \in RowSet : Enters(p, o, row)
        BY <2>5, InsertRowMem
      <3>3. Writing(p) /\ Writing(p)'
        BY <3>1, <3>2 DEF Writing, Enters
      <3>4. \A u \in Vehicle : LedgerPhase(u)' = LedgerPhase(u)
        BY <3>1, <3>3, SamePhase DEF Writing
      <3>5. LedgerPhase(v) \in {"rewriting", "spoilt"}
        BY <3>3 DEF LedgerPhase, BeingWritten
      <3>6. \A u \in Vehicle \ {v} : Good(u)' = Good(u)
        BY <3>1, GoodIsSame
      <3>7. Good(v)' = (Served(v) \cup {o}) \ ErrorOrder
        BY <3>2 DEF Enters, Good, Served
      <3>8. Good(v)' \subseteq Owed(v)
        BY <3>2, <3>7, GoodIsOwed DEF Enters, Good, Reach, Dragged
      <3>9. Good(v)' = Good(v) \/ \E x \in Owed(v) \ Good(v) : Good(v)' = Good(v) \cup {x}
        BY <3>7, <3>8 DEF Good
      <3> QED
        BY <2>0, <3>4, <3>5, <3>6, <3>8, <3>9, LedgerStep
    <2> QED
      BY <1>2, <2>1, <2>2, <2>3, <2>4, <2>5, StepCases
  <1> QED
    BY <1>1, <1>2 DEF Next

LEMMA InitOnLedger ==
    ASSUME Init
    PROVE  Ledger!Init
  <1>1. MemInv /\ KeepInv
    BY MemInit, KeepInit
  <1>2. \A v \in Vehicle : ~BeingWritten(v) /\ v \notin spoilt
    BY DEF Init, BeingWritten, Writing
  <1>3. ASSUME NEW v \in Vehicle PROVE Good(v) = Owed(v) /\ LedgerPhase(v) = "kept"
    <2>1. Owed(v) \subseteq Served(v)
      BY <1>1, <1>2 DEF KeepInv, Owing, BeingWritten
    <2>2. Owed(v) \subseteq Good(v)
      BY <2>1 DEF Good, Owed
    <2> QED
      BY <1>1, <1>2, <2>2, GoodIsOwed DEF LedgerPhase
  <1> QED
    BY <1>3 DEF Ledger!Init, Good

\* The program implements the ledger: taking off, entering one by one, and
\* closing only when everything is back, unless the vehicle is spoilt.
THEOREM ImplementsLedger == Spec => KeepsTheLedger
  <1>1. Init => Ledger!Init
    BY InitOnLedger
  <1>2. MemInv /\ MemInv' /\ KeepInv /\ KeepInv' /\ [Next]_vars => [Ledger!Next]_(Ledger!lvars)
    BY StepOnLedger
  <1> QED
    BY <1>1, <1>2, MemAlways, DeliveriesInHand, PTL DEF Spec, KeepsTheLedger, Ledger!Spec
=============================================================================
