-------------------------- MODULE VehicleRoutesProofs --------------------------
(***************************************************************************)
(* Steps 06 and 07, and the search that runs while they do, leave the      *)
(* split of Step05 alone; what holds of the split alone holds of all of    *)
(* them together.  For every number of vehicles and stops and every split, *)
(* the cities registered for a vehicle are the depot and its section, each *)
(* once; so are the routes of every search that has found one, and turning *)
(* them changes only where they begin.                                     *)
(***************************************************************************)
EXTENDS VehicleRoutes, VehicleSplitProofs, FiniteSetTheorems, SequenceTheorems

LEMMA SplitAlone == [Next]_vars => [SplitNext]_splitVars
  <1> SUFFICES ASSUME Next \/ UNCHANGED vars PROVE SplitNext \/ UNCHANGED splitVars
    OBVIOUS
  <1>1. CASE Calc
    BY <1>1 DEF Calc
  <1>2. CASE Research
    BY <1>2
    DEF Research, OnResearchDeliveryData, RouteBestSearch, NoFirstCity, StartAccepted,
        StartIgnored, StartHalfFails, CopyRoute, OnRelocationVehicleData, Dies
  <1>3. CASE NewBestChromosome \/ CriterionStops \/ SearchCrashes \/ ThreadsReturn \/ ControlSticks
    BY <1>3
    DEF NewBestChromosome, CriterionStops, SearchCrashes, ThreadsReturn, ControlSticks, Dies
  <1>4. CASE UNCHANGED vars
    BY <1>4 DEF vars
  <1> QED
    BY <1>1, <1>2, <1>3, <1>4 DEF Next

LEMMA SplitInside == Spec => SplitSpec
  <1>1. Init => SplitInit
    BY DEF Init
  <1> QED
    BY <1>1, SplitAlone, PTL DEF Spec, SplitSpec

(***************************************************************************)
(* The routes of the vehicles are searched over sections that cover the    *)
(* stops: no step after Step05 changes them.                               *)
(***************************************************************************)
THEOREM RoutesCover == Spec => []SectionsCoverStops
  BY SplitInside, SplitCovers, PTL

-----------------------------------------------------------------------------
Orders(route) == {route[p].order : p \in DOMAIN route}

\* The depot and the stops of the section of a vehicle.
Carries(k) == {Copy[0]} \cup {Copy[s] : s \in Section(k) \ {0}}

\* Ids from 1 up, the first for the depot, and each order once.
RegistryInv ==
    /\ registry = [cities |-> registry.cities, nextId |-> registry.nextId]
    /\ registry.nextId \in 1 .. NumStops
    /\ registry.cities \in [1 .. registry.nextId -> City]
    /\ \A i \in 1 .. registry.nextId : registry.cities[i].id = i
    /\ registry.cities[1].order = Copy[0]
    /\ \A i, j \in 1 .. registry.nextId :
            registry.cities[i].order = registry.cities[j].order => i = j
    /\ \/ \A i \in 1 .. registry.nextId :
            registry.cities[i].origin = 0 /\ registry.cities[i].order = i
       \/ \A i \in 1 .. registry.nextId :
            registry.cities[i].origin = registry.cities[i].order

\* A route that was found has the depot, under the id 1, and each order once.
GoodRoute(route) ==
    /\ route \in Seq(City)
    /\ route # <<>> =>
        /\ \E p \in DOMAIN route : route[p].id = 1
        /\ \A p \in DOMAIN route : route[p].id = 1 => route[p].order = Copy[0]
        /\ \A p, q \in DOMAIN route : route[p].order = route[q].order => p = q

Searching == rpc \in {"start", "poll"}

ControlInv ==
    /\ rpc \in {"calc", "register", "start", "poll", "relocate", "done", "dead"}
    /\ search \in {"RUNNING", "CRITERIA_STOPPED"} /\ threads \in ThreadStates
    /\ search = "RUNNING" => rpc = "poll"
    /\ first \in 0 .. NumStops
    /\ rpc = "register" \/ Searching =>
        /\ first = IF Len(routes) = 0 THEN 1 ELSE flg[Len(routes) - 1] + 1
        /\ Len(routes) < NumVehicles
    /\ rpc \in {"relocate", "done"} => Len(routes) = NumVehicles

RouteInv ==
    /\ GoodRoute(best)
    /\ Searching => Orders(registry.cities) = Carries(Len(routes))
    /\ Searching /\ best # <<>> => Orders(best) = Carries(Len(routes))
    /\ routes \in Seq(Seq(City))
    /\ rpc = "calc" => routes = <<>>
    /\ \A j \in 1 .. Len(routes) :
        /\ GoodRoute(routes[j])
        /\ routes[j] # <<>> => Orders(routes[j]) = Carries(j - 1)
    /\ relocated = IF rpc = "done" THEN [j \in 1 .. NumVehicles |-> Turned(routes[j])] ELSE <<>>

ResearchInv == RegistryInv /\ ControlInv /\ RouteInv

-----------------------------------------------------------------------------
LEMMA CopyFacts ==
    /\ Copy \in [Stops -> 1 .. NumStops] /\ Copy[0] \in 1 .. NumStops
    /\ \A s, t \in Stops : Copy[s] = Copy[t] => s = t
    /\ StopOrder \in Seq(1 .. NumStops) /\ Len(StopOrder) = NumStops
    /\ \A p \in 1 .. NumStops : StopOrder[p] = Copy[p - 1] /\ p - 1 \in Stops
  <1>1. NumStops \in Nat /\ 0 \in Stops
    BY Constants
  <1>2. Copy \in [Stops -> 1 .. NumStops] /\ Copy[0] \in 1 .. NumStops
        /\ \A s, t \in Stops : Copy[s] = Copy[t] => s = t
    BY <1>1, CopyAssumption
  <1>3. \A p \in 1 .. NumStops : p - 1 \in Stops
    BY <1>1 DEF Stops
  <1>4. StopOrder \in [1 .. NumStops -> 1 .. NumStops]
    BY <1>2, <1>3 DEF StopOrder
  <1>5. StopOrder \in Seq(1 .. NumStops) /\ Len(StopOrder) = NumStops
    BY <1>1, <1>4
  <1> QED
    BY <1>2, <1>3, <1>5 DEF StopOrder

\* Orders without repetition, the depot first, are registered as they come.
DepotFirst(orders) ==
    /\ orders \in Seq(1 .. NumStops) /\ Len(orders) \in 1 .. NumStops /\ orders[1] = Copy[0]
    /\ \A i, j \in 1 .. Len(orders) : orders[i] = orders[j] => i = j
OriginsOf(origins, orders) ==
    \/ origins = orders
    \/ /\ origins = [i \in DOMAIN orders |-> 0]
       /\ \A i \in 1 .. Len(orders) : orders[i] = i

LEMMA RegisteredFirst ==
    ASSUME NEW orders, NEW origins, Len(orders) \in Nat
    PROVE  Register(Empty, orders, origins) =
                [cities |-> [i \in 1 .. Len(orders) |->
                                [id |-> i, origin |-> origins[i], order |-> orders[i]]],
                 nextId |-> Len(orders)]
  <1> DEFINE n == Len(orders)
  <1> HIDE DEF n
  <1>1. DOMAIN Empty.cities = {} /\ Empty.nextId = 0
    BY DEF Empty
  <1>2. {} \cup (0 + 1 .. 0 + n) = 1 .. n /\ 0 + n = n /\ \A i \in 1 .. n : i - 0 = i
    BY DEF n
  <1> QED
    BY <1>1, <1>2 DEF Register, n

LEMMA Registers ==
    ASSUME NEW orders, DepotFirst(orders), NEW origins, OriginsOf(origins, orders),
           registry' = Register(Empty, orders, origins)
    PROVE  /\ RegistryInv'
           /\ Orders(registry.cities)' = {orders[i] : i \in 1 .. Len(orders)}
  <1>0. NumStops \in Nat
    BY Constants
  <1> DEFINE n == Len(orders)
             c == [i \in 1 .. n |-> [id |-> i, origin |-> origins[i], order |-> orders[i]]]
  <1>1. /\ n \in 1 .. NumStops /\ n \in Nat /\ DOMAIN orders = 1 .. n
        /\ \A i \in 1 .. n : orders[i] \in 1 .. NumStops
        /\ orders[1] = Copy[0] /\ \A i, j \in 1 .. n : orders[i] = orders[j] => i = j
    <2>1. n \in Nat /\ DOMAIN orders = 1 .. n
      BY DEF DepotFirst
    <2>2. \A i \in 1 .. n : orders[i] \in 1 .. NumStops
      <3>1. orders \in Seq(1 .. NumStops)
        BY DEF DepotFirst
      <3> QED
        BY <3>1, ElementOfSeq
    <2> HIDE DEF n
    <2> QED
      BY <2>1, <2>2 DEF DepotFirst, n
  <1>2. registry' = [cities |-> c, nextId |-> n]
    BY <1>1, RegisteredFirst
  <1>3. registry.cities' = c /\ registry.nextId' = n
    BY <1>2
  <1>4. c \in [1 .. n -> City]
    <2> SUFFICES ASSUME NEW i \in 1 .. n
                 PROVE  [id |-> i, origin |-> origins[i], order |-> orders[i]] \in City
      OBVIOUS
    <2>1. i \in 1 .. NumStops /\ orders[i] \in 1 .. NumStops
      BY <1>0, <1>1
    <2>2. origins[i] \in 0 .. NumStops
      <3>1. CASE origins = orders
        BY <3>1, <2>1, <1>0
      <3>2. CASE origins = [k \in DOMAIN orders |-> 0]
        BY <3>2, <1>0, <1>1
      <3> QED
        BY <3>1, <3>2 DEF OriginsOf
    <2> QED
      BY <2>1, <2>2 DEF City
  <1>5. \A i \in 1 .. n : c[i].id = i /\ c[i].origin = origins[i] /\ c[i].order = orders[i]
    OBVIOUS
  <1>6. \/ \A i \in 1 .. n : c[i].origin = 0 /\ c[i].order = i
        \/ \A i \in 1 .. n : c[i].origin = c[i].order
    BY <1>1, <1>5 DEF OriginsOf
  <1>7. DOMAIN c = 1 .. n
    OBVIOUS
  <1> HIDE DEF c
  <1>8. RegistryInv'
    BY <1>1, <1>2, <1>3, <1>4, <1>5, <1>6 DEF RegistryInv, City
  <1>9. Orders(registry.cities)' = {orders[i] : i \in 1 .. n}
    BY <1>3, <1>5, <1>7 DEF Orders
  <1> QED
    BY <1>8, <1>9

\* The order a route visits at each place, and that a city is there once.
LEMMA TourOfRegistry ==
    ASSUME RegistryInv, NEW tour \in Tours(GetCities(registry))
    PROVE  GoodRoute(tour) /\ tour # <<>> /\ Orders(tour) = Orders(registry.cities)
  <1> DEFINE n == registry.nextId
             c == registry.cities
             C == GetCities(registry)
  <1>1. /\ n \in Nat /\ n >= 1 /\ c \in [1 .. n -> City] /\ DOMAIN c = 1 .. n /\ 1 \in 1 .. n
        /\ \A i \in 1 .. n : c[i].id = i
        /\ c[1].order = Copy[0] /\ \A i, j \in 1 .. n : c[i].order = c[j].order => i = j
    <2>1. n \in 1 .. NumStops /\ c \in [1 .. n -> City]
      BY DEF RegistryInv
    <2>2. n \in Nat /\ n >= 1 /\ 1 \in 1 .. n
      BY <2>1
    <2> QED
      BY <2>1, <2>2 DEF RegistryInv
  <1>2. C = {c[i] : i \in 1 .. n}
    BY <1>1 DEF GetCities
  <1> HIDE DEF n, c, C
  <1>3. IsFiniteSet(C) /\ Cardinality(C) = n
    <2>1. c \in Bijection(1 .. n, C)
      <3>1. c \in [1 .. n -> C] /\ \A x \in C : \E i \in 1 .. n : c[i] = x
        BY <1>1, <1>2
      <3>2. \A i, j \in 1 .. n : c[i] = c[j] => i = j
        BY <1>1
      <3> QED
        BY <3>1, <3>2 DEF Bijection, Injection, Surjection, IsInjective
    <2>2. IsFiniteSet(1 .. n) /\ Cardinality(1 .. n) = n
      BY <1>1, FS_Interval
    <2> QED
      BY <2>1, <2>2, FS_Bijection DEF ExistsBijection
  <1>4. /\ tour \in [1 .. n -> C] /\ DOMAIN tour = 1 .. n
        /\ \A x \in C : \E p \in 1 .. n : tour[p] = x
    <2>1. tour \in Tours(C)
      BY DEF C
    <2> QED
      BY <2>1, <1>3 DEF Tours
  <1>5. \A p, q \in 1 .. n : tour[p] = tour[q] => p = q
    <2>1. tour \in Surjection(1 .. n, C)
      BY <1>4 DEF Surjection
    <2>2. IsFiniteSet(1 .. n) /\ Cardinality(1 .. n) = n
      BY <1>1, FS_Interval
    <2>3. tour \in Injection(1 .. n, C)
      BY <2>1, <2>2, <1>3, FS_SurjSameCardinalityImpliesInj
    <2> QED
      BY <2>3 DEF Injection, IsInjective
  <1>6. \A p \in 1 .. n : \E i \in 1 .. n : tour[p] = c[i]
    BY <1>2, <1>4
  <1>7. \A i \in 1 .. n : \E p \in 1 .. n : tour[p] = c[i]
    BY <1>2, <1>4
  <1>8. tour \in Seq(City) /\ tour # <<>>
    <2>1. C \subseteq City
      BY <1>1, <1>2
    <2>2. tour \in [1 .. n -> City]
      BY <2>1, <1>4
    <2>3. tour # <<>>
      BY <1>1, <1>4
    <2> QED
      BY <2>2, <2>3, <1>1
  <1>9. \E p \in DOMAIN tour : tour[p].id = 1
    <2>1. PICK p \in 1 .. n : tour[p] = c[1]
      BY <1>1, <1>7
    <2>2. c[1].id = 1
      BY <1>1
    <2> QED
      BY <2>1, <2>2, <1>4
  <1>10. \A p \in DOMAIN tour : tour[p].id = 1 => tour[p].order = Copy[0]
    <2> SUFFICES ASSUME NEW p \in 1 .. n, tour[p].id = 1 PROVE tour[p].order = Copy[0]
      BY <1>4
    <2>1. PICK i \in 1 .. n : tour[p] = c[i]
      BY <1>6
    <2> QED
      BY <2>1, <1>1
  <1>11. \A p, q \in DOMAIN tour : tour[p].order = tour[q].order => p = q
    <2> SUFFICES ASSUME NEW p \in 1 .. n, NEW q \in 1 .. n, tour[p].order = tour[q].order
                 PROVE  p = q
      BY <1>4
    <2>1. PICK i \in 1 .. n : tour[p] = c[i]
      BY <1>6
    <2>2. PICK j \in 1 .. n : tour[q] = c[j]
      BY <1>6
    <2>3. i = j
      BY <2>1, <2>2, <1>1
    <2> QED
      BY <2>1, <2>2, <2>3, <1>5
  <1>12. Orders(tour) = Orders(c)
    <2>1. ASSUME NEW o \in Orders(tour) PROVE o \in Orders(c)
      <3>1. PICK p \in 1 .. n : o = tour[p].order
        BY <1>4 DEF Orders
      <3>2. PICK i \in 1 .. n : tour[p] = c[i]
        BY <1>6
      <3> QED
        BY <3>1, <3>2, <1>1 DEF Orders
    <2>2. ASSUME NEW o \in Orders(c) PROVE o \in Orders(tour)
      <3>1. PICK i \in 1 .. n : o = c[i].order
        BY <1>1 DEF Orders
      <3>2. PICK p \in 1 .. n : tour[p] = c[i]
        BY <1>7
      <3> QED
        BY <3>1, <3>2, <1>4 DEF Orders
    <2> QED
      BY <2>1, <2>2
  <1> QED
    BY <1>8, <1>9, <1>10, <1>11, <1>12 DEF GoodRoute, c

\* Turned, a route begins at the depot and visits what it visited.
LEMMA TurnedRoute ==
    ASSUME NEW route, GoodRoute(route)
    PROVE  /\ Turned(route) \in Seq(City) /\ (Turned(route) = <<>> <=> route = <<>>)
           /\ Orders(Turned(route)) = Orders(route)
           /\ route # <<>> =>
                /\ Turned(route)[1].order = Copy[0]
                /\ \A p, q \in DOMAIN Turned(route) :
                        Turned(route)[p].order = Turned(route)[q].order => p = q
  <1>1. CASE route = <<>>
    BY <1>1 DEF Turned, GoodRoute
  <1>2. CASE route # <<>>
    <2> DEFINE n == Len(route)
               m == FirstIndex(route)
               turned == Turned(route)
    <2>1. /\ route \in Seq(City) /\ DOMAIN route = 1 .. n /\ n \in Nat
          /\ \E p \in DOMAIN route : route[p].id = 1
          /\ \A p \in DOMAIN route : route[p].id = 1 => route[p].order = Copy[0]
          /\ \A p, q \in DOMAIN route : route[p].order = route[q].order => p = q
      BY <1>2 DEF GoodRoute
    <2>2. m \in 1 .. n /\ route[m].id = 1
      BY <2>1 DEF FirstIndex
    <2>3. turned = TurnedTo(route, m)
      BY <1>2 DEF Turned, TurnedTo
    <2> HIDE DEF n, m, turned
    <2>4. /\ turned \in Seq(City) /\ Len(turned) = n
          /\ \E from : from[1] = m /\ Permutes(from, n) /\ Rearranges(turned, route, from)
      BY <2>1, <2>2, <2>3, Rotation DEF n
    <2>5. PICK from :
            /\ from \in [1 .. n -> 1 .. n] /\ from[1] = m
            /\ \A i \in 1 .. n : turned[i] = route[from[i]]
            /\ \A i, j \in 1 .. n : from[i] = from[j] => i = j
            /\ \A k \in 1 .. n : \E i \in 1 .. n : from[i] = k
      BY <2>4 DEF Permutes, Rearranges, n
    <2>6. DOMAIN turned = 1 .. n /\ 1 \in 1 .. n /\ turned # <<>>
      BY <2>1, <2>2, <2>4
    <2>7. turned[1].order = Copy[0]
      <3>1. turned[1] = route[m]
        BY <2>5, <2>6
      <3>2. route[m].order = Copy[0]
        BY <2>1, <2>2
      <3> QED
        BY <3>1, <3>2
    <2>8. ASSUME NEW p \in 1 .. n, NEW q \in 1 .. n, turned[p].order = turned[q].order
          PROVE  p = q
      <3>1. from[p] \in 1 .. n /\ from[q] \in 1 .. n
        BY <2>5
      <3>2. route[from[p]].order = route[from[q]].order
        BY <2>5, <2>8
      <3>3. from[p] = from[q]
        BY <3>1, <3>2, <2>1
      <3> QED
        BY <3>3, <2>5
    <2>9. Orders(turned) = Orders(route)
      <3>1. ASSUME NEW o \in Orders(turned) PROVE o \in Orders(route)
        <4>1. PICK p \in 1 .. n : o = turned[p].order
          BY <2>6 DEF Orders
        <4>2. from[p] \in 1 .. n /\ turned[p] = route[from[p]]
          BY <2>5
        <4> QED
          BY <4>1, <4>2, <2>1 DEF Orders
      <3>2. ASSUME NEW o \in Orders(route) PROVE o \in Orders(turned)
        <4>1. PICK k \in 1 .. n : o = route[k].order
          BY <2>1 DEF Orders
        <4>2. PICK i \in 1 .. n : from[i] = k
          BY <2>5
        <4>3. turned[i] = route[k]
          BY <4>2, <2>5
        <4> QED
          BY <4>1, <4>2, <4>3, <2>6 DEF Orders
      <3> QED
        BY <3>1, <3>2
    <2> QED
      BY <1>2, <2>4, <2>6, <2>7, <2>8, <2>9 DEF turned
  <1> QED
    BY <1>1, <1>2

\* What a step of Steps 06 and 07 leaves as it is.
LEMMA SameSections ==
    ASSUME UNCHANGED splitVars
    PROVE  /\ spc' = spc /\ flg' = flg /\ reads' = reads
           /\ \A k \in Nat : First(k)' = First(k) /\ Section(k)' = Section(k) /\ Carries(k)' = Carries(k)
           /\ Carries(Len(routes))' = Carries(Len(routes'))
  <1>1. spc' = spc /\ flg' = flg /\ reads' = reads
    BY DEF splitVars
  <1>2. \A k \in Nat : First(k)' = First(k) /\ Section(k)' = Section(k) /\ Carries(k)' = Carries(k)
    BY <1>1 DEF First, Section, Carries
  <1>3. Carries(Len(routes))' = Carries(Len(routes'))
    BY <1>1 DEF First, Section, Carries
  <1> QED
    BY <1>1, <1>2, <1>3

\* The stops of the section of the vehicle whose turn it is, after the depot.
LEMMA SectionOrders ==
    ASSUME SplitTypeOK, ControlInv, routes \in Seq(Seq(City)), rpc = "register"
    PROVE  LET orders == <<Copy[0]>> \o SubSeq(StopOrder, first + 1, flg[Len(routes)] + 1)
           IN  /\ DepotFirst(orders)
               /\ {orders[i] : i \in 1 .. Len(orders)} = Carries(Len(routes))
  <1> DEFINE k == Len(routes)
             last == flg[k]
             section == SubSeq(StopOrder, first + 1, last + 1)
             n == IF first <= last THEN last - first + 1 ELSE 0
             orders == <<Copy[0]>> \o section
  <1>0. NumStops \in Nat /\ NumStops >= 1 /\ Stops = 0 .. NumStops - 1 /\ NumVehicles \in Nat
    BY Constants DEF Stops
  <1>1. k \in Nat /\ k < NumVehicles /\ k \in Slots /\ (k # 0 => k - 1 \in Slots)
    BY <1>0, ArraysAssumption DEF ControlInv, Slots
  <1>2. /\ last \in Stops /\ first = (IF k = 0 THEN 1 ELSE flg[k - 1] + 1)
        /\ k # 0 => flg[k - 1] \in Stops
    BY <1>1 DEF ControlInv, SplitTypeOK
  <1>3. first \in 1 .. NumStops /\ last \in 0 .. NumStops - 1
    BY <1>0, <1>2
  <1>4. Section(k) \ {0} = first .. last
    <2>1. First(k) = IF k = 0 THEN 0 ELSE flg[k - 1] + 1
      BY DEF First
    <2> HIDE DEF k, last
    <2> QED
      BY <2>1, <1>0, <1>1, <1>2, <1>3 DEF Section, last
  <1> HIDE DEF k, last
  <1>5. n \in 0 .. NumStops - 1
    BY <1>0, <1>3
  <1>6. /\ section \in Seq(1 .. NumStops) /\ Len(section) = n
        /\ \A i \in 1 .. n : section[i] = Copy[first + i - 1]
    <2>1. StopOrder \in Seq(1 .. NumStops) /\ Len(StopOrder) = NumStops
      BY CopyFacts
    <2>2. section \in Seq(1 .. NumStops)
      BY <2>1, <1>3, <1>0
    <2>3. Len(section) = n
      BY <2>1, <1>3, <1>0
    <2>4. ASSUME NEW i \in 1 .. n PROVE section[i] = Copy[first + i - 1]
      <3>1. first + i \in 1 .. NumStops /\ (first + i) - 1 = first + i - 1
            /\ (first + 1) + i - 1 = first + i
        BY <1>0, <1>3
      <3>2. section[i] = StopOrder[first + i]
        BY <2>1, <3>1, <1>0, <1>3
      <3> QED
        BY <3>1, <3>2, CopyFacts
    <2> QED
      BY <2>2, <2>3, <2>4
  <1> HIDE DEF section
  <1>7. /\ orders \in Seq(1 .. NumStops) /\ Len(orders) = n + 1 /\ orders[1] = Copy[0]
        /\ \A i \in 2 .. n + 1 : orders[i] = Copy[first + i - 2]
    <2>1. Copy[0] \in 1 .. NumStops
      BY CopyFacts
    <2>2. <<Copy[0]>> \in Seq(1 .. NumStops) /\ Len(<<Copy[0]>>) = 1 /\ <<Copy[0]>>[1] = Copy[0]
      BY <2>1
    <2>3. orders \in Seq(1 .. NumStops) /\ Len(orders) = n + 1
      BY <2>2, <1>5, <1>6
    <2>4. orders[1] = Copy[0]
      BY <2>2, <1>5, <1>6
    <2>5. ASSUME NEW i \in 2 .. n + 1 PROVE orders[i] = Copy[first + i - 2]
      <3>1. i - 1 \in 1 .. n /\ first + (i - 1) - 1 = first + i - 2
        BY <1>5, <1>3
      <3>2. orders[i] = section[i - 1]
        BY <3>1, <1>5, <1>6
      <3> QED
        BY <3>1, <3>2, <1>6
    <2> QED
      BY <2>3, <2>4, <2>5
  <1> HIDE DEF orders
  <1>8. \A i \in 2 .. n + 1 : first + i - 2 \in Stops /\ first + i - 2 # 0 /\ first + i - 2 \in first .. last
    BY <1>0, <1>3
  <1>9. 0 \in Stops /\ Copy \in [Stops -> 1 .. NumStops] /\ \A s, t \in Stops : Copy[s] = Copy[t] => s = t
    BY <1>0, CopyFacts
  <1> HIDE DEF n
  <1>10. ASSUME NEW i \in 1 .. n + 1, NEW j \in 1 .. n + 1, orders[i] = orders[j] PROVE i = j
    <2>0. n \in Nat /\ first \in Nat
      BY <1>3, <1>5
    <2>1. (i = 1 \/ i \in 2 .. n + 1) /\ (j = 1 \/ j \in 2 .. n + 1)
      BY <2>0
    <2>2. CASE i = 1 /\ j = 1
      BY <2>2
    <2>3. CASE i = 1 /\ j \in 2 .. n + 1
      BY <2>3, <1>7, <1>8, <1>9, <1>10
    <2>4. CASE i \in 2 .. n + 1 /\ j = 1
      BY <2>4, <1>7, <1>8, <1>9, <1>10
    <2>5. CASE i \in 2 .. n + 1 /\ j \in 2 .. n + 1
      <3>1. first + i - 2 = first + j - 2
        BY <2>5, <1>7, <1>8, <1>9, <1>10
      <3> QED
        BY <3>1, <2>0, <2>5
    <2> QED
      BY <2>1, <2>2, <2>3, <2>4, <2>5
  <1>11. n + 1 \in 1 .. NumStops
    BY <1>0, <1>5
  <1>12. DepotFirst(orders)
    BY <1>7, <1>10, <1>11 DEF DepotFirst
  <1>13. {orders[i] : i \in 1 .. n + 1} = Carries(k)
    <2>0. n \in Nat /\ first \in Nat /\ last \in Int
      BY <1>3, <1>5
    <2>1. ASSUME NEW i \in 1 .. n + 1 PROVE orders[i] \in Carries(k)
      <3>1. CASE i = 1
        BY <3>1, <1>7 DEF Carries
      <3>2. CASE i # 1
        <4>1. i \in 2 .. n + 1
          BY <2>0, <3>2
        <4> QED
          BY <4>1, <1>4, <1>7, <1>8 DEF Carries
      <3> QED
        BY <3>1, <3>2
    <2>2. ASSUME NEW o \in Carries(k) PROVE \E i \in 1 .. n + 1 : o = orders[i]
      <3>1. CASE o = Copy[0]
        <4>1. 1 \in 1 .. n + 1
          BY <2>0
        <4> QED
          BY <3>1, <4>1, <1>7
      <3>2. CASE o # Copy[0]
        <4>1. PICK s \in first .. last : o = Copy[s]
          BY <3>2, <1>4 DEF Carries
        <4>2. s - first + 2 \in 2 .. n + 1 /\ first + (s - first + 2) - 2 = s
          BY <2>0 DEF n
        <4>3. orders[s - first + 2] = Copy[s]
          BY <4>2, <1>7
        <4>4. s - first + 2 \in 1 .. n + 1
          BY <4>2, <2>0
        <4> QED
          BY <4>1, <4>3, <4>4
      <3> QED
        BY <3>1, <3>2
    <2> QED
      BY <2>1, <2>2
  <1> QED
    BY <1>7, <1>12, <1>13 DEF orders, section, k, last

LEMMA RouteBestSearchStep ==
    ASSUME ResearchInv, SplitTypeOK, RouteBestSearch
    PROVE  ResearchInv'
  <1> DEFINE orders == <<Copy[0]>> \o SubSeq(StopOrder, first + 1, flg[Len(routes)] + 1)
  <1>1. /\ rpc = "register" /\ rpc' = "start" /\ best' = <<>> /\ UNCHANGED splitVars
        /\ registry' = AddCityExt(FreshRegistry, orders)
        /\ search' = search /\ threads' = threads /\ first' = first /\ routes' = routes
        /\ relocated' = relocated
    BY DEF RouteBestSearch
  <1>2. RegistryInv /\ ControlInv /\ RouteInv
    BY DEF ResearchInv
  <1>3. DepotFirst(orders) /\ {orders[i] : i \in 1 .. Len(orders)} = Carries(Len(routes))
    BY <1>1, <1>2, SectionOrders DEF RouteInv
  <1>4. FreshRegistry = Empty
    <2> DEFINE cities == registry.cities
               nextId == registry.nextId
    <2>1. registry = [cities |-> cities, nextId |-> nextId]
      BY <1>2 DEF RegistryInv
    <2> HIDE DEF cities, nextId
    <2>2. Clear(registry) = [cities |-> <<>>, nextId |-> nextId]
      BY <2>1 DEF Clear
    <2>3. ResetNextId([cities |-> <<>>, nextId |-> nextId]) = [cities |-> <<>>, nextId |-> 0]
      BY DEF ResetNextId
    <2> QED
      BY <2>2, <2>3 DEF FreshRegistry, Empty
  <1> HIDE DEF orders
  <1>5. registry' = Register(Empty, orders, orders) /\ OriginsOf(orders, orders)
    BY <1>1, <1>4 DEF AddCityExt, OriginsOf
  <1>6. RegistryInv' /\ Orders(registry.cities)' = Carries(Len(routes))
    BY <1>3, <1>5, Registers
  <1>7. ControlInv'
    <2>1. flg' = flg
      BY <1>1, SameSections
    <2> QED
      BY <1>1, <1>2, <2>1 DEF ControlInv, Searching
  <1>8. RouteInv'
    <2>1. GoodRoute(best)'
      BY <1>1 DEF GoodRoute
    <2>2. Carries(Len(routes))' = Carries(Len(routes))
      <3>1. Len(routes) \in Nat
        BY <1>2 DEF RouteInv
      <3> QED
        BY <3>1, <1>1, SameSections
    <2>3. \A j \in 1 .. Len(routes)' : Carries(j - 1)' = Carries(j - 1)
      <3>1. \A j \in 1 .. Len(routes) : j - 1 \in Nat
        BY <1>2 DEF RouteInv
      <3> QED
        BY <3>1, <1>1, SameSections
    <2>4. \A j \in 1 .. Len(routes)' : GoodRoute(routes[j])' /\
                (routes'[j] # <<>> => Orders(routes[j])' = Carries(j - 1)')
      BY <2>3, <1>1, <1>2 DEF RouteInv, GoodRoute, Orders
    <2> QED
      BY <2>1, <2>2, <2>4, <1>1, <1>2, <1>6 DEF RouteInv, Searching
  <1> QED
    BY <1>6, <1>7, <1>8 DEF ResearchInv

LEMMA CopyRouteStep ==
    ASSUME ResearchInv, SplitTypeOK, CopyRoute
    PROVE  ResearchInv'
  <1>1. /\ rpc = "poll" /\ search = "CRITERIA_STOPPED" /\ UNCHANGED splitVars
        /\ routes' = Append(routes, best) /\ first' = flg[Len(routes)] + 1
        /\ rpc' = IF Len(routes') = NumVehicles THEN "relocate" ELSE "register"
        /\ registry' = registry /\ best' = best /\ search' = search /\ threads' = threads
        /\ relocated' = relocated
    BY DEF CopyRoute, SearchIsOver, NextFirst
  <1>2. RegistryInv /\ ControlInv /\ RouteInv
    BY DEF ResearchInv
  <1>3. /\ routes \in Seq(Seq(City)) /\ Len(routes) \in Nat /\ Len(routes) < NumVehicles
        /\ GoodRoute(best) /\ best \in Seq(City)
        /\ best # <<>> => Orders(best) = Carries(Len(routes))
    BY <1>1, <1>2 DEF RouteInv, ControlInv, Searching, GoodRoute
  <1>4. /\ routes' \in Seq(Seq(City)) /\ Len(routes') = Len(routes) + 1
        /\ \A j \in 1 .. Len(routes) : routes'[j] = routes[j]
        /\ routes'[Len(routes) + 1] = best
    BY <1>1, <1>3
  <1>5. NumVehicles \in Nat /\ NumStops \in Nat /\ Len(routes) \in Slots
        /\ flg[Len(routes)] \in 0 .. NumStops - 1 /\ flg' = flg
    <2>1. NumVehicles \in Nat /\ NumStops \in Nat /\ Len(routes) \in Slots
      BY <1>3, Constants, ArraysAssumption DEF Slots
    <2>2. flg[Len(routes)] \in Stops
      BY <2>1 DEF SplitTypeOK
    <2> QED
      BY <2>1, <2>2, <1>1, SameSections DEF Stops
  <1>6. RegistryInv'
    BY <1>1, <1>2 DEF RegistryInv, City
  <1>7. ControlInv'
    BY <1>1, <1>2, <1>3, <1>4, <1>5 DEF ControlInv, Searching
  <1>8. RouteInv'
    <2>1. ~ Searching' /\ rpc' \notin {"calc", "done"} /\ rpc \notin {"calc", "done"}
      BY <1>1 DEF Searching
    <2>2. ASSUME NEW j \in 1 .. Len(routes')
          PROVE  /\ GoodRoute(routes'[j])
                 /\ routes'[j] # <<>> => Orders(routes'[j]) = Carries(j - 1)'
      <3>1. j \in 1 .. Len(routes) \/ j = Len(routes) + 1
        BY <1>3, <1>4
      <3>2. Carries(j - 1)' = Carries(j - 1)
        <4>1. j - 1 \in Nat
          BY <1>3, <1>4
        <4> QED
          BY <4>1, <1>1, SameSections
      <3>3. CASE j \in 1 .. Len(routes)
        BY <3>2, <3>3, <1>2, <1>4 DEF RouteInv
      <3>4. CASE j = Len(routes) + 1
        <4>1. j - 1 = Len(routes)
          BY <3>4, <1>3
        <4> QED
          BY <3>2, <3>4, <4>1, <1>3, <1>4
      <3> QED
        BY <3>1, <3>3, <3>4
    <2>3. \A j \in 1 .. Len(routes') :
            /\ GoodRoute(routes[j])'
            /\ routes'[j] # <<>> => Orders(routes[j])' = Carries(j - 1)'
      BY <2>2 DEF GoodRoute, Orders
    <2>4. GoodRoute(best)'
      BY <1>1, <1>3 DEF GoodRoute
    <2> QED
      BY <2>1, <2>3, <2>4, <1>1, <1>2, <1>4 DEF RouteInv
  <1> QED
    BY <1>6, <1>7, <1>8 DEF ResearchInv

\* A step that changes no route, no section in use and not the registry.
LEMMA OtherStep ==
    ASSUME ResearchInv, SplitTypeOK,
           registry' = registry, routes' = routes, first' = first \/ rpc = "calc",
           flg' = flg \/ rpc = "calc", rpc' = "calc" => rpc = "calc",
           Searching' => Searching,
           ControlInv',
           GoodRoute(best)',
           Searching' /\ best' # <<>> => Orders(best') = Carries(Len(routes)),
           relocated' = IF rpc' = "done" THEN [j \in 1 .. NumVehicles |-> Turned(routes[j])]
                        ELSE <<>>
    PROVE  ResearchInv'
  <1>1. RegistryInv /\ ControlInv /\ RouteInv
    BY DEF ResearchInv
  <1>2. RegistryInv'
    BY <1>1 DEF RegistryInv, City
  <1>3. Len(routes) \in Nat /\ (rpc = "calc" => Len(routes) = 0)
    BY <1>1 DEF RouteInv
  <1>4. ASSUME NEW j \in 1 .. Len(routes')
        PROVE  /\ GoodRoute(routes[j])'
               /\ routes'[j] # <<>> => Orders(routes[j])' = Carries(j - 1)'
    <2>1. flg' = flg /\ j \in 1 .. Len(routes)
      BY <1>3
    <2>2. Carries(j - 1)' = Carries(j - 1)
      BY <2>1 DEF Carries, Section, First
    <2>3. GoodRoute(routes[j]) /\ (routes[j] # <<>> => Orders(routes[j]) = Carries(j - 1))
      BY <2>1, <1>1 DEF RouteInv
    <2> QED
      BY <2>2, <2>3 DEF GoodRoute, Orders
  <1>5. Searching' => /\ Carries(Len(routes))' = Carries(Len(routes))
                      /\ Orders(registry.cities)' = Carries(Len(routes))'
                      /\ best' # <<>> => Orders(best)' = Carries(Len(routes))'
    <2> SUFFICES ASSUME Searching'
                 PROVE  /\ Carries(Len(routes))' = Carries(Len(routes))
                        /\ Orders(registry.cities)' = Carries(Len(routes))'
                        /\ best' # <<>> => Orders(best)' = Carries(Len(routes))'
      OBVIOUS
    <2>1. flg' = flg /\ Searching
      BY DEF Searching
    <2>2. Carries(Len(routes))' = Carries(Len(routes))
      BY <2>1 DEF Carries, Section, First
    <2>3. Orders(registry.cities)' = Orders(registry.cities)
      BY DEF Orders
    <2> QED
      BY <2>1, <2>2, <2>3, <1>1 DEF RouteInv, Orders
  <1>6. RouteInv'
    BY <1>1, <1>4, <1>5 DEF RouteInv
  <1> QED
    BY <1>2, <1>6 DEF ResearchInv

LEMMA ResearchInit == Init => ResearchInv
  <1> SUFFICES ASSUME Init PROVE ResearchInv
    OBVIOUS
  <1> DEFINE orders == [o \in 1 .. NumStops |-> o]
  <1>0. NumStops \in Nat /\ NumStops >= 1 /\ NumVehicles >= 1
    BY Constants
  <1>1. /\ registry = AddCity(Empty, orders) /\ rpc = "calc" /\ search = "CRITERIA_STOPPED"
        /\ threads \in {"stopped", "winding"} /\ first = 0 /\ routes = <<>> /\ relocated = <<>>
        /\ best = [p \in 1 .. NumStops |-> registry.cities[StopOrder[p]]]
    BY DEF Init
  <1>2. orders \in Seq(1 .. NumStops) /\ Len(orders) = NumStops /\ DOMAIN orders = 1 .. NumStops
        /\ \A i \in 1 .. NumStops : orders[i] = i
    BY <1>0
  <1> DEFINE none == [o \in DOMAIN orders |-> 0]
             c == [i \in 1 .. NumStops |-> [id |-> i, origin |-> 0, order |-> i]]
  <1>3. none = [o \in 1 .. NumStops |-> 0]
    BY <1>2
  <1>4. registry = [cities |-> c, nextId |-> NumStops]
    <2>1. registry = Register(Empty, orders, none)
      BY <1>1 DEF AddCity
    <2>2. \A i \in 1 .. NumStops : none[i] = 0 /\ orders[i] = i
      BY <1>2, <1>3
    <2> HIDE DEF orders, none
    <2>3. Register(Empty, orders, none) =
            [cities |-> [i \in 1 .. NumStops |-> [id |-> i, origin |-> none[i], order |-> orders[i]]],
             nextId |-> NumStops]
      BY <1>0, <1>2, RegisteredFirst
    <2> QED
      BY <2>1, <2>2, <2>3
  <1>5. registry.cities = c /\ registry.nextId = NumStops
    BY <1>4
  <1>6. \A i \in 1 .. NumStops :
            c[i] \in City /\ c[i].id = i /\ c[i].origin = 0 /\ c[i].order = i
    BY <1>0 DEF City
  <1>7. c \in [1 .. NumStops -> City]
    BY <1>6
  <1>8. Copy[0] = 1
    BY CopyAssumption
  <1> HIDE DEF c
  <1>9. RegistryInv
    <2>1. NumStops \in 1 .. NumStops /\ 1 \in 1 .. NumStops
      BY <1>0
    <2> QED
      BY <2>1, <1>4, <1>5, <1>6, <1>7, <1>8 DEF RegistryInv
  <1>10. GoodRoute(best)
    <2>1. \A p \in 1 .. NumStops : StopOrder[p] \in 1 .. NumStops
      <3>1. StopOrder \in Seq(1 .. NumStops) /\ Len(StopOrder) = NumStops
        BY CopyFacts
      <3> QED
        BY <3>1, ElementOfSeq
    <2>2. DOMAIN best = 1 .. NumStops /\ \A p \in 1 .. NumStops : best[p] = c[StopOrder[p]]
      BY <1>1, <1>5
    <2>3. best \in [1 .. NumStops -> City]
      BY <2>1, <1>1, <1>5, <1>7
    <2>4. best \in Seq(City)
      BY <2>3, <1>0
    <2>5. \A p \in 1 .. NumStops : best[p].id = StopOrder[p] /\ best[p].order = StopOrder[p]
      BY <2>1, <2>2, <1>6
    <2>6. \E p \in 1 .. NumStops : best[p].id = 1
      <3>1. 1 \in 1 .. NumStops /\ StopOrder[1] = 1
        BY <1>0, <1>8 DEF StopOrder
      <3> QED
        BY <3>1, <2>5
    <2>7. ASSUME NEW p \in 1 .. NumStops, NEW q \in 1 .. NumStops, best[p].order = best[q].order
          PROVE  p = q
      <3>1. Copy[p - 1] = Copy[q - 1] /\ p - 1 \in Stops /\ q - 1 \in Stops
        BY <2>5, <2>7, CopyFacts
      <3>2. p - 1 = q - 1
        BY <3>1, CopyFacts
      <3> QED
        BY <3>2
    <2> QED
      BY <2>2, <2>4, <2>5, <2>6, <2>7, <1>8 DEF GoodRoute
  <1>11. ControlInv
    BY <1>0, <1>1 DEF ControlInv, Searching, ThreadStates
  <1>12. RouteInv
    <2>1. Len(routes) = 0 /\ routes \in Seq(Seq(City))
      BY <1>1
    <2>2. \A j \in 1 .. Len(routes) : FALSE
      BY <2>1
    <2> QED
      BY <2>1, <2>2, <1>1, <1>10 DEF RouteInv, Searching
  <1> QED
    BY <1>9, <1>11, <1>12 DEF ResearchInv

LEMMA ResearchStep == ResearchInv /\ SplitTypeOK /\ [Next]_vars => ResearchInv'
  <1> SUFFICES ASSUME ResearchInv, SplitTypeOK, [Next]_vars PROVE ResearchInv'
    OBVIOUS
  <1>0. /\ RegistryInv /\ ControlInv /\ RouteInv /\ GoodRoute(best) /\ Len(routes) \in Nat
        /\ Searching /\ best # <<>> => Orders(best) = Carries(Len(routes))
        /\ relocated = IF rpc = "done" THEN [j \in 1 .. NumVehicles |-> Turned(routes[j])] ELSE <<>>
        /\ rpc = "calc" => routes = <<>>
    BY DEF ResearchInv, RouteInv
  <1>1. CASE Calc
    <2>1. rpc = "calc" /\ UNCHANGED researchVars
      BY <1>1 DEF Calc
    <2>2. ControlInv' /\ ~ Searching'
      BY <2>1, <1>0 DEF researchVars, ControlInv, Searching
    <2>3. GoodRoute(best)'
      BY <2>1, <1>0 DEF researchVars, GoodRoute
    <2> QED
      BY <2>1, <2>2, <2>3, <1>0, OtherStep DEF researchVars
  <1>2. CASE OnResearchDeliveryData
    <2>1. /\ rpc = "calc" /\ rpc' = "register" /\ first' = 1 /\ routes' = <<>> /\ UNCHANGED splitVars
          /\ registry' = registry /\ best' = best /\ search' = search /\ threads' = threads
          /\ relocated' = relocated
      BY <1>2 DEF OnResearchDeliveryData
    <2>2. ControlInv' /\ ~ Searching'
      <3>1. 1 \in 0 .. NumStops /\ 0 < NumVehicles /\ Len(<<>>) = 0
        BY Constants
      <3> QED
        BY <2>1, <3>1, <1>0 DEF ControlInv, Searching
    <2>3. GoodRoute(best)'
      BY <2>1, <1>0 DEF GoodRoute
    <2>4. flg' = flg
      BY <2>1, SameSections
    <2> QED
      BY <2>1, <2>2, <2>3, <2>4, <1>0, OtherStep
  <1>3. CASE RouteBestSearch
    BY <1>3, RouteBestSearchStep
  <1>4. CASE StartAccepted \/ StartIgnored \/ StartHalfFails
    <2>1. /\ rpc = "start" /\ rpc' = "poll" /\ UNCHANGED splitVars /\ search' \in {search, "RUNNING"}
          /\ registry' = registry /\ best' = best /\ threads' \in ThreadStates
          /\ first' = first /\ routes' = routes /\ relocated' = relocated
      BY <1>4, <1>0
      DEF StartAccepted, StartIgnored, StartHalfFails, Starting, ControlInv, ThreadStates
    <2>2. flg' = flg
      BY <2>1, SameSections
    <2>3. ControlInv' /\ Searching
      BY <2>1, <2>2, <1>0 DEF ControlInv, Searching
    <2>4. GoodRoute(best)'
      BY <2>1, <1>0 DEF GoodRoute
    <2> QED
      BY <2>1, <2>2, <2>3, <2>4, <1>0, OtherStep
  <1>5. CASE NewBestChromosome
    <2>1. /\ search = "RUNNING" /\ UNCHANGED splitVars /\ rpc' = rpc /\ search' = search
          /\ registry' = registry /\ best' \in Tours(GetCities(registry)) /\ threads' = threads
          /\ first' = first /\ routes' = routes /\ relocated' = relocated
      BY <1>5 DEF NewBestChromosome
    <2>2. flg' = flg /\ Searching
      BY <2>1, <1>0, SameSections DEF ControlInv, Searching
    <2>3. ControlInv'
      BY <2>1, <2>2, <1>0 DEF ControlInv, Searching
    <2>4. GoodRoute(best') /\ Orders(best') = Orders(registry.cities)
      BY <2>1, <1>0, TourOfRegistry
    <2>5. GoodRoute(best)'
      BY <2>4 DEF GoodRoute
    <2>6. Orders(best') = Carries(Len(routes))
      BY <2>2, <2>4, <1>0 DEF RouteInv
    <2> QED
      BY <2>1, <2>2, <2>3, <2>5, <2>6, <1>0, OtherStep
  <1>6. CASE CriterionStops \/ ThreadsReturn \/ ControlSticks
    <2>1. /\ UNCHANGED splitVars /\ rpc' = rpc /\ search' \in {search, "CRITERIA_STOPPED"}
          /\ registry' = registry /\ best' = best /\ threads' \in ThreadStates
          /\ first' = first /\ routes' = routes /\ relocated' = relocated
      BY <1>6 DEF CriterionStops, ThreadsReturn, ControlSticks, ThreadStates
    <2>2. flg' = flg
      BY <2>1, SameSections
    <2>3. ControlInv'
      BY <2>1, <2>2, <1>0 DEF ControlInv, Searching
    <2>4. GoodRoute(best)'
      BY <2>1, <1>0 DEF GoodRoute
    <2> QED
      BY <2>1, <2>2, <2>3, <2>4, <1>0, OtherStep DEF Searching
  <1>7. CASE CopyRoute
    BY <1>7, CopyRouteStep
  <1>8. CASE OnRelocationVehicleData
    <2>1. /\ rpc = "relocate" /\ rpc' = "done" /\ UNCHANGED splitVars
          /\ relocated' = [j \in 1 .. NumVehicles |-> Turned(routes[j])]
          /\ registry' = registry /\ best' = best /\ search' = search /\ threads' = threads
          /\ first' = first /\ routes' = routes
      BY <1>8 DEF OnRelocationVehicleData
    <2>2. flg' = flg
      BY <2>1, SameSections
    <2>3. ControlInv' /\ ~ Searching'
      BY <2>1, <2>2, <1>0 DEF ControlInv, Searching
    <2>4. GoodRoute(best)'
      BY <2>1, <1>0 DEF GoodRoute
    <2> QED
      BY <2>1, <2>2, <2>3, <2>4, <1>0, OtherStep
  <1>9. CASE NoFirstCity \/ SearchCrashes
    <2>1. /\ rpc \in {"register", "poll"} /\ rpc' = "dead" /\ search' = "CRITERIA_STOPPED"
          /\ threads' \in ThreadStates /\ UNCHANGED splitVars
          /\ registry' = registry /\ best' = best /\ first' = first /\ routes' = routes
          /\ relocated' = relocated
      BY <1>9, <1>0 DEF NoFirstCity, SearchCrashes, Dies, ControlInv, ThreadStates
    <2>2. flg' = flg
      BY <2>1, SameSections
    <2>3. ControlInv' /\ ~ Searching'
      BY <2>1, <2>2, <1>0 DEF ControlInv, Searching
    <2>4. GoodRoute(best)'
      BY <2>1, <1>0 DEF GoodRoute
    <2> QED
      BY <2>1, <2>2, <2>3, <2>4, <1>0, OtherStep
  <1>10. CASE UNCHANGED vars
    <2>1. UNCHANGED splitVars /\ UNCHANGED researchVars
      BY <1>10 DEF vars
    <2>2. flg' = flg
      BY <2>1, SameSections
    <2>3. ControlInv'
      BY <2>1, <2>2, <1>0 DEF researchVars, ControlInv, Searching
    <2>4. GoodRoute(best)'
      BY <2>1, <1>0 DEF researchVars, GoodRoute
    <2> QED
      BY <2>1, <2>2, <2>3, <2>4, <1>0, OtherStep DEF researchVars, Searching
  <1> QED
    BY <1>1, <1>2, <1>3, <1>4, <1>5, <1>6, <1>7, <1>8, <1>9, <1>10 DEF Next, Research

RoutesInv == SplitInv /\ ResearchInv

LEMMA RoutesAreInv == Spec => []RoutesInv
  <1>1. Init => ResearchInv
    BY ResearchInit
  <1>2. SplitInv => SplitTypeOK
    BY DEF SplitInv
  <1>3. SplitInv /\ ResearchInv /\ [Next]_vars => ResearchInv'
    BY <1>2, ResearchStep
  <1>4. Spec => []SplitInv
    BY SplitInside, SplitIsInv, PTL
  <1>5. Spec => []ResearchInv
    BY <1>1, <1>3, <1>4, PTL DEF Spec
  <1> QED
    BY <1>4, <1>5, PTL DEF RoutesInv

\* In a registry that is right, each distance is that of the orders.
LEMMA DistancesAreOwn ==
    ASSUME RegistryInv
    PROVE  OwnDistances
  <1> DEFINE n == registry.nextId
             c == registry.cities
  <1>0. NumStops \in Nat
    BY Constants
  <1>1. /\ n \in 1 .. NumStops /\ c \in [1 .. n -> City] /\ \A i \in 1 .. n : c[i].id = i
        /\ \/ \A i \in 1 .. n : c[i].origin = 0 /\ c[i].order = i
           \/ \A i \in 1 .. n : c[i].origin = c[i].order
    BY DEF RegistryInv
  <1> HIDE DEF n, c
  <1> SUFFICES ASSUME NEW a \in GetCities(registry), NEW b \in GetCities(registry)
               PROVE  DistanceCell(a, b) = <<a.order - 1, b.order - 1>>
    BY DEF OwnDistances, ReadsOwnDistances
  <1>2. PICK i \in 1 .. n : a = c[i]
    BY <1>1 DEF GetCities, c
  <1>3. PICK j \in 1 .. n : b = c[j]
    BY <1>1 DEF GetCities, c
  <1>4. a \in City /\ b \in City
    BY <1>1, <1>2, <1>3
  <1>5. CASE \A k \in 1 .. n : c[k].origin = 0 /\ c[k].order = k
    <2>1. a.origin = 0 /\ a.id = a.order /\ b.id = b.order
      BY <1>1, <1>2, <1>3, <1>5
    <2> QED
      BY <2>1 DEF DistanceCell
  <1>6. CASE \A k \in 1 .. n : c[k].origin = c[k].order
    <2>1. a.origin = a.order /\ b.origin = b.order
      BY <1>2, <1>3, <1>6
    <2>2. a.order \in 1 .. NumStops
      BY <1>4 DEF City
    <2>3. a.origin > 0
      BY <2>1, <2>2, <1>0
    <2> QED
      BY <2>1, <2>3 DEF DistanceCell
  <1> QED
    BY <1>1, <1>5, <1>6

\* Every route that was turned, in terms of the route that was found.
LEMMA TurnedRoutes ==
    ASSUME ResearchInv, rpc = "done", NEW j \in 1 .. NumVehicles
    PROVE  /\ j \in 1 .. Len(routes) /\ relocated[j] = Turned(routes[j])
           /\ GoodRoute(routes[j]) /\ relocated[j] \in Seq(City)
           /\ relocated[j] # <<>> =>
                /\ relocated[j][1].order = Copy[0]
                /\ Orders(relocated[j]) = Carries(j - 1)
                /\ \A p, q \in DOMAIN relocated[j] :
                        relocated[j][p].order = relocated[j][q].order => p = q
  <1>1. Len(routes) = NumVehicles /\ relocated = [k \in 1 .. NumVehicles |-> Turned(routes[k])]
    BY DEF ResearchInv, ControlInv, RouteInv
  <1>2. j \in 1 .. Len(routes) /\ relocated[j] = Turned(routes[j])
    BY <1>1
  <1>3. GoodRoute(routes[j]) /\ (routes[j] # <<>> => Orders(routes[j]) = Carries(j - 1))
    BY <1>2 DEF ResearchInv, RouteInv
  <1> QED
    BY <1>2, <1>3, TurnedRoute

LEMMA ResearchTypes ==
    ASSUME RoutesInv
    PROVE  TypeOK
  <1>0. SplitTypeOK /\ RegistryInv /\ ControlInv /\ RouteInv /\ NumStops \in Nat
    BY Constants DEF RoutesInv, SplitInv, ResearchInv
  <1>1. GetCities(registry) \subseteq City /\ registry.nextId \in 0 .. NumStops
    <2>1. registry.nextId \in 1 .. NumStops /\ registry.cities \in [1 .. registry.nextId -> City]
      BY <1>0 DEF RegistryInv
    <2> QED
      BY <2>1, <1>0 DEF GetCities
  <1>2. relocated \in Seq(Seq(City))
    <2>1. CASE rpc = "done"
      <3>1. \A j \in 1 .. NumVehicles : relocated[j] \in Seq(City)
        BY <2>1, TurnedRoutes DEF RoutesInv
      <3>2. relocated = [j \in 1 .. NumVehicles |-> Turned(routes[j])]
        BY <2>1, <1>0 DEF RouteInv
      <3>3. relocated \in [1 .. NumVehicles -> Seq(City)] /\ NumVehicles \in Nat
        BY <3>1, <3>2, Constants
      <3> HIDE <3>1, <3>2
      <3> QED
        BY <3>3
    <2>2. CASE rpc # "done"
      BY <2>2, <1>0 DEF RouteInv
    <2> QED
      BY <2>1, <2>2
  <1> QED
    BY <1>0, <1>1, <1>2 DEF TypeOK, ControlInv, RouteInv, GoodRoute

\* The sections of two vehicles share no stop.
LEMMA SectionsDisjoint ==
    ASSUME SplitTypeOK, SectionsCoverStops, spc = "found",
           NEW j \in Vehicles, NEW k \in Vehicles, j < k, NEW s \in Section(j)
    PROVE  s \notin Section(k)
  <1>0. /\ NumVehicles \in Nat /\ Vehicles = 0 .. Last /\ Last \in Nat /\ NumStops \in Nat
        /\ j \in Nat /\ k \in Nat /\ k - 1 \in 0 .. Last - 1 /\ j \in 0 .. k - 1
    BY Constants DEF Vehicles, Last
  <1>1. \A i \in Vehicles : flg[i] \in 0 .. NumStops - 1
    <2>1. \A i \in Vehicles : i \in Slots
      BY Constants, ArraysAssumption DEF Vehicles, Slots
    <2> QED
      BY <2>1 DEF SplitTypeOK, Stops
  <1>2. ASSUME NEW i \in 1 .. Last - 1 PROVE flg[i - 1] < flg[i]
    <2>1. i \in Vehicles /\ i - 1 \in Vehicles /\ i # 0 /\ i # Last
      BY <1>0
    <2>2. First(i) = flg[i - 1] + 1 /\ ~ (flg[i] < First(i))
      BY <2>1 DEF SectionsCoverStops, First, Last
    <2> QED
      BY <2>1, <2>2, <1>1
  <1> DEFINE T == {d \in Nat : j + d <= k - 1 => flg[j] <= flg[j + d]}
  <1>3. 0 .. k - 1 - j \subseteq T
    <2>1. 0 \in T
      <3>1. j + 0 = j /\ flg[j] <= flg[j]
        BY <1>0, <1>1
      <3> QED
        BY <3>1
    <2>2. ASSUME NEW d \in 1 .. k - 1 - j, d - 1 \in T PROVE d \in T
      <3>1. /\ d \in Nat /\ j + (d - 1) <= k - 1 /\ j + d \in 1 .. Last - 1
            /\ (j + d) - 1 = j + (d - 1) /\ j + d \in Vehicles /\ j + (d - 1) \in Vehicles
        BY <1>0
      <3>2. flg[j] <= flg[j + (d - 1)]
        BY <2>2, <3>1
      <3>3. flg[j + (d - 1)] < flg[j + d]
        BY <3>1, <1>2
      <3>4. flg[j] <= flg[j + d]
        BY <3>1, <3>2, <3>3, <1>1
      <3> QED
        BY <3>1, <3>4
    <2>3. k - 1 - j \in Nat
      BY <1>0
    <2> HIDE DEF T
    <2> QED
      BY <2>1, <2>2, <2>3, Upwards
  <1>4. flg[j] <= flg[k - 1]
    <2>1. k - 1 - j \in 0 .. k - 1 - j /\ j + (k - 1 - j) = k - 1
      BY <1>0
    <2>2. k - 1 - j \in T
      BY <2>1, <1>3
    <2> QED
      BY <2>1, <2>2, <1>0
  <1>5. First(k) = flg[k - 1] + 1 /\ s <= flg[j] /\ s \in Int
    <2>1. k # 0 /\ First(j) \in Int
      <3>1. j \in Slots
        BY <1>0, ArraysAssumption DEF Last, Slots
      <3>2. First(j) \in 0 .. NumStops
        BY <3>1, <1>0, FirstIsAStop
      <3> QED
        BY <3>2, <1>0
    <2> QED
      BY <2>1, <1>1 DEF First, Section
  <1> QED
    <2>1. flg[k - 1] \in Int /\ flg[j] \in Int
      BY <1>0, <1>1
    <2> QED
      BY <2>1, <1>4, <1>5 DEF Section

\* Every stop is in the section of a vehicle.
LEMMA SectionsCover ==
    ASSUME SplitTypeOK, SectionsCoverStops, spc = "found", NEW s \in Stops
    PROVE  \E k \in Vehicles : s \in Section(k)
  <1>0. /\ NumVehicles \in Nat /\ Vehicles = 0 .. Last /\ Last \in Vehicles /\ NumStops \in Nat
        /\ s \in 0 .. NumStops - 1
    BY Constants DEF Vehicles, Last, Stops
  <1>1. \A i \in Vehicles : flg[i] \in 0 .. NumStops - 1
    <2>1. \A i \in Vehicles : i \in Slots
      BY Constants, ArraysAssumption DEF Vehicles, Slots
    <2> QED
      BY <2>1 DEF SplitTypeOK, Stops
  <1> DEFINE After == {k \in Vehicles : s <= flg[k]}
  <1>2. Last \in After
    <2>1. flg[Last] = NumStops - 1
      BY DEF SectionsCoverStops, Last
    <2> QED
      BY <2>1, <1>0
  <1>3. PICK k \in After : \A i \in After : k <= i
    <2>1. After \in SUBSET Nat /\ After # {}
      BY <1>0, <1>2
    <2> HIDE DEF After
    <2> QED
      BY <2>1, Least
  <1>4. First(k) <= s
    <2>1. k \in Vehicles /\ k \in Nat
      BY <1>0
    <2>2. CASE k = 0
      BY <2>2, <1>0 DEF First
    <2>3. CASE k # 0
      <3>1. k - 1 \in Vehicles /\ ~ (k <= k - 1)
        BY <2>1, <2>3, <1>0
      <3>2. k - 1 \notin After
        BY <3>1, <1>3
      <3>3. flg[k - 1] < s /\ flg[k - 1] \in Int
        BY <3>1, <3>2, <1>0, <1>1
      <3> QED
        BY <2>3, <3>3, <1>0 DEF First
    <2> QED
      BY <2>2, <2>3
  <1>5. s \in Section(k)
    <2>1. First(k) \in Int
      <3>1. k \in Slots
        BY <1>0, ArraysAssumption DEF Last, Slots
      <3>2. First(k) \in 0 .. NumStops
        BY <3>1, FirstIsAStop
      <3> QED
        BY <3>2
    <2> QED
      BY <2>1, <1>0, <1>1, <1>4 DEF Section
  <1> QED
    BY <1>5

\* Who serves a delivery has it in the section.
LEMMA ServedBySection ==
    ASSUME RoutesInv, rpc = "done", NEW s \in Stops \ {0}, NEW j \in 1 .. NumVehicles
    PROVE  j \in Serving(Copy[s]) <=> relocated[j] # <<>> /\ s \in Section(j - 1)
  <1> DEFINE route == relocated[j]
  <1>1. ResearchInv /\ SplitTypeOK
    BY DEF RoutesInv, SplitInv
  <1>2. route \in Seq(City) /\ (route # <<>> => Orders(route) = Carries(j - 1))
    BY <1>1, TurnedRoutes
  <1>3. j \in Serving(Copy[s]) <=> Copy[s] \in Orders(route)
    BY DEF Serving, Orders
  <1>4. Copy[s] \in Carries(j - 1) <=> s \in Section(j - 1)
    <2>1. /\ j - 1 \in Nat /\ j - 1 \in Slots
          /\ NumStops \in Nat /\ 0 \in Stops /\ s \in Stops /\ s # 0
      BY Constants, ArraysAssumption DEF Slots
    <2>2. First(j - 1) \in 0 .. NumStops /\ flg[j - 1] \in 0 .. NumStops - 1
      BY <1>1, <2>1, FirstIsAStop DEF SplitTypeOK, Stops
    <2>3. Section(j - 1) \subseteq Stops
      BY <2>1, <2>2 DEF Section, Stops
    <2>4. \A t \in Stops : Copy[s] = Copy[t] => s = t
      BY <2>1, CopyFacts
    <2> QED
      BY <2>1, <2>3, <2>4 DEF Carries
  <1>5. route = <<>> => Orders(route) = {}
    BY DEF Orders
  <1> QED
    BY <1>2, <1>3, <1>4, <1>5

LEMMA ServedOnce ==
    ASSUME RoutesInv
    PROVE  DeliveredOnce
  <1>0. /\ SplitTypeOK /\ SectionsCoverStops /\ Vehicles = 0 .. NumVehicles - 1
        /\ NumVehicles \in Nat
    BY Constants DEF RoutesInv, SplitInv, Vehicles
  <1> SUFFICES ASSUME rpc = "done", spc = "found", NEW s \in Stops \ {0}
               PROVE  /\ Cardinality(Serving(Copy[s])) <= 1
                      /\ \/ Serving(Copy[s]) # {}
                         \/ \E k \in Vehicles : s \in Section(k) /\ relocated[k + 1] = <<>>
    BY DEF DeliveredOnce
  <1>1. PICK k \in Vehicles : s \in Section(k)
    BY <1>0, SectionsCover
  <1>2. /\ k \in Int /\ k + 1 \in 1 .. NumVehicles /\ (k + 1) - 1 = k
    BY <1>0
  <1>3. Serving(Copy[s]) \subseteq {k + 1}
    <2> SUFFICES ASSUME NEW j \in Serving(Copy[s]) PROVE j = k + 1
      OBVIOUS
    <2>1. j \in 1 .. NumVehicles
      BY DEF Serving
    <2>2. s \in Section(j - 1)
      BY <2>1, ServedBySection
    <2>3. j - 1 \in Vehicles /\ j - 1 \in Int
      BY <2>1, <1>0
    <2>4. ~ (j - 1 < k)
      BY <2>2, <2>3, <1>0, <1>1, SectionsDisjoint
    <2>5. ~ (k < j - 1)
      BY <2>2, <2>3, <1>0, <1>1, SectionsDisjoint
    <2> QED
      BY <2>1, <2>3, <2>4, <2>5, <1>2
  <1>4. Cardinality(Serving(Copy[s])) <= 1
    <2>1. IsFiniteSet({k + 1}) /\ Cardinality({k + 1}) = 1
      BY FS_Singleton
    <2>2. Cardinality(Serving(Copy[s])) <= Cardinality({k + 1})
      BY <2>1, <1>3, FS_Subset
    <2> QED
      BY <2>1, <2>2
  <1>5. Serving(Copy[s]) # {} \/ relocated[k + 1] = <<>>
    <2>1. k + 1 \in Serving(Copy[s]) <=> relocated[k + 1] # <<>> /\ s \in Section((k + 1) - 1)
      BY <1>2, ServedBySection
    <2> QED
      BY <2>1, <1>1, <1>2
  <1> QED
    BY <1>1, <1>4, <1>5

LEMMA AllTurned ==
    ASSUME RoutesInv
    PROVE  RoutesStartAtDepot
  BY TurnedRoutes DEF RoutesInv, RoutesStartAtDepot

-----------------------------------------------------------------------------
(***************************************************************************)
(* The state of Steps 05 to 07 keeps its types: the counters of            *)
(* OnCalcDeliveryData stay in their limits (nIndex is limited only by the  *)
(* stops, not by the arrays), and so does _nSearchIndexStart of Step06.    *)
(***************************************************************************)
THEOREM RoutesType == Spec => []TypeOK
  BY RoutesAreInv, ResearchTypes, PTL

(***************************************************************************)
(* routeBestSearch registers cities anew for each vehicle, and still every *)
(* search reads the distances between the orders its cities stand for.     *)
(***************************************************************************)
THEOREM DistancesKept == Spec => []OwnDistances
  <1>1. RoutesInv => RegistryInv
    BY DEF RoutesInv, ResearchInv
  <1> QED
    BY <1>1, RoutesAreInv, DistancesAreOwn, PTL

(***************************************************************************)
(* What OnRelocationVehicleData leaves in _bestRouteEachRelocation begins  *)
(* at the depot and visits each order once, whichever searches ended       *)
(* without a route or were never started.                                  *)
(***************************************************************************)
THEOREM RoutesFromDepot == Spec => []RoutesStartAtDepot
  BY RoutesAreInv, AllTurned, PTL

(***************************************************************************)
(* After a split no two of the routes OnResearchDeliveryData collects      *)
(* share a delivery, and a delivery on none belongs to a vehicle whose     *)
(* search found no route.                                                  *)
(***************************************************************************)
THEOREM RoutesDeliverOnce == Spec => []DeliveredOnce
  BY RoutesAreInv, ServedOnce, PTL
=============================================================================
