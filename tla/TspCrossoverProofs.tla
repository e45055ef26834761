------------------------- MODULE TspCrossoverProofs -------------------------
(***************************************************************************)
(* For every number of cities N >= 2, every distance matrix and every pair *)
(* of parent tours: the crossover never visits a city twice, it returns    *)
(* only when it has visited every city, and it implements TourBuilder.     *)
(***************************************************************************)
EXTENDS TspCrossover, TLAPS

IInv == TypeOK /\ TakenMatchesChild /\ NoCityTwice /\ NoCityForgotten

\* In a tour, GetCityPosition finds the one place of every city.
LEMMA PositionInTour ==
    ASSUME NEW p \in Tours, NEW c \in City
    PROVE  /\ GetCityPosition(p, c) \in Pos
           /\ p[GetCityPosition(p, c)] = c
           /\ \A i \in Pos : p[i] = c => i = GetCityPosition(p, c)
  <1>1. PICK i \in Pos : p[i] = c
    BY DEF Tours
  <1>2. \A j \in Pos : p[j] = c => j = i
    BY <1>1 DEF Tours
  <1>3. \A j \in Pos : j > i => p[j] # c
    BY <1>2 DEF Pos
  <1>4. \E k \in Pos : p[k] = c /\ \A j \in Pos : j > k => p[j] # c
    BY <1>1, <1>3
  <1>5. GetCityPosition(p, c) = CHOOSE k \in Pos : p[k] = c /\ \A j \in Pos : j > k => p[j] # c
    BY <1>1 DEF GetCityPosition
  <1>6. GetCityPosition(p, c) \in Pos /\ p[GetCityPosition(p, c)] = c
    BY <1>4, <1>5
  <1> QED
    BY <1>2, <1>6

\* The four probes look at positions of the arrays, never outside them.
LEMMA ProbeInRange ==
    ASSUME TypeOK, NEW k \in Probes
    PROVE  /\ Owner(k) \in Parents
           /\ ProbeAt(k, Here) \in Pos
           /\ ProbeCity(k, Here) \in City
  <1>1. Owner(k) \in Parents
    BY DEF Owner, Parents
  <1>2. parent[Owner(k)] \in Tours
    BY <1>1 DEF TypeOK
  <1>3. Here[Owner(k)] \in Pos
    BY <1>1, <1>2, PositionInTour DEF Here, TypeOK
  <1>4. ProbeAt(k, Here) \in Pos
    BY <1>3, NAssumption DEF ProbeAt, Left, Right, Pos
  <1>5. parent[Owner(k)][ProbeAt(k, Here)] \in City
    BY <1>2, <1>4 DEF Tours
  <1> QED
    BY <1>1, <1>4, <1>5 DEF ProbeCity

\* What one Insert does to the child and to the taken arrays.
LEMMA InsertVisits ==
    ASSUME IInv, Insert
    PROVE  /\ child' \in Seq(City)
           /\ Visited' = Visited \cup {currentCity}
           /\ \A i, j \in DOMAIN child' : child'[i] = child'[j] => i = j
           /\ taken' \in [Parents -> SUBSET Pos]
           /\ TakenMatchesChild'
  <1> USE DEF IInv, Insert
  <1>1. currentCity \in City /\ child \in Seq(City) /\ currentCity \notin Visited
    BY DEF TypeOK, NoCityTwice
  <1>2. child' \in Seq(City)
    BY <1>1
  <1>3. /\ DOMAIN child = 1 .. Len(child)
        /\ DOMAIN child' = 1 .. Len(child) + 1
        /\ \A i \in 1 .. Len(child) : child'[i] = child[i]
        /\ child'[Len(child) + 1] = currentCity
        /\ Len(child) \in Nat
    BY <1>1
  <1>4. Visited' = Visited \cup {currentCity}
    BY <1>3 DEF Visited
  <1>5. \A i, j \in DOMAIN child' : child'[i] = child'[j] => i = j
    BY <1>1, <1>3 DEF Visited, NoCityTwice
  <1>6. ASSUME NEW o \in Parents
        PROVE  /\ Here[o] \in Pos
               /\ taken'[o] = {i \in Pos : parent[o][i] \in Visited'}
    <2>1. parent[o] \in Tours
      BY DEF TypeOK
    <2>2. /\ Here[o] \in Pos
          /\ \A i \in Pos : parent[o][i] = currentCity <=> i = Here[o]
      BY <1>1, <2>1, PositionInTour DEF Here
    <2>3. taken'[o] = taken[o] \cup {Here[o]}
      BY DEF Marked
    <2>4. taken[o] = {i \in Pos : parent[o][i] \in Visited}
      BY DEF TakenMatchesChild
    <2> QED
      BY <1>4, <2>2, <2>3, <2>4
  <1>7. taken' \in [Parents -> SUBSET Pos]
    BY <1>6 DEF Marked, TypeOK
  <1>8. TakenMatchesChild'
    BY <1>6 DEF TakenMatchesChild
  <1> QED
    BY <1>2, <1>4, <1>5, <1>7, <1>8

\* Going on, by an inherited edge or by a jump, goes on to an unvisited city.
LEMMA NextCityIsFree ==
    ASSUME IInv, GoToNeighbour \/ JumpToFreeCity
    PROVE  /\ currentCity' \in City
           /\ currentCity' \notin Visited'
  <1>1. Insert /\ TypeOK
    BY DEF GoToNeighbour, JumpToFreeCity, IInv
  <1>2. taken' = Marked(Here) /\ TakenMatchesChild' /\ parent' = parent
    BY <1>1, InsertVisits DEF Insert
  <1>3. CASE GoToNeighbour
    <2>1. PICK k \in Probes : /\ ProbeAt(k, Here) \notin taken'[Owner(k)]
                              /\ currentCity' = ProbeCity(k, Here)
      BY <1>2, <1>3 DEF GoToNeighbour, SelectNextCity, OpenProbes
    <2>2. /\ Owner(k) \in Parents
          /\ ProbeAt(k, Here) \in Pos
          /\ currentCity' \in City
          /\ currentCity' = parent[Owner(k)][ProbeAt(k, Here)]
      BY <1>1, <2>1, ProbeInRange DEF ProbeCity
    <2> QED
      BY <1>2, <2>1, <2>2 DEF TakenMatchesChild
  <1>4. CASE JumpToFreeCity
    <2>1. PICK i \in Pos : i \notin taken'[1] /\ currentCity' = parent[1][i]
      BY <1>2, <1>4 DEF JumpToFreeCity
    <2>2. parent[1] \in Tours
      BY <1>1 DEF TypeOK, Parents
    <2> QED
      BY <1>2, <2>1, <2>2 DEF TakenMatchesChild, Parents, Tours
  <1> QED
    BY <1>3, <1>4

\* The loop stops by looking at the first parent only, yet every city is in.
LEMMA FinishVisitsAll ==
    ASSUME IInv, Finish
    PROVE  Visited' = City
  <1>1. Insert /\ TypeOK
    BY DEF Finish, IInv
  <1>2. taken' = Marked(Here) /\ TakenMatchesChild' /\ parent' = parent /\ child' \in Seq(City)
    BY <1>1, InsertVisits DEF Insert
  <1>3. parent[1] \in Tours
    BY <1>1 DEF TypeOK, Parents
  <1>4. \A i \in Pos : parent[1][i] \in Visited'
    BY <1>2 DEF Finish, TakenMatchesChild, Parents
  <1>5. City \subseteq Visited'
    BY <1>3, <1>4 DEF Tours
  <1>6. Visited' \subseteq City
    BY <1>2 DEF Visited
  <1> QED
    BY <1>5, <1>6

LEMMA InitIInv == Init => IInv
  <1> SUFFICES ASSUME Init PROVE IInv
    OBVIOUS
  <1> USE DEF Init
  <1>1. parent[1] \in Tours
    BY DEF Parents
  <1>2. TypeOK
    BY <1>1 DEF TypeOK, Tours, Parents
  <1>3. Visited = {}
    BY DEF Visited
  <1>4. TakenMatchesChild
    BY <1>3 DEF TakenMatchesChild
  <1>5. NoCityTwice /\ NoCityForgotten
    BY <1>3 DEF NoCityTwice, NoCityForgotten
  <1> QED
    BY <1>2, <1>4, <1>5 DEF IInv

LEMMA NextIInv == IInv /\ [Next]_vars => IInv'
  <1> SUFFICES ASSUME IInv, [Next]_vars PROVE IInv'
    OBVIOUS
  <1>1. CASE GoToNeighbour \/ JumpToFreeCity
    <2>1. Insert /\ pc' = "loop"
      BY <1>1 DEF GoToNeighbour, JumpToFreeCity, Insert
    <2>2. TypeOK'
      BY <1>1, <2>1, InsertVisits, NextCityIsFree DEF IInv, TypeOK, Insert
    <2>3. NoCityTwice' /\ NoCityForgotten'
      BY <1>1, <2>1, InsertVisits, NextCityIsFree DEF NoCityTwice, NoCityForgotten
    <2> QED
      BY <2>1, <2>2, <2>3, InsertVisits DEF IInv
  <1>2. CASE Finish
    <2>1. Insert /\ pc' = "done" /\ currentCity' = currentCity
      BY <1>2 DEF Finish
    <2>2. TypeOK'
      BY <2>1, InsertVisits DEF IInv, TypeOK, Insert
    <2>3. NoCityTwice' /\ NoCityForgotten'
      BY <1>2, <2>1, InsertVisits, FinishVisitsAll DEF NoCityTwice, NoCityForgotten
    <2> QED
      BY <2>1, <2>2, <2>3, InsertVisits DEF IInv
  <1>3. CASE UNCHANGED vars
    BY <1>3 DEF vars, IInv, TypeOK, TakenMatchesChild, NoCityTwice, NoCityForgotten, Visited
  <1> QED
    BY <1>1, <1>2, <1>3 DEF Next

LEMMA InductiveInvariant == Spec => []IInv
  BY InitIInv, NextIInv, PTL DEF Spec

\* The variables of operator() keep their types; in particular no array is
\* indexed outside 0 .. N - 1.
THEOREM TypeCorrect == Spec => []TypeOK
  BY InductiveInvariant, PTL DEF IInv

\* No stop is visited twice by a child route.
THEOREM ChildVisitsNoCityTwice == Spec => []NoCityTwice
  BY InductiveInvariant, PTL DEF IInv

\* No stop is missing from a child route that operator() returns.
THEOREM ChildForgetsNoCity == Spec => []NoCityForgotten
  BY InductiveInvariant, PTL DEF IInv

\* The taken arrays and the child agree at every turn of the loop.
THEOREM TakenArraysMatchChild == Spec => []TakenMatchesChild
  BY InductiveInvariant, PTL DEF IInv

-----------------------------------------------------------------------------
(***************************************************************************)
(* The inherited edges.  The walk looks at positions of the parent arrays, *)
(* the property at the ring the arrays stand for: the two are brought      *)
(* together first.                                                         *)
(***************************************************************************)

\* The places beside i on the ring are Left( i ) and Right( i ).
LEMMA PlacesBeside ==
    ASSUME NEW i \in Pos, NEW j \in Pos
    PROVE  (j - i) % N \in {1, N - 1} <=> j \in {Left(i), Right(i)}
  <1>1. N \in Nat /\ N >= 2 /\ i \in 0 .. N - 1 /\ j \in 0 .. N - 1
    BY NAssumption DEF Pos
  <1>2. CASE j >= i
    <2>1. (j - i) % N = j - i
      BY <1>1, <1>2
    <2> QED
      BY <1>1, <1>2, <2>1 DEF Left, Right
  <1>3. CASE j < i
    <2>1. (j - i) % N = j - i + N
      BY <1>1, <1>3
    <2> QED
      BY <1>1, <1>3, <2>1 DEF Left, Right
  <1> QED
    BY <1>1, <1>2, <1>3

\* A city's neighbours on the ring stand beside it in the array.
LEMMA NeighboursInArray ==
    ASSUME NEW p \in Tours, NEW c \in City
    PROVE  RingNeighbours(p, c) =
             {p[Left(GetCityPosition(p, c))], p[Right(GetCityPosition(p, c))]}
  <1>1. PICK i \in Pos : i = GetCityPosition(p, c)
    BY PositionInTour
  <1>2. \A k \in Pos : p[k] = c <=> k = i
    BY <1>1, PositionInTour
  <1>3. Left(i) \in Pos /\ Right(i) \in Pos
    BY NAssumption DEF Pos, Left, Right
  <1>4. RingNeighbours(p, c) = {d \in City : \E j \in Pos : p[j] = d /\ (j - i) % N \in {1, N - 1}}
    BY <1>2 DEF RingNeighbours
  <1>5. \A j \in Pos : (j - i) % N \in {1, N - 1} <=> j \in {Left(i), Right(i)}
    BY PlacesBeside
  <1>6. \A j \in Pos : p[j] \in City
    BY DEF Tours
  <1>7. RingNeighbours(p, c) = {p[Left(i)], p[Right(i)]}
    BY <1>3, <1>4, <1>5, <1>6
  <1> QED
    BY <1>1, <1>7

\* The neighbours of the current city in the two parents.
Beside == RingNeighbours(parent[1], currentCity) \cup RingNeighbours(parent[2], currentCity)

\* The four probes are the neighbours in the two parents; those that are open
\* are the ones that the child does not hold.
LEMMA OpenProbesAreFree ==
    ASSUME IInv, Insert
    PROVE  Beside \ Visited' = {ProbeCity(k, Here) : k \in OpenProbes(Here, Marked(Here))}
  <1>1. TypeOK /\ currentCity \in City /\ parent[1] \in Tours /\ parent[2] \in Tours
    BY DEF IInv, TypeOK, Parents
  <1>2. Beside = {parent[1][Left(Here[1])], parent[1][Right(Here[1])],
                  parent[2][Left(Here[2])], parent[2][Right(Here[2])]}
    BY <1>1, NeighboursInArray DEF Beside, Here, Parents
  <1>3. Beside = {ProbeCity(k, Here) : k \in Probes}
    <2>1. Probes = {1, 2, 3, 4}
      BY DEF Probes
    <2>2. /\ ProbeCity(1, Here) = parent[2][Left(Here[2])]
          /\ ProbeCity(2, Here) = parent[2][Right(Here[2])]
          /\ ProbeCity(3, Here) = parent[1][Left(Here[1])]
          /\ ProbeCity(4, Here) = parent[1][Right(Here[1])]
      BY DEF ProbeCity, ProbeAt, Owner
    <2> QED
      BY <1>2, <2>1, <2>2
  <1>4. taken' = Marked(Here) /\ TakenMatchesChild' /\ parent' = parent
    BY InsertVisits DEF Insert
  <1>5. ASSUME NEW k \in Probes
        PROVE  k \in OpenProbes(Here, Marked(Here)) <=> ProbeCity(k, Here) \notin Visited'
    <2>1. Owner(k) \in Parents /\ ProbeAt(k, Here) \in Pos
      BY <1>1, ProbeInRange
    <2> QED
      BY <1>4, <2>1 DEF OpenProbes, ProbeCity, TakenMatchesChild
  <1> QED
    BY <1>3, <1>5 DEF OpenProbes

\* The turn that leaves the i-th city of the child, as InheritsNearestEdge
\* states it: where it could go, where it went, and that this was nearest.
Choices(i) ==
    (RingNeighbours(parent[1], child[i]) \cup RingNeighbours(parent[2], child[i]))
       \ {child[j] : j \in 1 .. i}
LeftFor(i) == IF i < Len(child) THEN child[i + 1] ELSE currentCity
WentNearest(i) ==
    Choices(i) = {} \/ ( /\ LeftFor(i) \in Choices(i)
                         /\ \A d \in Choices(i) :
                               Dist[child[i], LeftFor(i)] <= Dist[child[i], d] )

\* A turn takes the nearest open probe, if there is one.
LEMMA TurnGoesNearest ==
    ASSUME IInv, Next, Beside \ Visited' # {}
    PROVE  /\ currentCity' \in Beside \ Visited'
           /\ \A d \in Beside \ Visited' : Dist[currentCity, currentCity'] <= Dist[currentCity, d]
  <1>1. Insert /\ TypeOK /\ currentCity \in City
    BY DEF Next, GoToNeighbour, JumpToFreeCity, Finish, IInv, TypeOK
  <1> DEFINE open == OpenProbes(Here, Marked(Here))
  <1>2. Beside \ Visited' = {ProbeCity(k, Here) : k \in open}
    BY <1>1, OpenProbesAreFree
  <1>3. GoToNeighbour
    <2>1. open # {}
      BY <1>2
    <2> QED
      BY <2>1 DEF Next, JumpToFreeCity, Finish
  <1>4. PICK k \in Probes : SelectNextCity(k, Here, Marked(Here)) /\ currentCity' = ProbeCity(k, Here)
    BY <1>3 DEF GoToNeighbour
  <1>5. \A m \in open : Dist[currentCity, ProbeCity(m, Here)] \in Int
    <2>1. \A m \in open : ProbeCity(m, Here) \in City
      BY <1>1, ProbeInRange DEF OpenProbes
    <2> QED
      BY <1>1, <2>1, DistAssumption
  <1>6. k \in open /\ \A m \in open : Dist[currentCity, ProbeCity(k, Here)] <= Dist[currentCity, ProbeCity(m, Here)]
    <2> DEFINE far(m) == Dist[currentCity, ProbeCity(m, Here)]
    <2>1. k \in open /\ \A m \in open : far(k) < far(m) \/ (far(k) = far(m) /\ k <= m)
      BY <1>4 DEF SelectNextCity
    <2>2. \A m \in open : far(m) \in Int
      BY <1>5
    <2> HIDE DEF far, open
    <2>3. \A m \in open : far(k) <= far(m)
      BY <2>1, <2>2
    <2> QED
      BY <2>1, <2>3 DEF far
  <1> HIDE DEF open
  <1> QED
    BY <1>2, <1>4, <1>6

LEMMA NextNearest ==
    ASSUME IInv, Next, \A i \in DOMAIN child : WentNearest(i)
    PROVE  (\A i \in DOMAIN child : WentNearest(i))'
  <1>1. Insert /\ child \in Seq(City)
    BY DEF Next, GoToNeighbour, JumpToFreeCity, Finish, IInv, TypeOK
  <1>2. /\ Len(child) \in Nat /\ DOMAIN child = 1 .. Len(child)
        /\ Len(child') = Len(child) + 1 /\ DOMAIN child' = 1 .. Len(child) + 1
        /\ \A i \in 1 .. Len(child) : child'[i] = child[i]
        /\ child'[Len(child) + 1] = currentCity
        /\ parent' = parent
    BY <1>1 DEF Insert
  <1>3. ASSUME NEW i \in 1 .. Len(child) PROVE WentNearest(i)'
    <2>1. \A j \in 1 .. i : child'[j] = child[j]
      BY <1>2
    <2>2. {child'[j] : j \in 1 .. i} = {child[j] : j \in 1 .. i} /\ child'[i] = child[i]
      BY <2>1, <1>2
    <2>3. Choices(i)' = Choices(i)
      BY <2>2, <1>2 DEF Choices
    <2>4. LeftFor(i)' = LeftFor(i)
      BY <1>2 DEF LeftFor
    <2> QED
      BY <2>2, <2>3, <2>4, <1>2 DEF WentNearest
  <1>4. ASSUME NEW i, i = Len(child) + 1 PROVE WentNearest(i)'
    <2>1. child'[i] = currentCity /\ LeftFor(i)' = currentCity'
      BY <1>2, <1>4 DEF LeftFor
    <2>2. Visited' = {child'[j] : j \in 1 .. i}
      BY <1>2, <1>4 DEF Visited
    <2>3. Choices(i)' = Beside \ Visited'
      BY <2>1, <2>2, <1>2 DEF Choices, Beside
    <2>4. CASE Beside \ Visited' = {}
      BY <2>3, <2>4 DEF WentNearest
    <2>5. CASE Beside \ Visited' # {}
      <3>1. /\ currentCity' \in Beside \ Visited'
            /\ \A d \in Beside \ Visited' : Dist[currentCity, currentCity'] <= Dist[currentCity, d]
        BY <2>5, TurnGoesNearest
      <3> QED
        BY <2>1, <2>3, <3>1 DEF WentNearest
    <2> QED
      BY <2>4, <2>5
  <1> QED
    BY <1>2, <1>3, <1>4

\* At every city of the child where a neighbour in either parent was still
\* unvisited, operator() went on to the nearest of them.
THEOREM ChildInheritsNearestEdges == Spec => []InheritsNearestEdge
  <1> DEFINE Inv == \A i \in DOMAIN child : WentNearest(i)
  <1>1. Init => Inv
    BY DEF Init
  <1>2. IInv /\ Inv /\ [Next]_vars => Inv'
    <2> SUFFICES ASSUME IInv, Inv, [Next]_vars PROVE Inv'
      OBVIOUS
    <2>1. CASE Next
      BY <2>1, NextNearest
    <2>2. CASE UNCHANGED vars
      <3>1. parent' = parent /\ child' = child /\ currentCity' = currentCity
        BY <2>2 DEF vars
      <3>2. ASSUME NEW i PROVE Choices(i)' = Choices(i) /\ LeftFor(i)' = LeftFor(i)
        BY <3>1 DEF Choices, LeftFor
      <3>3. ASSUME NEW i, WentNearest(i) PROVE WentNearest(i)'
        BY <3>1, <3>2, <3>3 DEF WentNearest
      <3> QED
        BY <3>1, <3>3
    <2> QED
      BY <2>1, <2>2
  <1>3. Inv => InheritsNearestEdge
    BY DEF InheritsNearestEdge, WentNearest, Choices, LeftFor
  <1> HIDE DEF Inv
  <1> QED
    BY <1>1, <1>2, <1>3, InductiveInvariant, PTL DEF Spec

LEMMA InitRefines == Init => Builder!Init
  BY DEF Init, Builder!Init

LEMMA StepRefines == IInv /\ IInv' /\ [Next]_vars => [Builder!Visit]_(Builder!bvars)
  <1> SUFFICES ASSUME IInv, IInv', [Next]_vars PROVE [Builder!Visit]_(Builder!bvars)
    OBVIOUS
  <1>1. Builder!Visited = Visited
    BY DEF Builder!Visited, Visited
  <1>2. ASSUME Insert, pc' = "done" <=> Visited' = City
        PROVE  Builder!Visit
    <2>1. pc = "loop" /\ child' = Append(child, currentCity)
      BY <1>2 DEF Insert
    <2>2. currentCity \in City \ Visited
      BY <2>1 DEF IInv, TypeOK, NoCityTwice
    <2>3. Visited' = Visited \cup {currentCity}
      BY <1>2, InsertVisits
    <2> QED
      BY <1>1, <1>2, <2>1, <2>2, <2>3 DEF Builder!Visit
  <1>3. CASE GoToNeighbour \/ JumpToFreeCity
    BY <1>2, <1>3, NextCityIsFree DEF GoToNeighbour, JumpToFreeCity, Insert
  <1>4. CASE Finish
    BY <1>2, <1>4, FinishVisitsAll DEF Finish
  <1>5. CASE UNCHANGED vars
    BY <1>5 DEF vars, Builder!bvars
  <1> QED
    BY <1>3, <1>4, <1>5 DEF Next

\* TspCrossover::operator() implements the abstract tour builder.
THEOREM ImplementsTourBuilder == Spec => Builder!SafeSpec
  BY InitRefines, StepRefines, InductiveInvariant, PTL DEF Spec, Builder!SafeSpec
=============================================================================
