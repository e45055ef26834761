---------------------------- MODULE TspCrossover ----------------------------
(***************************************************************************)
(* TspCrossover::operator() of TspAlgorithm.cpp: the greedy crossover that *)
(* breeds a delivery route from two parent routes.  A parent is an array   *)
(* of N city pointers; the operator walks from city to city, at each city  *)
(* probing the two ring neighbours the city has in each parent, and keeps  *)
(* one boolean array per parent ("taken") that says which positions of     *)
(* that parent have been used.  Nothing but these two arrays prevents a    *)
(* city from being delivered twice or from being forgotten.                *)
(*                                                                         *)
(* Definitions marked "Mutant" are no part of the model: each replaces the *)
(* definition below it to show that a property can fail.                   *)
(*                                                                         *)
(* One step of the model is one turn of the while( 1 ) loop.  The boolean  *)
(* arrays are the sets of their true indices; positions are 0-based.       *)
(***************************************************************************)
EXTENDS Integers, Sequences

CONSTANTS City,     \* the cities registered in TspCities
          N,        \* TspCities::GetCount()
          Dist      \* Dist[a, b]: TspCity::GetDistance, a matrix of floats

Pos == 0 .. N - 1

\* An array that holds every city exactly once.
Tours == { p \in [Pos -> City] :
              /\ \A i, j \in Pos : p[i] = p[j] => i = j
              /\ \A c \in City : \E i \in Pos : p[i] = c }

\* With a single city the operator reads taken[ 1 ] of a one-element array.
ASSUME NAssumption == N \in Nat /\ N >= 2
ASSUME DistAssumption == Dist \in [City \X City -> Int]

VARIABLES parent,       \* parent[1], parent[2]: the chromosomes p1 and p2
          taken,        \* taken[1], taken[2]: taken_form_first, taken_from_second
          child,        \* the code of the new chromosome
          currentCity,
          pc            \* "loop" while in while( 1 ), then "done"

vars == <<parent, taken, child, currentCity, pc>>

Parents == {1, 2}

\* The index of the last occurrence of c in p, or -1 (TspChromosome).
GetCityPosition(p, c) ==
    IF \E i \in Pos : p[i] = c
    THEN CHOOSE i \in Pos : p[i] = c /\ \A j \in Pos : j > i => p[j] # c
    ELSE -1

Left(i)  == IF i = 0 THEN N - 1 ELSE i - 1
Right(i) == IF i = N - 1 THEN 0 ELSE i + 1

(***************************************************************************)
(* The four probes of one turn, in the order the loop makes them: left and *)
(* right of the current city in the second parent, then in the first.      *)
(***************************************************************************)
Probes == 1 .. 4
Owner(k) == IF k <= 2 THEN 2 ELSE 1
ProbeAt(k, pos) == IF k \in {1, 3} THEN Left(pos[Owner(k)]) ELSE Right(pos[Owner(k)])
ProbeCity(k, pos) == parent[Owner(k)][ProbeAt(k, pos)]
\* Mutant: a probe does not look at the taken array.
AllProbes(pos, t) == Probes
OpenProbes(pos, t) == {k \in Probes : ProbeAt(k, pos) \notin t[Owner(k)]}

\* Mutant: the comparison of the distances is the wrong way round.
SelectFarthest(k, pos, t) ==
    /\ k \in OpenProbes(pos, t)
    /\ \A m \in OpenProbes(pos, t) :
          Dist[currentCity, ProbeCity(k, pos)] >= Dist[currentCity, ProbeCity(m, pos)]

\* SelectNextCity keeps its choice unless a later probe is strictly nearer.
SelectNextCity(k, pos, t) ==
    /\ k \in OpenProbes(pos, t)
    /\ \A m \in OpenProbes(pos, t) :
          LET dk == Dist[currentCity, ProbeCity(k, pos)]
              dm == Dist[currentCity, ProbeCity(m, pos)]
          IN  dk < dm \/ (dk = dm /\ k <= m)

Here == [o \in Parents |-> GetCityPosition(parent[o], currentCity)]
\* Mutants: the second array is forgotten; the index is off by one.
MarkedFirstOnly(pos) == [taken EXCEPT ![1] = @ \cup {pos[1]}]
MarkedNextPosition(pos) == [o \in Parents |-> taken[o] \cup {pos[o] + 1}]
Marked(pos) == [o \in Parents |-> taken[o] \cup {pos[o]}]

Init ==
    /\ parent \in [Parents -> Tours]
    /\ taken = [o \in Parents |-> {}]
    /\ child = << >>
    /\ \E i \in Pos : currentCity = parent[1][i]
    /\ pc = "loop"

\* What every turn does: insert the current city and mark it in both parents.
Insert ==
    /\ pc = "loop"
    /\ child' = Append(child, currentCity)
    /\ taken' = Marked(Here)
    /\ UNCHANGED parent

\* Some neighbour is free: go to the nearest one.
GoToNeighbour ==
    /\ Insert
    /\ \E k \in Probes :
          /\ SelectNextCity(k, Here, Marked(Here))
          /\ currentCity' = ProbeCity(k, Here)
    /\ UNCHANGED pc

\* Mutant: without the scan, the loop breaks as soon as no neighbour is free.
BreakWithoutScan ==
    /\ Insert
    /\ OpenProbes(Here, Marked(Here)) = {}
    /\ pc' = "done"
    /\ UNCHANGED currentCity

\* No neighbour is free: scan the first parent from a random place for any
\* position that is not taken; the random start makes every one possible.
JumpToFreeCity ==
    /\ Insert
    /\ OpenProbes(Here, Marked(Here)) = {}
    /\ \E i \in Pos \ Marked(Here)[1] : currentCity' = parent[1][i]
    /\ UNCHANGED pc

\* Mutant: the break is missing, and the loop spins on the last city.
Spin ==
    /\ pc = "loop"
    /\ Pos \subseteq Marked(Here)[1]
    /\ UNCHANGED vars

\* Nothing is left in the first parent either.
Finish ==
    /\ Insert
    /\ OpenProbes(Here, Marked(Here)) = {}
    /\ Pos \subseteq Marked(Here)[1]
    /\ pc' = "done"
    /\ UNCHANGED currentCity

Next == GoToNeighbour \/ JumpToFreeCity \/ Finish

Spec == Init /\ [][Next]_vars
FairSpec == Spec /\ WF_vars(Next)

-----------------------------------------------------------------------------
(***************************************************************************)
(* Properties.                                                             *)
(***************************************************************************)
Visited == {child[i] : i \in DOMAIN child}

TypeOK ==
    /\ parent \in [Parents -> Tours]
    /\ taken \in [Parents -> SUBSET Pos]
    /\ child \in Seq(City)
    /\ currentCity \in City
    /\ pc \in {"loop", "done"}

\* The two taken arrays of operator() never drift apart: each marks exactly
\* the places that the cities already in the child have in its parent.
TakenMatchesChild ==
    \A o \in Parents : taken[o] = {i \in Pos : parent[o][i] \in Visited}

\* No turn of the loop delivers to a city a second time.
NoCityTwice ==
    /\ \A i, j \in DOMAIN child : child[i] = child[j] => i = j
    /\ pc = "loop" => currentCity \notin Visited

\* When operator() returns, no city has been forgotten, although the loop
\* stops by looking at the first parent only.
NoCityForgotten == pc = "done" => Visited = City

\* The child of operator() inherits the best edge it can: it leaves a city for
\* the nearest neighbour, in either parent, that it has not visited so far, and
\* leaves the parents' edges only when all of those neighbours are behind it.
RingNeighbours(p, c) ==
    {d \in City : \E i, j \in Pos : p[i] = c /\ p[j] = d /\ (j - i) % N \in {1, N - 1}}

InheritsNearestEdge ==
    \A i \in DOMAIN child :
        LET before == {child[j] : j \in 1 .. i}
            choices == (RingNeighbours(parent[1], child[i])
                          \cup RingNeighbours(parent[2], child[i])) \ before
            next == IF i < Len(child) THEN child[i + 1] ELSE currentCity
        IN  choices = {} \/ ( /\ next \in choices
                              /\ \A d \in choices : Dist[child[i], next] <= Dist[child[i], d] )

\* operator() always returns: each turn of while( 1 ) uses up one city.
Termination == <>(pc = "done")

\* operator() is a tour builder: every turn visits one unvisited city, and it
\* finishes exactly when the last one has been visited.
Builder == INSTANCE TourBuilder WITH tour <- child, finished <- (pc = "done")
BuildsATour == Builder!Spec
=============================================================================
