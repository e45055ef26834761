----------------------------- MODULE VehicleRoutes -----------------------------
(***************************************************************************)
(* Steps 05 to 07 one after the other, as t_function would call them: the  *)
(* split of VehicleSplit, then OnResearchDeliveryData, which has the route *)
(* of each vehicle searched again over the depot and its section, and      *)
(* OnRelocationVehicleData, which turns every route so that it begins at   *)
(* the depot.  The cities of each search are registered anew in            *)
(* CityRegistry.  The search itself is what GaSolver does: it publishes    *)
(* tours of the registered cities until the state is CRITERIA_STOPPED.     *)
(* A start that comes before the threads of the search before have         *)
(* returned, or that cannot create its threads, leaves the state as it     *)
(* was; if it came as far as starting control, control forks workers that  *)
(* are not there and waits for them with both locks held, and the next     *)
(* start waits for control.                                                *)
(* Definitions marked "Mutant" are no part of the model.                   *)
(***************************************************************************)
EXTENDS VehicleSplit, CityRegistry, FiniteSets

CONSTANT Copy   \* _bestChromosomeCopy: the order at each stop, by its id

ASSUME CopyAssumption ==
    /\ Copy \in [Stops -> 1 .. NumStops]
    /\ \A s, t \in Stops : Copy[s] = Copy[t] => s = t
    /\ Copy[0] = 1

VARIABLES
    rpc,        \* where Steps 06 and 07 are
    registry,   \* TspCities
    best,       \* TSPView::_bestChromosome, a sequence of cities
    search,     \* GaAlgorithmState of the search
    threads,    \* of the search: "stopped", or "winding" after one that is over,
                \* or control alone is there, about to fork ("half") or "stuck"
    first,      \* _nSearchIndexStart
    routes,     \* _bestRouteEachResult
    relocated   \* _bestRouteEachRelocation

researchVars == <<rpc, registry, best, search, threads, first, routes, relocated>>
vars == <<splitVars, researchVars>>

StopOrder == [p \in 1 .. NumStops |-> Copy[p - 1]]
Tours(cities) == {t \in [1 .. Cardinality(cities) -> cities] :
                    \A c \in cities : \E p \in DOMAIN t : t[p] = c}

\* Steps 01 to 04 are over: Step02 has registered the orders as they were
\* loaded, and Step03 has returned, so that the search has stopped.
Init ==
    /\ SplitInit
    /\ rpc = "calc"
    /\ registry = AddCity(Empty, [o \in 1 .. NumStops |-> o])
    /\ best = [p \in 1 .. NumStops |-> registry.cities[StopOrder[p]]]
    /\ search = "CRITERIA_STOPPED"
    /\ threads \in {"stopped", "winding"}
    /\ first = 0
    /\ routes = <<>> /\ relocated = <<>>

-----------------------------------------------------------------------------
Calc ==
    /\ rpc = "calc"
    /\ SplitNext
    /\ UNCHANGED researchVars

\* Step06 begins, whatever Step05 returned.
OnResearchDeliveryData ==
    /\ rpc = "calc" /\ spc \in {"found", "ended"}
    /\ search = "CRITERIA_STOPPED"
    /\ first' = 1
    /\ routes' = <<>>
    /\ rpc' = "register"
    /\ UNCHANGED <<splitVars, registry, best, search, threads, relocated>>

\* Mutant: the counter goes on where the search before left it.
ClearedOnly == Clear(registry)
FreshRegistry == ResetNextId(Clear(registry))

\* routeBestSearch: the depot and the section of the next vehicle are
\* registered and the best route is emptied.
RouteBestSearch ==
    /\ rpc = "register"
    /\ LET section == SubSeq(StopOrder, first + 1, flg[Len(routes)] + 1)
       IN  registry' = AddCityExt(FreshRegistry, <<Copy[0]>> \o section)
    /\ best' = <<>>
    /\ rpc' = "start"
    /\ UNCHANGED <<splitVars, search, threads, first, routes, relocated>>

\* The process ends, and the threads of the search with it.
Dies ==
    /\ rpc' = "dead"
    /\ search' = "CRITERIA_STOPPED" /\ threads' = "stopped"
    /\ UNCHANGED <<splitVars, registry, best, first, routes, relocated>>

\* The counter is reset through the first city of the best route.  If the
\* search before was not started there is none; the counter is static, so that
\* reading the vector is all that can go wrong.
NoFirstCity == rpc = "register" /\ best = <<>> /\ Dies

\* StartSolving takes the state lock, which control keeps once it is stuck.
Starting == rpc = "start" /\ threads # "stuck"

StartAccepted ==
    /\ Starting /\ threads = "stopped"
    /\ search' = "RUNNING"
    /\ rpc' = "poll"
    /\ UNCHANGED <<splitVars, registry, best, threads, first, routes, relocated>>

\* See GaSolver!StartFails: the old state stays.  Control itself could not be
\* created, or is still there.
StartIgnored ==
    /\ Starting
    /\ rpc' = "poll"
    /\ UNCHANGED <<splitVars, registry, best, search, threads, first, routes, relocated>>

\* Control was started, a worker not: it could not be created, or has not
\* returned from the search before as control has.
StartHalfFails ==
    /\ Starting /\ threads \in {"stopped", "winding"}
    /\ threads' = "half"
    /\ rpc' = "poll"
    /\ UNCHANGED <<splitVars, registry, best, search, first, routes, relocated>>

\* See GaSolver!BlockStateChange, ForkWorkers and JoinWorkers: no worker will
\* post the join event.
ControlSticks ==
    /\ threads = "half"
    /\ threads' = "stuck"
    /\ UNCHANGED <<splitVars, rpc, registry, best, search, first, routes, relocated>>

NewBestChromosome ==
    /\ search = "RUNNING"
    /\ best' \in Tours(GetCities(registry))
    /\ UNCHANGED <<splitVars, rpc, registry, search, threads, first, routes, relocated>>

CriterionStops ==
    /\ search = "RUNNING" /\ best # <<>>
    /\ search' = "CRITERIA_STOPPED"
    /\ threads' = "winding"
    /\ UNCHANGED <<splitVars, rpc, registry, best, first, routes, relocated>>

\* The crossover of a single city, the depot, reads and marks a second one.
SearchCrashes ==
    /\ search = "RUNNING" /\ Cardinality(GetCities(registry)) = 1
    /\ Dies

ThreadsReturn ==
    /\ threads = "winding" /\ spc # "dead"
    /\ threads' = "stopped"
    /\ UNCHANGED <<splitVars, rpc, registry, best, search, first, routes, relocated>>

\* Mutant: the last stop of a section is given to the next vehicle as well.
NextFirstAgain == first' = flg[Len(routes)]
NextFirst == first' = flg[Len(routes)] + 1

\* Mutant: the polling loop waits for a route.
RoutePublished == search = "CRITERIA_STOPPED" /\ best # <<>>
SearchIsOver == search = "CRITERIA_STOPPED"

\* The best route is copied as soon as the state says that the search is over.
CopyRoute ==
    /\ rpc = "poll" /\ SearchIsOver
    /\ routes' = Append(routes, best)
    /\ NextFirst
    /\ rpc' = IF Len(routes') = NumVehicles THEN "relocate" ELSE "register"
    /\ UNCHANGED <<splitVars, registry, best, search, threads, relocated>>

\* Step07: the part before the city with id 1 goes to the end.
FirstIndex(r) == IF \E p \in DOMAIN r : r[p].id = 1
                 THEN CHOOSE p \in DOMAIN r : r[p].id = 1 ELSE 1
Turned(r) == IF r = <<>> THEN r
             ELSE SubSeq(r, FirstIndex(r), Len(r)) \o SubSeq(r, 1, FirstIndex(r) - 1)

OnRelocationVehicleData ==
    /\ rpc = "relocate"
    /\ relocated' = [j \in 1 .. NumVehicles |-> Turned(routes[j])]
    /\ rpc' = "done"
    /\ UNCHANGED <<splitVars, registry, best, search, threads, first, routes>>

Research ==
    \/ OnResearchDeliveryData \/ RouteBestSearch \/ NoFirstCity
    \/ StartAccepted \/ StartIgnored \/ StartHalfFails
    \/ CopyRoute \/ OnRelocationVehicleData

Next ==
    \/ Calc \/ Research
    \/ NewBestChromosome \/ CriterionStops \/ SearchCrashes
    \/ ThreadsReturn \/ ControlSticks

Spec == Init /\ [][Next]_vars

\* The calling thread goes on; a running search publishes a first best route
\* and stops in the end (GaSolver!SearchEnds).
FairSpec ==
    /\ Spec
    /\ WF_vars(Research)
    /\ WF_vars(best = <<>> /\ NewBestChromosome)
    /\ WF_vars(CriterionStops)

-----------------------------------------------------------------------------
ThreadStates == {"stopped", "winding", "half", "stuck"}
City == [id : 1 .. NumStops, origin : 0 .. NumStops, order : 1 .. NumStops]

TypeOK ==
    /\ SplitTypeOK
    /\ rpc \in {"calc", "register", "start", "poll", "relocate", "done", "dead"}
    /\ GetCities(registry) \subseteq City /\ registry.nextId \in 0 .. NumStops
    /\ best \in Seq(City)
    /\ search \in {"RUNNING", "CRITERIA_STOPPED"} /\ threads \in ThreadStates
    /\ first \in 0 .. NumStops
    /\ routes \in Seq(Seq(City)) /\ relocated \in Seq(Seq(City))

(***************************************************************************)
(* After a split no delivery is on the route of two vehicles, and one that *)
(* is on no route is in a section whose search was not started.            *)
(***************************************************************************)
Serving(o) == {j \in 1 .. NumVehicles : \E p \in DOMAIN relocated[j] : relocated[j][p].order = o}

DeliveredOnce ==
    rpc = "done" /\ spc = "found" =>
        \A s \in Stops \ {0} :
            /\ Cardinality(Serving(Copy[s])) <= 1
            /\ \/ Serving(Copy[s]) # {}
               \/ \E k \in Vehicles : s \in Section(k) /\ relocated[k + 1] = <<>>

(***************************************************************************)
(* Every route that was found begins at the depot and visits each of its   *)
(* cities once, although the ids begin anew with each vehicle.             *)
(***************************************************************************)
RoutesStartAtDepot ==
    rpc = "done" =>
        \A j \in 1 .. NumVehicles : relocated[j] # <<>> =>
            /\ relocated[j][1].order = Copy[0]
            /\ \A p, q \in DOMAIN relocated[j] :
                    relocated[j][p].order = relocated[j][q].order => p = q

(***************************************************************************)
(* Whichever ids a search uses, it is given the distances between the      *)
(* orders its cities stand for.                                            *)
(***************************************************************************)
OwnDistances == ReadsOwnDistances(registry)

(***************************************************************************)
(* Once Step05 has returned, Steps 06 and 07 come to an end, if not with   *)
(* the process: whether the search of a vehicle was started or not.  Only  *)
(* a start that failed between control and its workers keeps them from it: *)
(* StartSolving then waits for the lock of a thread that waits for ever.   *)
(***************************************************************************)
BlockedByControl == rpc = "start" /\ threads = "stuck"

ResearchEnds == (spc \in {"found", "ended"}) ~> (rpc \in {"done", "dead"} \/ BlockedByControl)
=============================================================================
