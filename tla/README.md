# TLA+ models of tspSimple

tspSimple plans the tour of one delivery vehicle. It reads the orders of the
vehicle from a MySQL database, searches a short tour with a multithreaded
genetic algorithm and writes the tour back. This directory holds TLA+ modules
of its core, the TLC configurations that check them, and proofs that TLAPS
checks. Paths below are relative to `src/TSP/`.

## 1. The system

| Component | State | Operations | Interaction |
|---|---|---|---|
| `TSP.cpp` (`main`, `t_function`) | command line, the view object | create the thread, run Steps 01, 02, 03, 04, 08 in order | calls `TSPView`; ignores the results of the steps except for printing them |
| `TspView.cpp` Step01 `OnLoadDeliveryData` | `_vectorOrderData`, `_vectorMutualData`, `nCountOrderData` | count, fetch, fetch details, fetch n x n distances | reads `vehicleAllocateResult`, `vehicleGuestOrderData`, `vehicleGuestMutualDistance` |
| Step02 `OnSetDeliveryData` | `TspCities` | `AddCity` for each order | fills the registry that chromosomes and distances use |
| Step03 `OnSearchDeliveryData` | `_bestChromosome` (written by the observer callback) | start the search, poll its state every two seconds | client of the genetic library |
| Step04 `OnRelocationDeliveryData` | `_bestChromosomeCopy` | rotate the best tour so that city 1 comes first | reads what the search published |
| Step08 `OnVehicleDataInsert` | rows of `vehicleAllocateResult` | DELETE, one INSERT per order, renumber rows in error | two connections, no transaction |
| Step05 `OnCalcDeliveryData` | `nVehicleFlg`, `nVehiclePay`, `nVehiclePayIndex` | cut the route into one section per vehicle | reads the pays from `vehicleGuestOrderData`; its call is commented out |
| Step06 `OnResearchDeliveryData`, `routeBestSearch` | `_bestRouteEachResult`, `TspCities` | one search per vehicle over the depot and its section | restarts the search of Step03; its call is commented out |
| Step07 `OnRelocationVehicleData` | `_bestRouteEachRelocation` | turn each route to its depot | its call is commented out |
| `TspCity.*` | id -> city map, static id counter | add, remove, clear, look up, distance | shared by the search threads |
| `TspAlgorithm.*` | chromosome code, genetic configuration | shuffle, greedy crossover, fitness, construction and destruction of the algorithm | called back by the library |
| `inc/Algorithm.h`, `MultithreadingAlgorithm.h`, `IncrementalAlgorithm.h` | algorithm state, two locks, fork and join semaphores | start, stop, pause, resume, stop criteria, parameter changes, control and worker loops | control, workers and client share the population |
| `inc/StopCriterias.h` | count of failed generations | evaluate once per generation | called by control |
| `inc/Threading.h`, `SmartPtr.h` | threads, semaphores, spin locks, reference counts | start, abort, lock, copy | below everything else |
| `inc/Population.h` and the operation headers | chromosomes, sorted groups | selection, coupling, replacement, scaling | used by control and workers |

What makes it hard:

* **Interleavings.** Client, control and workers share chromosomes that have no
  lock. The client reads `_bestChromosome` without one, after polling a state.
* **Wake-ups.** Control and workers meet through anonymous permits; an "event"
  of the library is a semaphore.
* **Restarts.** Threads of a finished search return some time after the state
  says that the search is over.
* **One table is input and output.** Step08 deletes the rows of the vehicle and
  enters them again one by one; a later run reads whatever is there.
* **Errors do not stop a run.** Every step runs, whatever failed before it.
* **Several processes** run for different vehicles at the same time.
* **Boundaries.** The tour is a ring (crossover, rotation, last leg), arrays are
  sized by one query and filled by another, counters are compared to limits.

`PROJECT.json` lists every component with its status and every hazard with its
line and the properties that watch it.

### What makes each component correct

* Crossover: a child is a permutation of the cities, takes the nearest free edge
  of its parents, and the `while( 1 )` loop ends.
* Search: one user of the population at a time; no permit survives a round; the
  best tour is published before the search is announced as over; it is over at
  some point; stop, pause and parameter changes act between generations.
* A run of the program: no delivery is lost or entered twice; what is in the
  table is always the beginning of one tour; every run ends whose search could start.
* Vehicle split: the sections cover the stops in order, their pays add up.
* Search per vehicle: every delivery is on one route at most, a route begins at
  the depot, and distances are those of the orders whatever ids a search uses.
* Population: every offspring slot is filled once, no duplicate gets in, the
  elite never worsens, and only progress is reported.
* Smart pointers: nothing is used after it was freed, and nothing leaks.

## 2. The modules

| Module | What it is |
|---|---|
| `TspCrossover` | `TspCrossover::operator()`, one step per turn of the loop |
| `TourBuilder` | abstract: a tour grows by one new city at a time and is returned when complete |
| `TspCrossoverProofs` | TLAPS: safety, nearest edges and refinement for any number of cities |
| `GaSolver` | control, workers and client of the multithreaded search |
| `SearchService` | abstract: what Step04 relies on when it reads the answer |
| `GaSolverProofs` | TLAPS: exclusion, round safety, publication and refinement for any number of workers |
| `DeliveryDispatch` | processes of the program over the shared tables |
| `DeliveryLedger` | abstract: the deliveries of a vehicle are taken off and entered again, none lost |
| `DeliveryDispatchProofs` | TLAPS: no delivery lost or doubled, tables are tours, and the refinement, for any data and processes |
| `CityRegistry` | operators: `TspCities` with its static id counter, and which cell of the matrix a distance reads |
| `VehicleSplit` | Step05, `OnCalcDeliveryData` |
| `VehicleRoutes` | Steps 05 to 07 in a row: composes `VehicleSplit`, `CityRegistry` and a search |
| `VehicleSplitProofs` | TLAPS: the sections cover the stops, the pays add up, when calling itself is in vain |
| `VehicleRoutesProofs` | TLAPS: each delivery on one route, routes from the depot, distances of the right orders |
| `Generation` | one generation of the genetic algorithm: selection, the workers' shares, replacement |
| `GenerationProofs` | TLAPS: every slot is filled once, elitism, no twins, only progress is reported |
| `SmartStorage` | reference counts under the threads of one search |
| `SmartStorageProofs` | TLAPS: no use after free and no leak, for any numbers of threads and objects |
| `SharedLemmas` | lemmas the proofs share: least elements, functions defined from their start, rotations of a sequence |
| `MCTspCrossover`, `MCGaSolver`, `MCDeliveryDispatch`, `MCVehicleRoutes`, `MCGeneration`, `MCSmartStorage` | instances for TLC |

The modules build on each other by abstraction. `TspCrossover` shows that
crossover keeps chromosomes tours, so `GaSolver` treats a chromosome as a value
with a length. `GaSolver` shows that the search ends with a published answer
(`SearchService`), so the step `Search` of `DeliveryDispatch` leaves any tour of
the loaded cities, and a search of `VehicleRoutes` publishes tours until it stops.
It also shows what a start does that fails: the state stays as it was
(`restart_ignored`), which `DeliveryDispatch!StartFails` and
`VehicleRoutes!StartIgnored` take over, and control may be left waiting for its
workers with both locks (`VehicleRoutes!StartHalfFails`). `Generation` shows what
`GaSolver!Replacement` assumes of the best chromosome, and `GaSolver` shows that
the workers and control take turns, which `Generation` and `SmartStorage` assume.

### TspCrossover

The state is the C++ locals: `child` (`newCode`), `currentCity`, `indexOfCity`
as positions found anew (`GetCityPosition`), `parent`, and the two `taken`
arrays as the set of marked positions of each parent. The four neighbours that a
turn looks at are the `Probes` (left and right in either parent, with
wrap-around). `Insert` is the first half of the loop body, and
`GoToNeighbour`, `JumpToFreeCity` and `Finish` are its three ways on. The random
start city is a choice in `Init`; equal distances are resolved in the order of
the code (`SelectNextCity` compares strictly). One city (N = 1) is excluded here:
`operator()` then reads `taken[ 1 ]` of an array of one element. What that means for
the program is in `DeliveryDispatch` and `VehicleRoutes` (`SearchCrashes`: it may go
well or end the process).

### GaSolver

Thread 0 is control. Its places in `pc` are the calls of `ControlFlow`: block
parameter changes, block state changes, `BeforeWorkers` and the fork permits,
the join, `AfterWorkers`, `CheckStopCriteria`, and the releases. A worker waits
for a permit, reads the state, works or quits, and counts itself out; the last
one posts the join event. The client makes the calls of `GaAlgorithm` in any
order (`Calls`, at most `MaxCalls`), then polls, reads the result and returns
from `main`, where the static `TSP` object destroys the threads.

The bodies of `StartSolving`, `ControlFlow`, `WorkFlow` and their helpers are not
in the repository as source. `lib/libGeneticLibrary.a` holds them compiled, and
the headers in `inc/` declare and document them; definitions that stand for
those bodies are marked external in `PROJECT.json`: among others the fork and the
join of `ControlFlow`, the permits of `WorkFlow`, and `Evaluate`, whose order of test
and count the compiled code shows. A chromosome is a model value
with a fitness. Of selection, breeding and replacement only what elitism
guarantees is kept (`Replacement`); the rest is in `Generation`.

### DeliveryDispatch

`alloc` is `vehicleAllocateResult`. A row has the order (deguest), the origin of
its leg (guest), vehicle, location, error flag and index; `by` is no column but
tells rows apart that differ in `vr_seq` only. `mem[p]` is the memory of process
p, lost when it ends. Every SQL statement that reads or writes `alloc` is one
action; the tables that the program only reads are constants. `LoadFails` is the
early return of Step01 at any statement, after which `t_function` goes on;
`WriteFails` the early returns of Step08; `Crash` the death of the process at any
point, including null results that are read (`strcpy` of a missing row). A search
with no city or no distance matrix ends the process (`SearchCrashes`: division
by the number of cities, or an index past the matrix), one with a single city may.
A start of the search that fails leaves the process in the `while( 1 )` of Step03
for good (`StartFails`, the place `poll`): from there only `Crash` leads out.

Several processes may run for one vehicle, and they overlap in any way. Three ghost
variables record what has happened. `torn` are the processes that read rows of
their vehicle while another run was between DELETE and last INSERT, or had a DELETE
come between their two queries. `spoilt` are the vehicles of which a run ended
between DELETE and last INSERT, or that a torn process rewrote: their deliveries may
be gone for good. `raced` are the vehicles in which two runs wrote at a time; the
next run that deletes alone takes the vehicle off again.

`DataAssumption` names what the program takes for granted of the data. Each part
is needed: with another order at the address of the depot, for instance, the
last leg enters the depot alone and the other order is gone from the table. An order
with an address in error may be of a group. Step01 leaves it out (its queries filter
`ve_errorJusoFlag`, also within a group), while Step08 expands the group without the
filter (`Deliveries`) and so enters it with a row of its own beside the one marked as in
error, which survives the DELETE. The next run finds the new row. If the order has
other coordinates than its group, it is one more city then, and both legs are
expanded to the whole group. `NoOrderTwice` admits exactly these second rows
(`Dragged`, `Strewn`), and `OrdersKept` these additions.
The INSERTs of Step08 do not set `vr_errorJusoFlag`; the repository does not show the
table, and the model takes the column for one whose default is neither NULL nor 'Y'.
With another default the program would not find its own rows again.

### VehicleSplit and VehicleRoutes

The state of `VehicleSplit` is the locals and arrays of `OnCalcDeliveryData`, and
`spc` says where it is. `ReadPays` is the first half of the function, `NextStop`
one turn of the `for` loop; `TooManySections`, `TooFewSections`,
`LastSectionEmpty` and `SectionsFit` are the branches after it, each with the end
of the `while` body (`NextTurn`). `nVehiclePayIndex` is filled from a row that was
freed with its result: what it holds is a choice for each stop (`PossibleReads`),
the sum just fetched, if the allocator gives the same memory again, or any of
`Garbage`; or the process dies in reading it (`ReadCrashes`). The arrays of sections
have `ArraySize` ints, 512 in the code. A pass closes as many sections as it finds and
compares their number with the vehicles only afterwards, so one behind the end is
written where nobody reads it (`Put`) or ends the process (`ArraysOverrun`).
`reads` keeps what each call has read. When the function calls
itself the arrays keep what the call before left in them, which is why a last
section without a stop can be accepted (`SectionsCoverStops` says so).

`VehicleRoutes` adds Steps 06 and 07 in the order of the calls that `t_function`
has commented out; results are ignored there as everywhere. `registry` is
`TspCities`, `best` the vector that the observer callback fills, `search` and
`threads` what is left of `GaSolver`: the state a client can poll, and whether
threads of the search before are still about to return. `StartIgnored` is a start
that meets them or cannot create control; `StartHalfFails` one that has created
control when a worker refuses. Control then takes both locks, forks workers that are
not there and waits (`ControlSticks`), and the next `StartSolving` waits for it. After an
ignored start `_bestChromosome` is empty when `routeBestSearch` reads its first
element, which may end the process (`NoFirstCity`), as may the search of a section
without a stop (`SearchCrashes`).

### Generation

One action for each virtual function of `GaIncrementalAlgorithm`; `WorkStep(w)` is
one mating of worker w, so that workers interleave. Ranks are positions in the
sorted population, and `parents` holds ranks as the selection result set does.
`ReplaceGroup` takes the replaced chromosomes out and inserts the offspring one by
one at any place that sorting allows; at a tie it stays behind the protected
ranks. `writes` is a ghost variable that counts how often a slot was filled.

### SmartStorage

`todo[t]` is the list of pointer operations that thread t has still to make
(`CopyConstructor`, `Assign`, `Destructor`, making an object, comparing), and `at[t]`
says how far it is with the first of them: a step is one access to a count or a
pointer. `WorkStep` gives a worker the operations of one mating; `RemoveDuplicates`,
`ReplaceGroup` and `KeepBest` give control those of replacement, one chromosome after
the other, along a `plan` that `AfterWorkers` chooses. An object is an address, which
can be used again after it was freed.
There are no locks in the model: expanded for GCC, `SPINLOCK` is
`while( !__sync_val_compare_and_swap( .., 0, 1 ) )`, which goes round once more
when it took the lock and passes when another thread holds it.

## 3. The runs

| Run | Question | Instance |
|---|---|---|
| `crossover` | permutation, nearest edge, termination, refinement of `TourBuilder` | 5 cities, parent 1 fixed, any parent 2, asymmetric distances with ties |
| `search` | ends, publishes first, never publishes worse, implements `SearchService`, threads return | 2 workers, 3 chromosomes, history depth 2, one start |
| `lifecycle` | exclusion, round barrier, parameter changes, publication | 2 workers, any 4 calls, thread creation may fail |
| `dispatch` | no delivery lost or doubled, tours chain, numbering, every run ends, implements `DeliveryLedger` | 2 vehicles at 2 locations, 3 + 2 orders, a group at one address, 2 orders in error of which one is in a group but lies elsewhere, a missing distance, each process run twice, any fault |
| `dispatch_shared` | what overlapping runs for one vehicle can and cannot spoil | 4 orders: the depot and a group at one address, one of it in error; two processes (symmetric), each run twice, any fault |
| `vehicles` | sections cover the stops, pays add up, when calling itself helps, routes per vehicle, distances, Steps 06 and 07 end | 3 vehicles, 4 stops, sections of at most 3, arrays of 3, pays 6 and 20, garbage 6, 2 turns per call, 2 calls, any failed start |
| `generation` | slots, duplicates, elite, reporting | population of 4 with elite 2, 3 workers for 3 slots, 2 replaced, a tie in fitness |
| `pointers` | use after free, leaks | 2 workers with a slot each, population of 2, 6 addresses (symmetric) |
| `restart_ignored` | **violated**: a start takes effect | 1 worker, 2 calls |
| `patience` | **violated**: the search stops after the history depth | 1 worker |
| `teardown` | **violated**: a destructor stops the thread it destroys | 1 worker |
| `dispatch_report` | **violated**: "Complete" means written | as `dispatch`, one run each |

The violated properties are statements of the library's documentation or of the
program's own output; `PROJECT.json` quotes them under `findings`.

* `restart_ignored`: `StartSolving` called as soon as the state is
  `GAS_CRITERIA_STOPPED` meets threads that have not returned. `GaThread::Start`
  refuses, the old state is put back and the caller learns nothing. The program
  as shipped starts one search per process; `routeBestSearch` would start one per
  vehicle in just this way.
* `patience`: `historyDepth` + 1 failed generations are needed.
* `teardown`: `~GaThread` ends the destroying thread when the other one runs.
* `dispatch_report`: Step08 returns 0 when it cannot connect.

### Bounds

Each bound is a constant. Five cities are enough for both wrap-arounds of the
ring, for a turn that finds all four neighbours taken (`JumpToFreeCity`) and for
ties; a jump that has a choice of two free cities needs seven, and the
proofs cover it. Two workers are enough for one to take the other's permit. History
depth 2 separates "reached", "exceeded" and "reset". Four calls cover start,
pause, resume, stop with a parameter change between. `generation` is counted to 2
because only "the first" matters. Two runs per process cover a run
over the whole output and over a truncated output of an earlier one; the second run
of a vehicle also finds the order in error that the first one entered, which makes
its third city and a leg that is neither first nor last. In `dispatch_shared` two
runs of each process are enough for a torn read, a rewriting from it, and a third
and fourth run over what is left. In `vehicles` the average has to be
moved both up and down, the last section can be empty, there can be more sections
than the arrays hold, a split can be found in
the last turn before the function calls itself, and a second call can be
needed; the code's 130 turns, 11 stops and 512 ints are `Turns`, `MaxInner` and
`ArraySize`. Three vehicles make a section that is neither first nor last, and
let a start fail half way with another one to come. In `generation` three workers for
three slots leave one worker without a slot, and rounding gives the first one two.
Six addresses in `pointers` are as many as can be in use at once: population,
buffer and one child for each worker. The populations and counters of `Generation`
and `SmartStorage` are finite, so these runs cover any number of generations.

`generation` and `pointers` check for deadlock. The other runs do not:
the program ends, and a thread creation that failed leaves control waiting for a
worker that does not exist.

### Fairness

`GaSolver!FairSpec`: control, every worker, every thread wrapper and the client
are weakly fair, as threads of a preemptive scheduler. Weak fairness suffices for
the locks because with a single client nobody can take a lock again and again
before control gets it in the checked instance. `DeliveryDispatch!FairSpec`: a
running process takes its next step; starting a process and all faults
are not fair. `TspCrossover!FairSpec` likewise runs its loop. Step03's polling loop is fair
progress of the client in `GaSolver`; in `DeliveryDispatch` the step `Search` is
enabled once and for all, which is what `SearchEnds` justifies for a start that
succeeds. After one that fails nothing ends the polling, and `EveryRunEnds` says so: a
run ends or is at `poll`.
`VehicleRoutes!FairSpec`: the calling thread goes on, and a search that was started
publishes a first route and stops, again by `SearchEnds`.
Nothing is assumed of `ThreadsReturn` or of a start being accepted. `ResearchEnds`
has one exception: a start that has to wait for the lock of a control thread that
waits for workers that were never created. A start that is ignored altogether, the
common case of `restart_ignored`, does not keep Steps 06 and 07 from ending.

## 4. The proofs

All theorems hold for every value of the constants that satisfies the named
assumptions.

`TspCrossoverProofs` (from `NAssumption`: at least two cities, and parents that
are tours). The invariant is `TypeOK /\ TakenMatchesChild /\ NoCityTwice /\
NoCityForgotten`. `NoCityTwice` is not inductive: a city is skipped because its
position is marked, so the arrays must describe the child exactly
(`TakenMatchesChild`), which in turn needs that `GetCityPosition` finds the one
place of a city (`PositionInTour`). From it follow `TypeCorrect`,
`ChildVisitsNoCityTwice`, `ChildForgetsNoCity`, `TakenArraysMatchChild`, and `ImplementsTourBuilder`, the safety part of the refinement.
`ChildInheritsNearestEdges` also uses `DistAssumption` and keeps `WentNearest` for every
turn, not only the last: the probes of a turn are the ring neighbours of the city
in the two parents (`PlacesBeside`), the open ones those whose city the child does
not have yet (`OpenProbesAreFree`), and later turns only append to the child.

`GaSolverProofs` (from at least one worker and a positive history depth). The
invariant `IInv` adds to the types: who can be where (`PlacesDiffer`), locks and
places agree (`LocksHeld`), started threads had returned
(`StoppedHaveReturned`), a generation past the join is in the state RUNNING
(`RunningInGeneration`), and the counting argument `PermitsAddUp`: while control
waits, `workersIn` is the number of permits not yet taken plus the number of
workers inside, and the join event is posted exactly when it is zero. It is
needed because permits are anonymous; no statement about a single worker is
inductive. Results for any calls: `TypeCorrect`, `PopulationHasOneUser`,
`RoundsDoNotMix`, `ParametersChangeBetweenRounds`, `PublishesWhileRunning`.

Three more hold for the calls the program makes, one fresh start (`OneSearch`; Step03
has the only `StartSolving`). `SearchInv` says that what is published is the best of
the population or nothing, and nothing only before the first generation is over,
which it will be once control has passed the fork in the state RUNNING. Results:
`AnswerIsTheBest`, `PublishedOnlyImproves`, and `ImplementsSearchService`, which also
needs that threads can be created: a start that fails goes back from "searching".
For arbitrary calls they are false: a fresh start that fails puts the state
CRITERIA_STOPPED back over a population that is new.

`DeliveryDispatchProofs` (from `DataAssumption` and the types of the constants). The
invariant has three layers, each proved with those below it. `MemInv` holds whatever
overlaps: types (`DispatchType`), which rows a vehicle can have (`RowsTrue`: its own
orders and those in error that its groups drag along), and what a process can hold
(`OwnOrders`, `InOrder`): one order for each address, or a blank. It bounds the number of
a row by the number of orders, from which `DispatchTypes`.

`KeepInv` follows the deliveries. A process that is not torn has loaded a list that
covers all deliveries owed (`Loading`, `Wholly`), which needs that the depot, the least
order number, stands for itself only (`ListingCovers`) and that the rotation of Step04
keeps a tour a tour (`RotatedTour`). `Owing` says that each delivery is in the table or
still to be entered by one of those who write; it is needed because two processes
that write at a time delete each other's rows, and only the later one has all of
them still before it. `DeliveriesInHand` is this layer, `DeliveriesKept` follows, and
`ImplementsLedger`: each step changes one vehicle at most, in one of the ways the
ledger knows.

`TourInv` follows the numbers of the rows for vehicles that are not raced, where one
process at most is rewriting: which row of which leg has which number, that the rows in
error it has not fetched yet keep theirs and those it has updated are numbered without
a gap behind the tour, and of a vehicle nobody is writing that its rows are one tour.
The rows in error must be followed from the first run on, because they survive the
DELETE. Results: `TablesAreTours`, `DeliveriesOnce` (the orders of two legs differ, since
their addresses do, except in a group that is `Strewn`), `FinishedToursClose`.

`VehicleSplitProofs` (from at least one vehicle and one stop, and `MaxInner` at
least 1). The invariant `SplitInv` describes the pass in progress:
sections closed so far follow each other without a gap and are short enough, the
open one ends at the stop before the next, `inner` counts its stops, and each closed
section is paid the sum over its stops of what was read (`SectionsPaid`; `PassInv` says so while the open section is within the arrays,
which by `ArraysAssumption`, room for a section of each vehicle, it is in every
split that is accepted; the sum is a
recursive function, taken apart at its last stop). It is
needed because `SectionsCoverStops` speaks of the end of a pass only. That the last
section can be left without a stop only after a call of itself rests on the arrays
being blank in the first call (`LeftOver`). Results: `SplitCovers`, `SplitPays`.
`RecallInVain`: a call of itself that reads the same pays retraces the first call.
`Trial` is that one run as a function of the turn, `BeforeStop` one pass as a function
of the stop; `Retraced` says that every call is on it. Each call starts from
the average of what it read, so with the same reads it goes through the turns none of
which fitted the first time; only what the arrays still hold of the first call can then
make a difference: a last vehicle left without a stop (`LeftOver`).

`VehicleRoutesProofs` (from the split's assumptions and `CopyAssumption`: the tour
that Step05 copied has each order once and begins at the depot). `ResearchInv` has three parts. `RegistryInv`: the ids of a registry
count up from where the static counter was when it was cleared, so the matrix a
distance reads has the orders of this registry (`DistancesKept`). `ControlInv`: which
vehicle is searched at each place of the program. `RouteInv`: each route found or
turned is a tour of the depot and the section of its vehicle, whatever the search
published and also if its start was ignored or failed half way. Results: `RoutesType`, `RoutesCover`,
`DistancesKept`, `RoutesFromDepot`, `RoutesDeliverOnce`.

`GenerationProofs` (from the sizes being positive). `SlotsFilledOnce`: the
arithmetic is in lemmas about `Start` and `End` for any number of workers: shares
are monotone (`Monotone`), do not overlap (`Disjoint`) and leave out no slot
(`Covered`). The invariant `FillInv` says that during a round a slot was filled once if the
worker it belongs to is past it, and not yet otherwise. The action properties
`ProtectedRanksNeverWorsen`, `NewBestIsBetter` and `ReplacementBringsNoTwins` rest on
`PopulationInv` (the population is sorted) and `BufferInv` (what the buffer holds
during replacement is new, and new to each other). `Group` describes the
population while `ReplaceGroup` goes through the offspring: the protected ranks stay
in front, sorted insertion only lowers the fitness at a rank, and each chromosome
entered is one of the slots passed. `Picks` does the same for the ranks that selection
marks as replaced. Both are statements about the n-th value of a recursive function,
proved by induction over n.

`SmartStorageProofs` (from finite numbers of ranks, slots and workers, shares that do not
overlap, and NULL being no object). What is true is that the count of an object is the
number of its holders (`CountInv`). `Holders` is neither the pointers that refer to it nor
those that did: a pointer that a thread has released and not yet written
still refers to the old object without counting for it, and one a thread has counted
for counts before it refers. With that the invariant is exact at every single access.
`ProgramInv` says which of a thread's own variables are NULL before each operation it
has still to make, since a constructor does not release what was there; `RoundInv` and the shares
give that two threads at work never write what the other one writes or copies
(`Apart`). Results: `NothingUsedAfterFree`, `NothingLeaks`. No lock is used anywhere.

`SharedLemmas` holds what several of these need: a set of numbers has a least
element, a function that is defined from its value before exists and is unique
(which takes the place of recursive operators), and the rotation of a sequence is a
rearrangement of it.

Only model-checked: everything about liveness (`Termination`, `SearchEnds`,
`ThreadsReturn`, `EveryRunEnds`, `ResearchEnds` and the fair parts of the
refinements `BuildsATour` and `IsSearchService`), which the prover does not handle.
Every invariant and every action property that a run checks is also a theorem.

## 5. The plan

1. `TspCrossover`, `TourBuilder` with proofs - done. The part of the search that
   is written in this repository and decides whether a tour is a tour.
2. `GaSolver`, `SearchService` with proofs - done. The concurrent core.
3. `DeliveryDispatch`, `DeliveryLedger` with proofs - done. The part that can lose
   data.
4. `CityRegistry`, `VehicleSplit`, `VehicleRoutes` (Steps 05 to 07) with proofs - done.
5. `Generation`: selection, coupling, replacement with elitism; justifies the step
   `Replacement` of `GaSolver` - done, with proofs.
6. `SmartStorage`: reference counts without working locks - done, with proofs.
7. Proofs that were open after the models: the tour properties of `DeliveryDispatch`,
   pays and routes, elitism, reference counts, nearest edges, the search's answer - done.

## 6. What is not modelled

* Bodies compiled into `lib/libGeneticLibrary.a` beyond what is
  described above; the chromosome kinds and criteria the program does not use.
* Shuffle and swap mutation: they exchange two places of a code and exist only
  compiled. `TspFitness` sums the legs of a tour backwards while Step08 enters them
  forwards; the search then minimises another length than is driven if distances
  are not symmetric, which the data decide.
* `TspCities::RemoveCity`, `GetCityById`, `GetCityByPoint`, `AddLocation`: never called.
* Nonsense parameters: no vehicle (`nVehicleNumber` 0 divides by zero in Step05), or
  more vehicles than the arrays of sections have places (`ArraysAssumption`).
* Text: SQL strings, character sets, buffer sizes, the messages printed. SQL
  statements are modelled by what they select and change.
* Distances in `DeliveryDispatch`, payments, the json of a leg.
* Database storage: the engine, and with it whether an UPDATE waits for
  an unbuffered SELECT of the same table, is not known from the repository.
* A vehicle number used at two locations, and a group spread over two vehicles
  (`DataAssumption`).
* The vendored MySQL headers, Eclipse metadata and generated build files. They
  and the library's unused headers are most of the lines under `src/`: the program's
  own `*.cpp` and `*.h` are about 2,800 lines, of which definitions model about
  1,800 (the rest is commented out, accessors and declarations); the library's
  headers that the program uses are mostly declarations and comments.
