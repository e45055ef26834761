--------------------------- MODULE DeliveryDispatch ---------------------------
(***************************************************************************)
(* The program from the outside: processes, each planning the tour of one  *)
(* vehicle, over the shared tables of the delivery database.  t_function   *)
(* (TSP.cpp) runs Step01 (load), Step02 (register cities), Step03          *)
(* (search), Step04 (rotate the tour so that it starts at the depot) and   *)
(* Step08 (replace the rows of the vehicle), each one whatever the result  *)
(* of the one before.                                                      *)
(*                                                                         *)
(* Every SQL statement is a step of its own.  There is no transaction and  *)
(* no lock between processes, and vehicleAllocateResult is the input of    *)
(* Step01 as well as the output of Step08.  The search is abstracted to    *)
(* any tour of the loaded cities (TspCrossover, GaSolver).  One delivery   *)
(* session is modelled: date, meridiem type and flag are the same in every *)
(* row.  Definitions marked "Mutant" are no part of the model.             *)
(***************************************************************************)
EXTENDS Integers, Sequences, FiniteSets

CONSTANTS
    Order,          \* order numbers (accno); Step01 sorts by them
    ErrorOrder,     \* orders whose address is in error (vr_errorJusoFlag = 'Y')
    SiteOf,         \* SiteOf[o]: the coordinates of order o
    GroupOf,        \* GroupOf[o]: ve_accnoDupleJuso, None for the empty string
    OrderLocation,  \* OrderLocation[o]: the location (depot) order o belongs to
    Vehicle,
    AllocatedTo,    \* AllocatedTo[o]: the vehicle the planner gave order o to
    Process,
    VehicleOf,      \* VehicleOf[p]: argv[5] of process p
    LocationOf,     \* LocationOf[p]: argv[4] of process p
    KnownLeg,       \* pairs of orders with a row in vehicleGuestMutualDistance
    MaxRuns,        \* bound: how often a process is run
    None

ASSUME OrderAssumption == Order \subseteq Nat /\ IsFiniteSet(Order) /\ ErrorOrder \subseteq Order
ASSUME NoneAssumption == None \notin Order /\ None \notin Process
ASSUME AllocationAssumption == AllocatedTo \in [Order -> Vehicle] /\ VehicleOf \in [Process -> Vehicle]
ASSUME KnownLegAssumption == KnownLeg \subseteq Order \X Order
ASSUME MaxRunsAssumption == MaxRuns \in Nat

\* Orders that Step08 enters together.
SameGroup(o, q) ==
    GroupOf[o] # None /\ GroupOf[o] = GroupOf[q] /\ OrderLocation[o] = OrderLocation[q]

(***************************************************************************)
(* What the program takes for granted about the data: an order shares the  *)
(* address of a good order of its vehicle if and only if it is of the same *)
(* group, except that one with an address in error may be of the group and *)
(* yet have other coordinates; the orders of a group go with one vehicle;  *)
(* a vehicle number belongs to one location; the depot, the first good     *)
(* order of a vehicle, is of no group and comes before all orders that are.*)
(***************************************************************************)
ASSUME DataAssumption ==
    /\ \A o \in Order \ ErrorOrder, q \in Order :
        AllocatedTo[o] = AllocatedTo[q] =>
            /\ SiteOf[o] = SiteOf[q] => o = q \/ SameGroup(o, q)
            /\ SameGroup(o, q) /\ q \notin ErrorOrder => SiteOf[o] = SiteOf[q]
    /\ \A o, q \in Order : SameGroup(o, q) => AllocatedTo[o] = AllocatedTo[q]
    /\ \A o \in Order, p \in Process :
        AllocatedTo[o] = VehicleOf[p] => OrderLocation[o] = LocationOf[p]
    /\ \A o \in Order \ ErrorOrder :
        (\A q \in Order \ ErrorOrder : AllocatedTo[q] = AllocatedTo[o] => o <= q) =>
            /\ GroupOf[o] = None
            /\ \A q \in Order : AllocatedTo[q] = AllocatedTo[o] /\ GroupOf[q] # None => o < q

VARIABLES
    alloc,          \* the rows of vehicleAllocateResult
    pc,             \* pc[p]: the step process p is in, "off" when it does not run
    mem,            \* mem[p]: the memory of process p
    report,         \* report[p]: how t_function reported Step08
    runs,           \* runs[p]: number of times p was run
    torn,           \* history: processes that read rows while another run replaced them
    spoilt,         \* history: vehicles rewritten from a torn read, or of which a run
                    \* ended within its rewriting
    raced           \* history: vehicles whose rows two runs at a time have entered

vars == <<alloc, pc, mem, report, runs, torn, spoilt, raced>>

\* The memory of a process that has just been started.
Fresh == [count |-> 0, cities |-> <<>>, matrix |-> FALSE, route |-> <<>>, leg |-> 0,
          pending |-> {}, errors |-> {}, nextIndex |-> 0]

\* A row before the first run: the planner knows no sequence yet.  "by" is no
\* column: it tells apart rows that differ in vr_seq only.
AllocationRow(o) ==
    [order |-> o, vehicle |-> AllocatedTo[o], location |-> OrderLocation[o],
     error |-> o \in ErrorOrder, index |-> 0, from |-> None, by |-> None]

Init ==
    /\ alloc = {AllocationRow(o) : o \in Order}
    /\ pc = [p \in Process |-> "off"]
    /\ mem = [p \in Process |-> Fresh]
    /\ report = [p \in Process |-> "none"]
    /\ runs = [p \in Process |-> 0]
    /\ torn = {} /\ spoilt = {} /\ raced = {}

Goto(p, to) == pc' = [pc EXCEPT ![p] = to]
Writing(p) == pc[p] \in {"leg", "row"}
Rewriting(p) == pc[p] \in {"leg", "row", "errors"}
BeingWritten(v) == \E p \in Process : VehicleOf[p] = v /\ Writing(p)

\* The process is gone, with its memory and its connections.
End(p, result) ==
    /\ Goto(p, "off")
    /\ mem' = [mem EXCEPT ![p] = Fresh]
    /\ report' = [report EXCEPT ![p] = result]
    /\ torn' = torn \ {p}
    /\ spoilt' = IF Writing(p) THEN spoilt \cup {VehicleOf[p]} ELSE spoilt

\* A step of p that only changes its memory.
Local == UNCHANGED <<alloc, report, runs, torn, spoilt, raced>>

Run(p) ==
    /\ pc[p] = "off"
    /\ runs[p] < MaxRuns
    /\ runs' = [runs EXCEPT ![p] = @ + 1]
    /\ report' = [report EXCEPT ![p] = "none"]
    /\ Goto(p, "count")
    /\ UNCHANGED <<alloc, mem, torn, spoilt, raced>>

-----------------------------------------------------------------------------
(***************************************************************************)
(* Step01, OnLoadDeliveryData.                                             *)
(***************************************************************************)
OrdersFor(p) ==
    {r.order : r \in {x \in alloc : x.vehicle = VehicleOf[p] /\ x.location = LocationOf[p] /\ ~x.error}}
Sites(p) == {SiteOf[o] : o \in OrdersFor(p)}

\* Mutant: no GROUP BY coordinates.
EveryOrder(p) ==
    {s \in [1 .. Cardinality(OrdersFor(p)) -> OrdersFor(p)] : \A i, j \in DOMAIN s : i < j => s[i] < s[j]}

\* GROUP BY coordinates, ORDER BY accno: one order of each site, it is left
\* open which.
Listing(p) ==
    {s \in [1 .. Cardinality(Sites(p)) -> OrdersFor(p)] :
        /\ \A i, j \in DOMAIN s : i < j => s[i] < s[j]
        /\ {SiteOf[s[i]] : i \in DOMAIN s} = Sites(p)}

\* A query reads what is in the table, be it half written.
Reads(p) ==
    /\ torn' = IF BeingWritten(VehicleOf[p]) THEN torn \cup {p} ELSE torn
    /\ UNCHANGED <<alloc, report, runs, spoilt, raced>>

CountOrders(p) ==
    /\ pc[p] = "count"
    /\ \E s \in Listing(p) : mem' = [mem EXCEPT ![p].count = Len(s)]
    /\ Goto(p, "orders")
    /\ Reads(p)

\* The rows are asked for again, into an array of the size counted before: an
\* order that has gone since leaves a blank entry, and those too many are written
\* past the end, where nobody looks for them.
LoadOrders(p) ==
    /\ pc[p] = "orders"
    /\ \E s \in Listing(p) : mem' = [mem EXCEPT ![p].cities =
                        [i \in 1 .. mem[p].count |-> IF i <= Len(s) THEN s[i] ELSE None]]
    /\ Goto(p, "matrix")
    /\ Reads(p)

\* Or what is written past the end kills the process.
LoadOverflows(p) ==
    /\ pc[p] = "orders"
    /\ \E s \in Listing(p) : Len(s) > mem[p].count
    /\ End(p, "none")
    /\ UNCHANGED <<alloc, runs, raced>>

\* The distance of every pair of cities; a pair without a row counts as 0.
LoadMatrix(p) ==
    /\ pc[p] = "matrix"
    /\ mem' = [mem EXCEPT ![p].matrix = TRUE]
    /\ Goto(p, "search")
    /\ Local

\* A statement fails and Step01 returns: t_function goes on with what has been
\* loaded.  A matrix that lacks only entries of its last row is usable.
LoadFails(p) ==
    /\ pc[p] \in {"count", "orders", "matrix"}
    /\ \E usable \in IF pc[p] = "matrix" THEN BOOLEAN ELSE {FALSE} :
            mem' = [mem EXCEPT ![p].matrix = usable]
    /\ Goto(p, "search")
    /\ Local

-----------------------------------------------------------------------------
(***************************************************************************)
(* Step02 to Step04: cities get the ids 1, 2, ... in the order of loading, *)
(* the search leaves a permutation of them in _bestChromosome, and         *)
(* OnRelocationDeliveryData turns it so that id 1, the depot, comes first. *)
(***************************************************************************)
Tours(n) == {t \in [1 .. n -> 1 .. n] : \A i, j \in 1 .. n : t[i] = t[j] => i = j}

\* Mutant: the second loop of Step04 runs one position too far.
RotatedTooFar(t) ==
    LET first == CHOOSE i \in DOMAIN t : t[i] = 1
    IN  SubSeq(t, first, Len(t)) \o SubSeq(t, 1, first)

Rotated(t) ==
    LET first == CHOOSE i \in DOMAIN t : t[i] = 1
    IN  SubSeq(t, first, Len(t)) \o SubSeq(t, 1, first - 1)

Searchable(p) == mem[p].cities # <<>> /\ mem[p].matrix

Search(p) ==
    /\ pc[p] = "search"
    /\ Searchable(p)
    /\ \E t \in Tours(mem[p].count) :
            mem' = [mem EXCEPT ![p].route = [i \in DOMAIN Rotated(t) |-> mem[p].cities[Rotated(t)[i]]]]
    /\ Goto(p, "connect")
    /\ Local

\* No city: the initial shuffle divides by zero.  No matrix: GetDistance reads
\* a row that is not there.  One city: the crossover reads and marks the second
\* of one, which may go well.
SearchCrashes(p) ==
    /\ pc[p] = "search"
    /\ ~Searchable(p) \/ mem[p].count = 1
    /\ End(p, "none")
    /\ UNCHANGED <<alloc, runs, raced>>

\* A thread of the search cannot be created: StartSolving returns as if it had
\* started, and Step03 asks for ever for a state that never comes.
StartFails(p) ==
    /\ pc[p] = "search"
    /\ Goto(p, "poll")
    /\ UNCHANGED mem
    /\ Local

-----------------------------------------------------------------------------
(***************************************************************************)
(* Step08, OnVehicleDataInsert.                                            *)
(***************************************************************************)
Connect(p) ==
    /\ pc[p] = "connect"
    /\ Goto(p, "delete")
    /\ UNCHANGED mem
    /\ Local

\* Step08 returns 0 when it has no connection, and t_function reports success.
ConnectFails(p) ==
    /\ pc[p] = "connect"
    /\ End(p, "complete")
    /\ UNCHANGED <<alloc, runs, raced>>

\* Mutant: the vehicle is missing in the WHERE clause.
DeletedOfAll(p) == {r \in alloc : ~r.error}

\* Mutant: the WHERE clause spares the rows another process has entered.
DeletedOwn(p) == {r \in alloc : r.vehicle = VehicleOf[p] /\ ~r.error /\ r.by \in {None, p}}

\* The WHERE clause names the vehicle but not the location.
Deleted(p) == {r \in alloc : r.vehicle = VehicleOf[p] /\ ~r.error}

DeleteRows(p) ==
    /\ pc[p] = "delete"
    /\ alloc' = alloc \ Deleted(p)
    /\ Goto(p, "leg")
    /\ spoilt' = IF p \in torn THEN spoilt \cup {VehicleOf[p]} ELSE spoilt
    /\ torn' = torn \cup {q \in Process : VehicleOf[q] = VehicleOf[p] /\ pc[q] = "orders"}
    /\ raced' = IF \E q \in Process \ {p} : VehicleOf[q] = VehicleOf[p] /\ Rewriting(q)
                THEN raced \cup {VehicleOf[p]} ELSE raced \ {VehicleOf[p]}
    /\ UNCHANGED <<mem, report, runs>>

Origin(p) == mem[p].route[mem[p].leg + 1]
LastLeg(p) == mem[p].leg + 1 = Len(mem[p].route)
Destination(p) == IF LastLeg(p) THEN mem[p].route[1] ELSE mem[p].route[mem[p].leg + 2]

\* Mutant: only the order that represents its group is entered.
Representative(p) == {Destination(p)}

\* The orders entered for a leg: on the way back to the depot, and for an order
\* without duplicates, that order alone; else all of its group at the location,
\* those with an address in error too.
Deliveries(p) ==
    IF LastLeg(p) \/ GroupOf[Destination(p)] = None
    THEN {Destination(p)}
    ELSE {o \in Order : GroupOf[o] = GroupOf[Destination(p)] /\ OrderLocation[o] = LocationOf[p]}

StartLeg(p) ==
    /\ pc[p] = "leg"
    /\ mem[p].leg < Len(mem[p].route)
    /\ <<Origin(p), Destination(p)>> \in KnownLeg
    /\ mem' = [mem EXCEPT ![p].pending = Deliveries(p)]
    /\ Goto(p, "row")
    /\ Local

\* Mutant: the distance is asked for again until there is one.
AsksAgain(p) ==
    /\ pc[p] = "leg"
    /\ mem[p].leg < Len(mem[p].route)
    /\ <<Origin(p), Destination(p)>> \notin KnownLeg
    /\ UNCHANGED vars

\* mysql_fetch_row finds no distance and its null result is read.
LegUnknown(p) ==
    /\ pc[p] = "leg"
    /\ mem[p].leg < Len(mem[p].route)
    /\ <<Origin(p), Destination(p)>> \notin KnownLeg
    /\ End(p, "none")
    /\ UNCHANGED <<alloc, runs, raced>>

\* Mutant: every row gets an index of its own.
RowCount(p) == Cardinality({r \in alloc : r.by = p})

RowIndex(p) == mem[p].leg

\* The INSERT does not set vr_errorJusoFlag: taken for a column whose default is
\* neither NULL nor 'Y', so that the next run finds the row.
Row(p, o) ==
    [order |-> o, vehicle |-> VehicleOf[p], location |-> LocationOf[p],
     error |-> FALSE, index |-> RowIndex(p), from |-> Origin(p), by |-> p]

InsertRow(p) ==
    /\ pc[p] = "row"
    /\ \E o \in mem[p].pending :
        /\ alloc' = alloc \cup {Row(p, o)}
        /\ IF mem[p].pending = {o}
           THEN /\ mem' = [mem EXCEPT ![p].pending = {}, ![p].leg = @ + 1]
                /\ Goto(p, "leg")
           ELSE /\ mem' = [mem EXCEPT ![p].pending = @ \ {o}]
                /\ UNCHANGED pc
    /\ UNCHANGED <<report, runs, torn, spoilt, raced>>

\* Mutant: the first error row gets the index of the last leg.
LastIndex(p) == Len(mem[p].route) - 1

\* nMaxIndex
FirstErrorIndex(p) == Len(mem[p].route)

SelectErrors(p) ==
    /\ pc[p] = "leg"
    /\ mem[p].leg = Len(mem[p].route)
    /\ mem' = [mem EXCEPT
                    ![p].errors = {r.order : r \in {x \in alloc : x.vehicle = VehicleOf[p] /\ x.error}},
                    ![p].nextIndex = FirstErrorIndex(p)]
    /\ Goto(p, "errors")
    /\ Local

UpdateError(p) ==
    /\ pc[p] = "errors"
    /\ \E o \in mem[p].errors :
        /\ alloc' = {IF r.error /\ r.order = o THEN [r EXCEPT !.index = mem[p].nextIndex] ELSE r : r \in alloc}
        /\ mem' = [mem EXCEPT ![p].errors = @ \ {o}, ![p].nextIndex = @ + 1]
    /\ UNCHANGED <<pc, report, runs, torn, spoilt, raced>>

Finish(p) ==
    /\ pc[p] = "errors"
    /\ mem[p].errors = {}
    /\ End(p, "complete")
    /\ UNCHANGED <<alloc, runs, raced>>

\* A statement of Step08 fails: what has been deleted and entered stays so.
WriteFails(p) ==
    /\ pc[p] \in {"delete", "leg", "row", "errors"}
    /\ End(p, "error")
    /\ UNCHANGED <<alloc, runs, raced>>

\* The process dies at any time.
Crash(p) ==
    /\ pc[p] # "off"
    /\ End(p, "none")
    /\ UNCHANGED <<alloc, runs, raced>>

Step(p) ==
    \/ CountOrders(p) \/ LoadOrders(p) \/ LoadOverflows(p) \/ LoadMatrix(p)
    \/ Search(p) \/ SearchCrashes(p)
    \/ Connect(p) \/ DeleteRows(p) \/ StartLeg(p) \/ LegUnknown(p) \/ InsertRow(p)
    \/ SelectErrors(p) \/ UpdateError(p) \/ Finish(p)

Fault(p) == LoadFails(p) \/ StartFails(p) \/ ConnectFails(p) \/ WriteFails(p) \/ Crash(p)

Next == \E p \in Process : Run(p) \/ Step(p) \/ Fault(p)

Spec == Init /\ [][Next]_vars

\* A process that runs is scheduled; nobody has to start one, and no fault has
\* to happen.
FairSpec == Spec /\ \A p \in Process : WF_vars(Step(p))

-----------------------------------------------------------------------------
(***************************************************************************)
(* Properties.                                                             *)
(***************************************************************************)
Rows(v) == {r \in alloc : r.vehicle = v}
RouteRows(v) == {r \in Rows(v) : ~r.error}
Served(v) == {r.order : r \in RouteRows(v)}
Owed(v) == {o \in Order \ ErrorOrder : AllocatedTo[o] = v}

\* Orders with an address in error that are entered with an order of the vehicle.
Dragged(v) == {e \in ErrorOrder : \E o \in Owed(v) : SameGroup(o, e)}

\* An order of a group that has more than one address.
Strewn(o) == \E q \in Order : SameGroup(o, q) /\ \E s \in Order : SameGroup(o, s) /\ SiteOf[s] # SiteOf[q]

TypeOK ==
    /\ \A r \in alloc :
        /\ r.order \in Order /\ r.vehicle \in Vehicle /\ r.error \in BOOLEAN
        /\ r.index \in Nat /\ r.from \in Order \cup {None} /\ r.by \in Process \cup {None}
    /\ pc \in [Process -> {"off", "count", "orders", "matrix", "search", "poll", "connect", "delete",
                            "leg", "row", "errors"}]
    /\ \A p \in Process :
        /\ mem[p].count \in 0 .. Cardinality(Order)
        /\ Len(mem[p].cities) \in {0, mem[p].count} /\ Len(mem[p].route) \in {0, mem[p].count}
        /\ mem[p].leg \in 0 .. Len(mem[p].route)
        /\ mem[p].pending \subseteq Order /\ mem[p].errors \subseteq ErrorOrder
    /\ report \in [Process -> {"none", "complete", "error"}]
    /\ runs \in [Process -> 0 .. MaxRuns]
    /\ torn \subseteq Process /\ spoilt \subseteq Vehicle /\ raced \subseteq Vehicle

\* The table is both input and output, it is deleted before it is written, and
\* runs for one vehicle may overlap in any way.  Yet whenever nobody is writing,
\* no delivery of a vehicle is missing, and none is added to it but those Step08
\* drags along, unless one of its runs ended between the DELETE and the last
\* INSERT, or rewrote what it had read while another was writing.  A fault at any
\* other point, two runs that write at a time, and any number of reruns are
\* harmless.
OrdersKept ==
    \A v \in Vehicle \ spoilt :
        ~BeingWritten(v) => Owed(v) \subseteq Served(v) /\ Served(v) \subseteq Owed(v) \cup Dragged(v)

\* Two rows for one order are a row with an address in error beside the one that
\* the expansion of its group (without Step01's filter) has entered, or two legs
\* to a group that such an order has given a second address; anything else takes
\* two runs that wrote at a time, and the next one that writes alone repairs it.
\* It holds after runs that were cut short, over half of their own output, and
\* after torn reads.
NoOrderTwice ==
    \A r, s \in alloc : r.order = s.order /\ r # s =>
        \/ r.vehicle \in raced
        \/ r.error # s.error /\ r.order \in Dragged(r.vehicle)
        \/ r.index # s.index /\ ~r.error /\ ~s.error /\ Strewn(r.order)

\* The planner's rows, or the beginning of one tour: legs numbered from 0, where
\* the orders of a leg share its origin and are of one group, and the next leg
\* starts at one of them.
OneTour(v) ==
    \/ \A r \in RouteRows(v) : r.by = None
    \/ /\ \A r \in RouteRows(v) : r.by # None
       /\ {r.index : r \in RouteRows(v)} = 0 .. Cardinality({r.index : r \in RouteRows(v)}) - 1
       /\ \A r, s \in RouteRows(v) :
            /\ r.index = s.index => r.from = s.from /\ (r.order = s.order \/ SameGroup(r.order, s.order))
            /\ r.index + 1 = s.index => \E t \in RouteRows(v) : t.index = r.index /\ t.order = s.from

\* At any moment the rows a vehicle has in the table are of one tour, however
\* many runs were cut short in writing one or read half of another; only two that
\* write at a time mix their legs, until the next one that writes alone.
LegsChain == \A v \in Vehicle \ raced : OneTour(v)

\* When a run finishes, its rows are a closed tour: the last leg leads to where
\* the first one started, no other leg starts there, and the rows with an address
\* in error, all of them still there, take the numbers after it, one each.
ClosedTour(v) ==
    LET last == Cardinality({r.index : r \in RouteRows(v)}) - 1
    IN  /\ \A r, s \in RouteRows(v) : r.index = 0 =>
            /\ s.index = last => s.order = r.from
            /\ s.from = r.from => s.index = 0
        /\ {r.order : r \in Rows(v) \ RouteRows(v)} = {o \in ErrorOrder : AllocatedTo[o] = v}
        /\ \A r, s \in Rows(v) : r.error /\ r.index = s.index => r = s
        /\ {r.index : r \in Rows(v) \ RouteRows(v)}
                = last + 1 .. last + Cardinality(Rows(v) \ RouteRows(v))

FinishedTourIsClosed ==
    [][\A p \in Process :
            pc[p] = "errors" /\ report'[p] = "complete" /\ VehicleOf[p] \notin raced
                => ClosedTour(VehicleOf[p])']_vars

\* Every run comes to an end, whatever failed before or in it, with one exception
\* that the code has: a search that could not start leaves it polling for ever.
EveryRunEnds == \A p \in Process : pc[p] # "off" ~> pc[p] \in {"off", "poll"}

\* For the owner of the table the runs are rewritings of a ledger.
LedgerPhase(v) == IF v \in spoilt THEN "spoilt" ELSE IF BeingWritten(v) THEN "rewriting" ELSE "kept"
Ledger == INSTANCE DeliveryLedger WITH
    LVehicle <- Vehicle, Due <- [v \in Vehicle |-> Owed(v)],
    entered <- [v \in Vehicle |-> Served(v) \ ErrorOrder], phase <- [v \in Vehicle |-> LedgerPhase(v)]
KeepsTheLedger == Ledger!Spec

(***************************************************************************)
(* A claim of the program's output that the code does not keep.            *)
(***************************************************************************)
\* TSP.cpp prints "Step08 OnVehicleDataInsert Complete": the tour of this run is
\* in the table.
CompleteMeansWritten ==
    \A p \in Process : report[p] = "complete" => \E r \in alloc : r.by = p
=============================================================================
