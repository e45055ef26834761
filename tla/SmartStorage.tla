----------------------------- MODULE SmartStorage -----------------------------
(***************************************************************************)
(* The reference counts of GaSmartStorage and GaSmartPtr                   *)
(* (inc/SmartPtr.h) under the threads of one search.  Workers copy         *)
(* pointers of the population side by side and fill the offspring buffer;  *)
(* between two rounds the control thread moves offspring into the          *)
(* population.  A step is one atomic access to a count or a pointer.       *)
(*                                                                         *)
(* There are no locks here: built with GCC, SPINLOCK (inc/Threading.h)     *)
(* loops while the lock was FREE and gets past one that is held, so        *)
(* GaSmartPtr::Lock keeps nobody out.  Counts are kept right by            *)
(* ATOMIC_INC and ATOMIC_DEC and by who uses which pointer when: GaSolver  *)
(* has the rounds, Generation the workers' shares of the buffer.           *)
(* Definitions marked "Mutant" are no part of the model.                   *)
(***************************************************************************)
EXTENDS Integers, Sequences, FiniteSets

CONSTANTS
    Object,         \* addresses for a GaSmartStorage with its chromosome
    Rank,           \* places of the population
    Slot,           \* slots of the offspring buffer
    Worker,
    Share,          \* Share[w]: the slots that worker w fills
    Control,        \* the control thread
    None            \* no object, NULL

ASSUME ThreadAssumption == Control \notin Worker /\ None \notin Object
ASSUME SizesAssumption == IsFiniteSet(Rank) /\ IsFiniteSet(Slot) /\ IsFiniteSet(Worker)
ASSUME ShareAssumption ==
    /\ Share \in [Worker -> SUBSET Slot]
    /\ \A v, w \in Worker : v # w => Share[v] \cap Share[w] = {}

Thread == Worker \cup {Control}

\* The smart pointers: of the population, of the buffer, _bestChromosome of
\* the algorithm, NullPtr, and two variables on the stack of each thread.
InPopulation(r) == <<"population", r>>
InBuffer(s) == <<"buffer", s>>
Best == <<"best", None>>
NullPtr == <<"null", None>>
Argument(t) == <<"argument", t>>
Child(t) == <<"child", t>>
Pointer ==
    {InPopulation(r) : r \in Rank} \cup {InBuffer(s) : s \in Slot} \cup {Best, NullPtr}
        \cup UNION {{Argument(t), Child(t)} : t \in Thread}

VARIABLES
    location,       \* _location of each pointer
    count,          \* _count of each object
    live,           \* the objects that are not deleted
    todo,           \* todo[t]: the pointer operations of thread t to come, in order
    at,             \* at[t]: how far thread t is with the first of them
    left,           \* left[w]: slots worker w has still to fill in this round
    working,        \* the workers have the round
    plan            \* what control has still to do with the buffer

vars == <<location, count, live, todo, at, left, working, plan>>

\* Slots to empty, the rank each slot is for, the rank of the best chromosome.
Nothing == [duplicates |-> {}, ranks |-> [s \in Slot |-> None], best |-> None]

\* InitializePopulation has filled the population.
Init ==
    \E first \in [Rank -> Object] :
        /\ \A q, r \in Rank : first[q] = first[r] => q = r
        /\ location = [p \in Pointer |->
                        IF \E r \in Rank : p = InPopulation(r) THEN first[p[2]] ELSE None]
        /\ live = {first[r] : r \in Rank}
        /\ count = [o \in Object |-> IF o \in live THEN 1 ELSE 0]
        /\ todo = [t \in Thread |-> <<>>]
        /\ at = [t \in Thread |-> "start"]
        /\ left = Share
        /\ working = TRUE
        /\ plan = Nothing

-----------------------------------------------------------------------------
(***************************************************************************)
(* The pointer operations.                                                 *)
(***************************************************************************)
Operation(what, lhs, rhs) == [what |-> what, lhs |-> lhs, rhs |-> rhs]
CopyConstructor(lhs, rhs) == Operation("copy", lhs, rhs)
Assign(lhs, rhs) == Operation("assign", lhs, rhs)
Destructor(lhs) == Operation("destroy", lhs, NullPtr)

\* ProduceOffspring: a parent is passed by value, its Crossover makes the
\* child, which is compared with the whole population and put in the buffer.
ProduceOffspring(w, r, s, duplicate) ==
    << CopyConstructor(Argument(w), InPopulation(r)),
       Operation("make", Child(w), Argument(w)),
       Destructor(Argument(w)),
       Operation("check", Child(w), Child(w)),
       Assign(InBuffer(s), IF duplicate THEN NullPtr ELSE Child(w)),
       Destructor(Child(w)) >>

\* RemoveDuplicates: the slot is emptied while a copy of its pointer is held.
RemoveDuplicate(s) ==
    << CopyConstructor(Argument(Control), InBuffer(s)),
       Assign(InBuffer(s), NullPtr),
       Destructor(Argument(Control)) >>

\* ReplaceGroup, for one chromosome.
Replace(r, s) ==
    << CopyConstructor(Argument(Control), InBuffer(s)),
       Assign(InPopulation(r), Argument(Control)),
       Destructor(Argument(Control)) >>

-----------------------------------------------------------------------------
(***************************************************************************)
(* Their accesses.  operator= does nothing if both pointers refer to the   *)
(* same object; it gives up its old object before it counts the new one.   *)
(***************************************************************************)
Idle(t) == todo[t] = <<>>
Now(t) == Head(todo[t])
New(t) == location[Now(t).rhs]
Old(t) == location[Now(t).lhs]
Doing(t, what, stage) == ~Idle(t) /\ Now(t).what = what /\ at[t] = stage

GoOn(t, stage) ==
    /\ at' = [at EXCEPT ![t] = stage]
    /\ UNCHANGED todo
Finish(t) ==
    /\ todo' = [todo EXCEPT ![t] = Tail(@)]
    /\ at' = [at EXCEPT ![t] = "start"]

Compare(t) ==
    /\ Doing(t, "assign", "start")
    /\ IF New(t) = Old(t) THEN Finish(t) ELSE GoOn(t, "differs")
    /\ UNCHANGED <<location, count, live, left, working, plan>>

Releases(t) == Doing(t, "assign", "differs") \/ Doing(t, "destroy", "start")

\* Mutant: the object that an assignment gives up keeps its reference.
ReleaseInDestructor(t) ==
    /\ Releases(t)
    /\ IF Old(t) = None \/ Now(t).what = "assign"
       THEN UNCHANGED <<count, live>>
       ELSE /\ count' = [count EXCEPT ![Old(t)] = @ - 1]
            /\ live' = IF count'[Old(t)] = 0 THEN live \ {Old(t)} ELSE live
    /\ GoOn(t, "released")
    /\ UNCHANGED <<location, left, working, plan>>

\* RemoveReference: the last one deletes the object and its chromosome.
Release(t) ==
    /\ Releases(t)
    /\ IF Old(t) = None
       THEN UNCHANGED <<count, live>>
       ELSE /\ count' = [count EXCEPT ![Old(t)] = @ - 1]
            /\ live' = IF count'[Old(t)] = 0 THEN live \ {Old(t)} ELSE live
    /\ GoOn(t, "released")
    /\ UNCHANGED <<location, left, working, plan>>

\* AddReference.
Acquires(t) == Doing(t, "copy", "start") \/ Doing(t, "assign", "released")
Acquire(t) ==
    /\ Acquires(t)
    /\ count' = IF New(t) = None THEN count ELSE [count EXCEPT ![New(t)] = @ + 1]
    /\ GoOn(t, "counted")
    /\ UNCHANGED <<location, live, left, working, plan>>

Stores(t) == ~Idle(t) /\ at[t] = "counted"
Store(t) ==
    /\ Stores(t)
    /\ location' = [location EXCEPT ![Now(t).lhs] = New(t)]
    /\ Finish(t)
    /\ UNCHANGED <<count, live, left, working, plan>>

\* The variable goes out of scope.
Leave(t) ==
    /\ Doing(t, "destroy", "released")
    /\ location' = [location EXCEPT ![Now(t).lhs] = None]
    /\ Finish(t)
    /\ UNCHANGED <<count, live, left, working, plan>>

\* MakeInstance, with memory that is free.
Make(t) ==
    /\ Doing(t, "make", "start")
    /\ \E o \in Object \ live :
        /\ live' = live \cup {o}
        /\ count' = [count EXCEPT ![o] = 1]
        /\ location' = [location EXCEPT ![Now(t).lhs] = o]
    /\ Finish(t)
    /\ UNCHANGED <<left, working, plan>>

\* CheckForDuplicates reads the chromosomes without taking references.
Check(t) ==
    /\ Doing(t, "check", "start")
    /\ Finish(t)
    /\ UNCHANGED <<location, count, live, left, working, plan>>

Step(t) ==
    Compare(t) \/ Release(t) \/ Acquire(t) \/ Store(t) \/ Leave(t) \/ Make(t) \/ Check(t)

-----------------------------------------------------------------------------
WorkStep(w) ==
    /\ working /\ Idle(w)
    /\ \E s \in left[w], r \in Rank, duplicate \in BOOLEAN :
        /\ todo' = [todo EXCEPT ![w] = ProduceOffspring(w, r, s, duplicate)]
        /\ left' = [left EXCEPT ![w] = @ \ {s}]
    /\ UNCHANGED <<location, count, live, at, working, plan>>

\* The best chromosome is among those that replacement leaves alone.
Replaceable(r) == location[InPopulation(r)] # location[Best]

\* Mutant: control takes the buffer when the last slot is handed out.
AllHandedOut == \A w \in Worker : left[w] = {}
\* Every worker is out of the round.
WorkersOut == \A w \in Worker : left[w] = {} /\ Idle(w)

\* Control goes on when every worker is out.  It will empty slots that hold
\* duplicates, replace chromosomes by what is left in the buffer, empty slots
\* passed over, and keep the best one.
AfterWorkers ==
    /\ working /\ WorkersOut
    /\ \E duplicates \in SUBSET {s \in Slot : location[InBuffer(s)] # None},
          ranks \in [Slot -> Rank \cup {None}], best \in Rank :
        /\ \A s \in Slot : ranks[s] # None =>
                /\ Replaceable(ranks[s])
                /\ location[InBuffer(s)] # None /\ s \notin duplicates
                /\ \A u \in Slot \ {s} : ranks[u] # ranks[s]
        /\ plan' = [duplicates |-> duplicates, ranks |-> ranks, best |-> best]
    /\ working' = FALSE
    /\ UNCHANGED <<location, count, live, todo, at, left>>

Starts(operations) ==
    /\ ~working /\ Idle(Control)
    /\ todo' = [todo EXCEPT ![Control] = operations]
    /\ UNCHANGED <<location, count, live, at, left, working>>

RemoveDuplicates ==
    \E s \in plan.duplicates :
        /\ plan' = [plan EXCEPT !.duplicates = @ \ {s}]
        /\ Starts(RemoveDuplicate(s))

ReplaceGroup ==
    /\ plan.duplicates = {}
    /\ \E s \in Slot :
        /\ plan.ranks[s] # None
        /\ plan' = [plan EXCEPT !.ranks[s] = None]
        /\ Starts(Replace(plan.ranks[s], s))

KeepBest ==
    /\ plan.duplicates = {} /\ \A s \in Slot : plan.ranks[s] = None
    /\ plan.best # None
    /\ plan' = Nothing
    /\ Starts(<<Assign(Best, InPopulation(plan.best))>>)

NextGeneration ==
    /\ ~working /\ Idle(Control) /\ plan = Nothing
    /\ working' = TRUE
    /\ left' = Share
    /\ UNCHANGED <<location, count, live, todo, at, plan>>

Next ==
    \/ \E t \in Thread : Step(t)
    \/ \E w \in Worker : WorkStep(w)
    \/ AfterWorkers \/ RemoveDuplicates \/ ReplaceGroup \/ KeepBest \/ NextGeneration

Spec == Init /\ [][Next]_vars

-----------------------------------------------------------------------------
(***************************************************************************)
(* No thread counts, copies or reads an object that was deleted, and none  *)
(* is deleted twice; a pointer refers to a deleted object only while its   *)
(* own thread is changing it.  It holds although the locks that            *)
(* inc/SmartPtr.h relies on exclude nobody.                                *)
(***************************************************************************)
Used(t) ==
    CASE Doing(t, "assign", "start") \/ Releases(t) -> {Old(t)}
      [] Acquires(t) \/ Stores(t) \/ Doing(t, "make", "start") -> {New(t)}
      [] Doing(t, "check", "start") -> {New(t)} \cup {location[InPopulation(r)] : r \in Rank}
      [] OTHER -> {}
BeingChanged == {Now(t).lhs : t \in {u \in Thread : ~Idle(u)}}

NoUseAfterFree ==
    /\ \A t \in Thread : Used(t) \subseteq live \cup {None}
    /\ \A p \in Pointer \ BeingChanged : location[p] \in live \cup {None}

(***************************************************************************)
(* Chromosomes do not pile up over the generations: an object that is not  *)
(* deleted is still referred to by some pointer.                           *)
(***************************************************************************)
FreedWhenUnused == \A o \in live : \E p \in Pointer : location[p] = o
=============================================================================
