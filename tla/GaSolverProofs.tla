--------------------------- MODULE GaSolverProofs ---------------------------
(***************************************************************************)
(* For any number of workers, any chromosomes, any history depth and any   *)
(* sequence of calls: the population has one user at a time, no fork or    *)
(* join permit is left over when a generation ends, parameters change      *)
(* between generations only, and a new best is announced only while the    *)
(* search is running.  For the one fresh start that the program makes: the *)
(* answer is the best of the search, and it only improves.                 *)
(***************************************************************************)
EXTENDS GaSolver, FiniteSetTheorems, TLAPS

\* Control and the workers run different functions.
PlacesDiffer ==
    /\ pc[0] \in {"none", "round", "block", "fork", "join", "after", "check", "release", "unblock",
                    "returned"}
    /\ \A w \in Workers : pc[w] \in {"none", "wait", "check", "work", "quit", "returned"}

\* Who holds a lock follows from where its holders are.
LocksHeld ==
    /\ stateLock = "control" <=> pc[0] \in {"fork", "join", "after", "check", "release"}
    /\ stateLock = "client" <=> cpc \in {"start", "started"}
    /\ paramLock = "control" <=>
            pc[0] \in {"block", "fork", "join", "after", "check", "release", "unblock"}
    /\ paramLock = "client" <=> cpc = "change"

\* While control waits, every worker that has yet to leave the round either has
\* a permit waiting for it or is inside, and the join event is posted exactly
\* when the last one has left.
PermitsAddUp ==
    IF pc[0] = "join"
    THEN workersIn = fork + Cardinality(InRound) /\ join = (IF workersIn = 0 THEN 1 ELSE 0)
    ELSE InRound = {} /\ fork = 0 /\ join = 0 /\ workersIn = 0

\* GaThread::Start starts only threads whose function has returned.
StoppedHaveReturned ==
    cpc # "killed" => \A t \in Threads : status[t] = "STOPPED" => pc[t] = "none"

\* A generation that has passed the join ends in the state RUNNING.
RunningInGeneration == pc[0] \in {"after", "check"} => state = "RUNNING"

IInv ==
    /\ TypeOK
    /\ PlacesDiffer
    /\ LocksHeld
    /\ PermitsAddUp
    /\ StoppedHaveReturned
    /\ RunningInGeneration

-----------------------------------------------------------------------------
\* The workers in a round can be counted.
LEMMA InRoundFinite ==
    /\ IsFiniteSet(InRound)
    /\ Cardinality(InRound) \in Nat
    /\ Cardinality(InRound) = 0 <=> InRound = {}
  <1>1. IsFiniteSet(Workers)
    BY FS_Interval, NumWorkersAssumption DEF Workers
  <1>2. InRound \in SUBSET Workers
    BY DEF InRound
  <1>3. IsFiniteSet(InRound)
    BY <1>1, <1>2, FS_Subset
  <1> QED
    BY <1>3, FS_CardinalityType, FS_EmptySet

\* Moves of control, and of threads that do not enter or leave a round, do not
\* change the set of workers in it.
LEMMA SameRound ==
    ASSUME \A w \in Workers : pc'[w] \in {"check", "work", "quit"} <=> pc[w] \in {"check", "work", "quit"}
    PROVE  InRound' = InRound
  BY DEF InRound

LEMMA ControlIsNoWorker == 0 \in Threads /\ 0 \notin Workers /\ Workers \subseteq Threads
  BY NumWorkersAssumption DEF Threads, Workers

-----------------------------------------------------------------------------
LEMMA InitInvariant == Init => IInv
  <1> SUFFICES ASSUME Init PROVE IInv
    OBVIOUS
  <1>1. TypeOK
    BY NumWorkersAssumption, HistoryAssumption, FitnessAssumption, MaxCallsAssumption, ControlIsNoWorker
    DEF Init, TypeOK, States, NotRunning, Owners
  <1>2. InRound = {}
    BY ControlIsNoWorker DEF Init, InRound
  <1> QED
    BY <1>1, <1>2, ControlIsNoWorker
    DEF IInv, Init, PlacesDiffer, LocksHeld, PermitsAddUp, StoppedHaveReturned, RunningInGeneration

\* Control keeps the invariant.
LEMMA ControlInvariant == IInv /\ Control => IInv'
  <1> SUFFICES ASSUME IInv, Control PROVE IInv'
    OBVIOUS
  <1> USE ControlIsNoWorker DEF IInv, At, Goto
  <1>1. InRound' = InRound
    <2>1. \A w \in Workers : pc'[w] = pc[w]
      BY DEF TypeOK, Control, BlockParameterChanges, BlockStateChange, ForkWorkers, JoinWorkers, AfterWorkers,
             CheckStopCriteria, ReleaseStateChange, ReleaseParameterChanges
    <2> QED
      BY <2>1, SameRound
  <1>2. Cardinality(InRound) \in Nat /\ (Cardinality(InRound) = 0 <=> InRound = {})
    BY InRoundFinite
  <1>3. CASE BlockParameterChanges
    BY <1>1, <1>3 DEF BlockParameterChanges, TakeParamLock, TypeOK, PlacesDiffer, LocksHeld, PermitsAddUp,
       StoppedHaveReturned, RunningInGeneration, Owners, roundVars, populationVars, clientVars
  <1>4. CASE BlockStateChange
    BY <1>1, <1>4 DEF BlockStateChange, TypeOK, PlacesDiffer, LocksHeld, PermitsAddUp,
       StoppedHaveReturned, RunningInGeneration, Owners, roundVars, populationVars, clientVars
  <1>5. CASE ForkWorkers
    <2>1. TypeOK'
      BY <1>5, NumWorkersAssumption, FitnessAssumption DEF ForkWorkers, TypeOK, lockVars, clientVars
    <2>2. PermitsAddUp'
      BY <1>1, <1>2, <1>5, NumWorkersAssumption DEF ForkWorkers, TypeOK, PermitsAddUp
    <2> QED
      BY <2>1, <2>2, <1>5 DEF ForkWorkers, TypeOK, PlacesDiffer, LocksHeld, StoppedHaveReturned,
         RunningInGeneration, lockVars, clientVars
  <1>6. CASE JoinWorkers
    <2>1. TypeOK'
      BY <1>6 DEF JoinWorkers, TypeOK, Owners, lockVars, populationVars, clientVars
    <2>2. PermitsAddUp'
      BY <1>1, <1>2, <1>6 DEF JoinWorkers, TypeOK, PermitsAddUp
    <2> QED
      BY <2>1, <2>2, <1>6 DEF JoinWorkers, TypeOK, PlacesDiffer, LocksHeld, StoppedHaveReturned,
         RunningInGeneration, lockVars, clientVars
  <1>7. CASE AfterWorkers
    <2>1. TypeOK'
      BY <1>7 DEF AfterWorkers, Replacement, Publish, TypeOK, lockVars, roundVars, clientVars
    <2> QED
      BY <2>1, <1>1, <1>7 DEF AfterWorkers, TypeOK, PlacesDiffer, LocksHeld, PermitsAddUp,
         StoppedHaveReturned, RunningInGeneration, lockVars, roundVars, clientVars
  <1>8. CASE CheckStopCriteria
    <2>1. TypeOK'
      BY <1>8, HistoryAssumption DEF CheckStopCriteria, EvaluateCriterion, TypeOK, States, NotRunning,
         lockVars, roundVars, populationVars, clientVars
    <2> QED
      BY <2>1, <1>1, <1>8 DEF CheckStopCriteria, TypeOK, PlacesDiffer, LocksHeld, PermitsAddUp,
         StoppedHaveReturned, RunningInGeneration, lockVars, roundVars, clientVars
  <1>9. CASE ReleaseStateChange
    BY <1>1, <1>9 DEF ReleaseStateChange, TypeOK, PlacesDiffer, LocksHeld, PermitsAddUp,
       StoppedHaveReturned, RunningInGeneration, Owners, roundVars, populationVars, clientVars
  <1>10. CASE ReleaseParameterChanges
    BY <1>1, <1>10 DEF ReleaseParameterChanges, TypeOK, PlacesDiffer, LocksHeld, PermitsAddUp,
       StoppedHaveReturned, RunningInGeneration, Owners, roundVars, populationVars, clientVars
  <1> QED
    BY <1>3, <1>4, <1>5, <1>6, <1>7, <1>8, <1>9, <1>10 DEF Control

\* Workers keep the invariant: taking a permit adds a worker to the round, and
\* leaving takes it out again together with one of workersIn.
LEMMA WorkerInvariant == ASSUME IInv, NEW w \in Workers, Worker(w) PROVE IInv'
  <1> USE ControlIsNoWorker DEF IInv, At, Goto
  <1>1. InRound \in SUBSET Workers /\ IsFiniteSet(InRound) /\ Cardinality(InRound) \in Nat
        /\ (Cardinality(InRound) = 0 <=> InRound = {})
    BY InRoundFinite DEF InRound
  <1>2. pc'[0] = pc[0]
    BY DEF TypeOK, Worker, TakePermit, CheckState, LeaveRound
  <1>3. CASE TakePermit(w)
    <2>1. InRound' = InRound \cup {w} /\ w \notin InRound
      BY <1>3 DEF TakePermit, InRound, TypeOK
    <2>2. Cardinality(InRound') = Cardinality(InRound) + 1
      BY <1>1, <2>1, FS_AddElement
    <2>3. TypeOK'
      BY <1>3 DEF TakePermit, TypeOK, lockVars, populationVars, clientVars
    <2>4. PermitsAddUp'
      BY <1>1, <1>2, <1>3, <2>1, <2>2 DEF TakePermit, TypeOK, PermitsAddUp
    <2> QED
      BY <2>3, <2>4, <1>2, <1>3 DEF TakePermit, TypeOK, PlacesDiffer, LocksHeld, StoppedHaveReturned,
         RunningInGeneration, lockVars, clientVars
  <1>4. CASE CheckState(w)
    <2>1. InRound' = InRound
      BY <1>4, SameRound DEF CheckState, TypeOK
    <2>2. TypeOK'
      BY <1>4 DEF CheckState, TypeOK, lockVars, roundVars, populationVars, clientVars
    <2> QED
      BY <2>1, <2>2, <1>2, <1>4 DEF CheckState, TypeOK, PlacesDiffer, LocksHeld, PermitsAddUp,
         StoppedHaveReturned, RunningInGeneration, lockVars, roundVars, clientVars
  <1>5. CASE LeaveRound(w)
    <2>1. InRound' = InRound \ {w} /\ w \in InRound
      BY <1>5 DEF LeaveRound, InRound, TypeOK
    <2>2. Cardinality(InRound') = Cardinality(InRound) - 1
      BY <1>1, <2>1, FS_RemoveElement
    <2>3. pc[0] = "join"
      BY <2>1 DEF PermitsAddUp
    <2>4. Cardinality(InRound') \in Nat
      BY <1>1, <2>1, FS_RemoveElement, FS_CardinalityType
    <2>5. workersIn - 1 \in Nat /\ workersIn = fork + Cardinality(InRound)
      BY <1>1, <2>2, <2>3, <2>4 DEF PermitsAddUp, TypeOK
    <2>6. TypeOK'
      BY <1>5, <2>5 DEF LeaveRound, PostWhenLastLeaves, TypeOK, lockVars, populationVars, clientVars
    <2>7. PermitsAddUp'
      <3>1. workersIn' = workersIn - 1 /\ fork' = fork /\ join' = IF workersIn = 1 THEN join + 1 ELSE join
        BY <1>5 DEF LeaveRound, PostWhenLastLeaves
      <3>2. workersIn # 0 /\ join = 0
        BY <2>3, <2>5 DEF PermitsAddUp, TypeOK
      <3> QED
        BY <1>1, <1>2, <2>2, <2>3, <2>5, <3>1, <3>2 DEF TypeOK, PermitsAddUp
    <2> QED
      BY <2>6, <2>7, <1>2, <1>5 DEF LeaveRound, TypeOK, PlacesDiffer, LocksHeld, StoppedHaveReturned,
         RunningInGeneration, lockVars, clientVars
  <1> QED
    BY <1>3, <1>4, <1>5 DEF Worker

\* So does the end of a thread.
LEMMA EndThreadInvariant == ASSUME IInv, NEW t \in Threads, EndThread(t) PROVE IInv'
  <1> USE ControlIsNoWorker DEF IInv, At, Goto
  <1>1. InRound' = InRound
    BY SameRound DEF EndThread, TypeOK
  <1>2. TypeOK'
    BY DEF EndThread, TypeOK, lockVars, roundVars, populationVars, clientVars
  <1> QED
    BY <1>1, <1>2 DEF EndThread, TypeOK, PlacesDiffer, LocksHeld, PermitsAddUp,
       StoppedHaveReturned, RunningInGeneration, lockVars, roundVars, clientVars

\* The client keeps the invariant.  It gets the state lock only while no
\* generation is under way, and starts threads that are in no round.
LEMMA ClientInvariant == IInv /\ Client => IInv'
  <1> SUFFICES ASSUME IInv, Client PROVE IInv'
    OBVIOUS
  <1> USE ControlIsNoWorker DEF IInv, At, Goto
  <1>1. ASSUME NEW continue \in BOOLEAN, StartSolving(continue) PROVE IInv'
    <2>1. InRound' = InRound
      BY <1>1, SameRound DEF StartSolving, threadVars
    <2>2. populationVars' = populationVars \/ Initialize
      BY <1>1 DEF StartSolving
    <2>3. generation' \in 0 .. 2 /\ best' \in Chromosome /\ previous' \in Int
      BY <2>2, FitnessAssumption DEF Initialize, populationVars, TypeOK
    <2>4. TypeOK'
      BY <1>1, <2>3, NumWorkersAssumption, MaxCallsAssumption DEF StartSolving, Call, TypeOK, States, NotRunning,
         Owners, roundVars, threadVars
    <2> QED
      BY <1>1, <2>1, <2>4 DEF StartSolving, StateChangeAllowed, Call, TypeOK, PlacesDiffer, LocksHeld, PermitsAddUp,
         StoppedHaveReturned, RunningInGeneration, roundVars, threadVars
  <1>2. CASE StartThread
    <2>1. pc[starting] = "none" /\ starting \in Threads
      BY <1>2 DEF StartThread, StoppedHaveReturned, TypeOK
    <2>2. InRound' = InRound
      BY <1>2, <2>1, SameRound DEF StartThread, TypeOK
    <2>3. starting # NumWorkers => starting + 1 \in Threads
      BY <2>1, NumWorkersAssumption DEF Threads
    <2>4. TypeOK'
      BY <1>2, <2>1, <2>3 DEF StartThread, TypeOK, lockVars, roundVars, populationVars
    <2>5. PlacesDiffer'
      BY <1>2, <2>1 DEF StartThread, PlacesDiffer, TypeOK, Threads, Workers
    <2> QED
      BY <1>2, <2>1, <2>2, <2>4, <2>5 DEF StartThread, TypeOK, LocksHeld, PermitsAddUp,
         StoppedHaveReturned, RunningInGeneration, lockVars, roundVars
  <1>3. CASE StartFails
    <2>1. InRound' = InRound
      BY <1>3, SameRound DEF StartFails, threadVars
    <2> QED
      BY <1>3, <2>1 DEF StartFails, TypeOK, PlacesDiffer, LocksHeld, PermitsAddUp, StoppedHaveReturned,
         RunningInGeneration, lockVars, roundVars, threadVars, populationVars
  <1>4. CASE StartReturns
    <2>1. InRound' = InRound
      BY <1>4, SameRound DEF StartReturns, threadVars
    <2> QED
      BY <1>4, <2>1 DEF StartReturns, TypeOK, PlacesDiffer, LocksHeld, PermitsAddUp, StoppedHaveReturned,
         RunningInGeneration, Owners, roundVars, threadVars, populationVars
  <1>5. CASE StopSolving \/ PauseSolving
    <2>1. InRound' = InRound
      BY <1>5, SameRound DEF StopSolving, PauseSolving, Halt, threadVars
    <2> QED
      BY <1>5, <2>1, MaxCallsAssumption DEF StopSolving, PauseSolving, Halt, Call, StateChangeAllowed, TypeOK, States,
         NotRunning, PlacesDiffer, LocksHeld, PermitsAddUp, StoppedHaveReturned, RunningInGeneration,
         lockVars, roundVars, threadVars, populationVars
  <1>6. CASE SetStopCriteria
    <2>1. InRound' = InRound
      BY <1>6, SameRound DEF SetStopCriteria, threadVars
    <2> QED
      BY <1>6, <2>1, MaxCallsAssumption DEF SetStopCriteria, Call, TypeOK, PlacesDiffer, LocksHeld, PermitsAddUp,
         StoppedHaveReturned, RunningInGeneration, lockVars, roundVars, threadVars, populationVars
  <1>7. CASE CriteriaSet
    <2>1. InRound' = InRound
      BY <1>7, SameRound DEF CriteriaSet, threadVars
    <2> QED
      BY <1>7, <2>1, HistoryAssumption DEF CriteriaSet, TypeOK, PlacesDiffer, LocksHeld, PermitsAddUp,
         StoppedHaveReturned, RunningInGeneration, lockVars, roundVars, threadVars, populationVars
  <1>8. CASE BeginParameterChange
    <2>1. InRound' = InRound
      BY <1>8, SameRound DEF BeginParameterChange, threadVars
    <2> QED
      BY <1>8, <2>1, MaxCallsAssumption DEF BeginParameterChange, Call, TypeOK, Owners, PlacesDiffer, LocksHeld,
         PermitsAddUp, StoppedHaveReturned, RunningInGeneration, roundVars, threadVars, populationVars
  <1>9. CASE EndParameterChange
    <2>1. InRound' = InRound
      BY <1>9, SameRound DEF EndParameterChange, threadVars
    <2> QED
      BY <1>9, <2>1 DEF EndParameterChange, TypeOK, Owners, PlacesDiffer, LocksHeld,
         PermitsAddUp, StoppedHaveReturned, RunningInGeneration, roundVars, threadVars, populationVars
  <1>10. CASE ReadResult
    <2>1. InRound' = InRound
      BY <1>10, SameRound DEF ReadResult, threadVars
    <2> QED
      BY <1>10, <2>1 DEF ReadResult, TypeOK, PlacesDiffer, LocksHeld, PermitsAddUp, StoppedHaveReturned,
         RunningInGeneration, lockVars, roundVars, threadVars, populationVars
  <1>11. CASE DestroyThread
    <2>1. InRound' = InRound
      BY <1>11, SameRound DEF DestroyThread, threadVars
    <2>2. starting # NumWorkers => starting + 1 \in Threads
      BY NumWorkersAssumption DEF Threads, TypeOK
    <2> QED
      BY <1>11, <2>1, <2>2 DEF DestroyThread, TypeOK, PlacesDiffer, LocksHeld, PermitsAddUp, StoppedHaveReturned,
         RunningInGeneration, lockVars, roundVars, threadVars, populationVars
  <1> QED
    BY <1>1, <1>2, <1>3, <1>4, <1>5, <1>6, <1>7, <1>8, <1>9, <1>10, <1>11 DEF Client

LEMMA NextInvariant == IInv /\ [Next]_vars => IInv'
  <1> SUFFICES ASSUME IInv, [Next]_vars PROVE IInv'
    OBVIOUS
  <1>1. CASE UNCHANGED vars
    <2>1. InRound' = InRound
      BY <1>1, SameRound DEF vars, threadVars
    <2> QED
      BY <1>1, <2>1 DEF IInv, vars, TypeOK, PlacesDiffer, LocksHeld, PermitsAddUp, StoppedHaveReturned,
         RunningInGeneration, lockVars, roundVars, threadVars, populationVars, clientVars
  <1> QED
    BY <1>1, ControlInvariant, WorkerInvariant, EndThreadInvariant, ClientInvariant DEF Next

LEMMA Invariant == Spec => []IInv
  <1>1. Init => IInv
    BY InitInvariant
  <1>2. IInv /\ [Next]_vars => IInv'
    BY NextInvariant
  <1> QED
    BY <1>1, <1>2, PTL DEF Spec

-----------------------------------------------------------------------------
\* The state stays within its types whatever the client calls: in particular no
\* counter of a round falls below zero, and the count of failed generations
\* never exceeds the history depth.
THEOREM TypeCorrect == Spec => []TypeOK
  <1>1. IInv => TypeOK
    BY DEF IInv
  <1> QED
    BY <1>1, Invariant, PTL

\* Client, control and workers never use the population at the same time, for
\* any number of workers.
THEOREM PopulationHasOneUser == Spec => []PopulationExclusive
  <1>1. IInv => PopulationExclusive
    <2> SUFFICES ASSUME IInv PROVE PopulationExclusive
      OBVIOUS
    <2>1. InRound # {} => pc[0] = "join"
      BY DEF IInv, PermitsAddUp
    <2>2. stateLock # "control" => pc[0] \notin {"fork", "join", "after", "check", "release"}
      BY DEF IInv, LocksHeld
    <2>3. cpc \in {"start", "started"} => stateLock # "control"
      BY DEF IInv, LocksHeld
    <2> QED
      BY <2>1, <2>2, <2>3 DEF PopulationExclusive
  <1> QED
    BY <1>1, Invariant, PTL

\* Rounds do not mix: when control goes on, all workers are out and no permit
\* is left.
THEOREM RoundsDoNotMix == Spec => []RoundBarrier
  <1>1. IInv => RoundBarrier
    BY DEF IInv, PermitsAddUp, RoundBarrier
  <1> QED
    BY <1>1, Invariant, PTL

\* Parameters change only between generations.
THEOREM ParametersChangeBetweenRounds == Spec => []ChangeOnlyBetweenRounds
  <1>1. IInv => ChangeOnlyBetweenRounds
    BY DEF IInv, LocksHeld, PlacesDiffer, PermitsAddUp, ChangeOnlyBetweenRounds
  <1> QED
    BY <1>1, Invariant, PTL

\* Observers hear of a new best only while the search is running and its state
\* is locked.
THEOREM PublishesWhileRunning == Spec => PublishOnlyWhileRunning
  <1>1. IInv /\ [Next]_vars => [published' # published => state = "RUNNING" /\ stateLock = "control"]_vars
    <2> SUFFICES ASSUME IInv, Next, published' # published
                 PROVE  state = "RUNNING" /\ stateLock = "control"
      OBVIOUS
    <2>1. AfterWorkers
      BY DEF Next, Control, BlockParameterChanges, BlockStateChange, ForkWorkers, JoinWorkers, CheckStopCriteria,
         ReleaseStateChange, ReleaseParameterChanges, Worker, TakePermit, CheckState, LeaveRound, EndThread,
         Client, StartSolving, StartThread, StartFails, StartReturns, StopSolving, PauseSolving, Halt,
         SetStopCriteria, CriteriaSet, BeginParameterChange, EndParameterChange, ReadResult, DestroyThread
    <2> QED
      BY <2>1 DEF AfterWorkers, At, IInv, RunningInGeneration, LocksHeld
  <1> QED
    BY <1>1, Invariant, PTL DEF Spec, PublishOnlyWhileRunning

-----------------------------------------------------------------------------
(***************************************************************************)
(* The search as the program uses it: one fresh start.  What is published  *)
(* is then the best of the population, or nothing so far.  Nothing has     *)
(* been published only before the first generation has ended, and it does  *)
(* end if control is past the fork: a state that control saw as RUNNING    *)
(* stays so until it checks the criterion.                                 *)
(***************************************************************************)
OneSearch == Calls = {"StartNew"} /\ MaxCalls = 1

FirstRound == generation = 1 /\ pc[0] \in {"join", "after"} /\ state = "RUNNING"

SearchInv ==
    /\ published \in {None, best}
    /\ published = None /\ generation # 0 => FirstRound
    /\ state = "CRITERIA_STOPPED" => published # None
    /\ state = "RUNNING" /\ pc[0] \in {"join", "after", "check"} => generation # 0
    /\ calls = 0 => published = None /\ state = "UNINITIALIZED" /\ pc[0] = "none" /\ cpc # "start"
    /\ cpc = "start" => oldState = "UNINITIALIZED"

LEMMA InitSearch == Init => SearchInv
  BY ControlIsNoWorker DEF Init, SearchInv, FirstRound

\* Steps that touch none of what the invariant is about.
LEMMA SearchKept ==
    ASSUME SearchInv, pc'[0] = pc[0], calls' = calls,
           UNCHANGED <<state, published, best, generation>>,
           cpc' = "start" => cpc = "start" /\ oldState' = oldState
    PROVE  SearchInv'
  BY DEF SearchInv, FirstRound

LEMMA ControlSearches ==
    ASSUME IInv, SearchInv, Control
    PROVE  SearchInv'
  <1> USE ControlIsNoWorker DEF At, Goto
  <1>1. DOMAIN pc = Threads /\ generation \in 0 .. 2 /\ best \in Chromosome
    BY DEF IInv, TypeOK
  <1>2. pc[0] \in {"after", "check"} => state = "RUNNING"
    BY DEF IInv, RunningInGeneration
  <1>3. pc[0] # "none" => calls # 0
    BY DEF SearchInv
  <1>4. CASE BlockParameterChanges \/ BlockStateChange \/ ReleaseStateChange \/ ReleaseParameterChanges
    <2>1. UNCHANGED <<state, published, best, generation, calls, cpc, oldState>>
      BY <1>4 DEF BlockParameterChanges, BlockStateChange, ReleaseStateChange, ReleaseParameterChanges,
                  populationVars, clientVars
    <2>2. pc'[0] \notin {"join", "after", "check"} /\ pc[0] \notin {"none", "join", "after", "check"}
      BY <1>1, <1>4 DEF BlockParameterChanges, BlockStateChange, ReleaseStateChange, ReleaseParameterChanges
    <2> QED
      BY <1>3, <2>1, <2>2 DEF SearchInv, FirstRound
  <1>5. CASE ForkWorkers
    <2>1. /\ UNCHANGED <<state, published, best, calls, cpc, oldState>>
          /\ pc[0] = "fork" /\ pc'[0] = "join"
      BY <1>1, <1>5 DEF ForkWorkers, clientVars
    <2>2. generation' = IF state # "RUNNING" THEN generation ELSE IF generation = 2 THEN 2 ELSE generation + 1
      BY <1>5 DEF ForkWorkers
    <2> QED
      BY <1>1, <1>3, <2>1, <2>2 DEF SearchInv, FirstRound
  <1>6. CASE JoinWorkers
    <2>1. /\ UNCHANGED <<state, published, best, generation, calls, cpc, oldState>>
          /\ pc[0] = "join" /\ pc'[0] = IF state = "RUNNING" THEN "after" ELSE "returned"
      BY <1>1, <1>6 DEF JoinWorkers, populationVars, clientVars
    <2> QED
      BY <1>3, <2>1 DEF SearchInv, FirstRound
  <1>7. CASE AfterWorkers
    <2>1. /\ UNCHANGED <<state, generation, calls, cpc, oldState>>
          /\ pc[0] = "after" /\ pc'[0] = "check"
          /\ best' \in Chromosome
          /\ published' = IF generation = 1 \/ best' # best THEN best' ELSE published
      BY <1>1, <1>7 DEF AfterWorkers, Replacement, Publish, clientVars
    <2>2. generation # 0
      BY <1>2, <2>1 DEF SearchInv
    <2>3. published' = best'
      BY <2>1, <2>2 DEF SearchInv, FirstRound
    <2>4. published' # None
      BY <2>1, <2>3, NoneAssumption
    <2> QED
      BY <1>3, <2>1, <2>2, <2>3, <2>4 DEF SearchInv, FirstRound
  <1>8. CASE CheckStopCriteria
    <2>1. /\ UNCHANGED <<published, best, generation, calls, cpc, oldState>>
          /\ pc[0] = "check" /\ pc'[0] = "release" /\ state = "RUNNING"
      BY <1>1, <1>2, <1>8 DEF CheckStopCriteria, populationVars, clientVars
    <2>2. published # None
      BY <2>1 DEF SearchInv, FirstRound
    <2> QED
      BY <1>3, <2>1, <2>2 DEF SearchInv, FirstRound
  <1> QED
    BY <1>4, <1>5, <1>6, <1>7, <1>8 DEF Control

LEMMA ClientSearches ==
    ASSUME OneSearch, IInv, SearchInv, Client
    PROVE  SearchInv'
  <1> USE ControlIsNoWorker DEF At, Goto
  <1>1. DOMAIN pc = Threads /\ best \in Chromosome /\ starting \in Threads /\ calls \in 0 .. 1
    BY DEF IInv, TypeOK, OneSearch
  <1>2. ASSUME NEW continue \in BOOLEAN, StartSolving(continue)
        PROVE  SearchInv'
    <2>1. calls = 0 /\ calls' = 1
      BY <1>1, <1>2 DEF StartSolving, Call, OneSearch
    <2>2. continue = FALSE
      BY <1>2 DEF StartSolving, Call, OneSearch
    <2>3. published = None /\ state = "UNINITIALIZED" /\ pc[0] = "none"
      BY <2>1 DEF SearchInv
    <2>4. /\ state' = "RUNNING" /\ generation' = 0 /\ oldState' = state
          /\ UNCHANGED <<published, pc>>
      BY <1>2, <2>2, <2>3 DEF StartSolving, MayStart, Initialize, threadVars
    <2> QED
      BY <2>1, <2>3, <2>4 DEF SearchInv, FirstRound
  <1>3. CASE StartThread
    <2>1. /\ UNCHANGED <<state, published, best, generation, calls, oldState>>
          /\ cpc = "start" /\ calls' = calls
      BY <1>3 DEF StartThread, populationVars
    <2>2. pc'[0] = pc[0] \/ (pc'[0] = "round" /\ pc[0] = "none")
      BY <1>1, <1>3 DEF StartThread, IInv, StoppedHaveReturned
    <2>3. calls # 0
      BY <1>1, <2>1 DEF SearchInv
    <2> QED
      BY <2>1, <2>2, <2>3 DEF SearchInv, FirstRound
  <1>4. CASE StartFails
    <2>1. /\ UNCHANGED <<published, best, generation, calls, oldState, pc>>
          /\ cpc = "start" /\ cpc' = "started" /\ state' = oldState
      BY <1>4 DEF StartFails, populationVars, threadVars
    <2>2. pc[0] \notin {"join", "after", "check"}
      BY <2>1 DEF IInv, LocksHeld
    <2> QED
      BY <2>1, <2>2 DEF SearchInv, FirstRound
  <1>5. CASE StartReturns \/ StopSolving \/ PauseSolving \/ SetStopCriteria \/ CriteriaSet
             \/ BeginParameterChange \/ EndParameterChange \/ ReadResult \/ DestroyThread
    <2>1. ~StopSolving /\ ~PauseSolving /\ ~SetStopCriteria /\ ~BeginParameterChange
      BY DEF StopSolving, PauseSolving, Halt, SetStopCriteria, BeginParameterChange, Call, OneSearch
    <2>2. /\ UNCHANGED <<state, published, best, generation, pc, calls>>
          /\ cpc' # "start" \/ (cpc' = cpc /\ oldState' = oldState)
      BY <1>5, <2>1 DEF StartReturns, CriteriaSet, EndParameterChange, ReadResult, DestroyThread,
                        populationVars, threadVars
    <2> QED
      BY <2>2, SearchKept
  <1> QED
    BY <1>2, <1>3, <1>4, <1>5 DEF Client

LEMMA NextSearches ==
    ASSUME OneSearch, IInv, SearchInv, [Next]_vars
    PROVE  SearchInv'
  <1> USE ControlIsNoWorker DEF At, Goto
  <1>1. DOMAIN pc = Threads
    BY DEF IInv, TypeOK
  <1>2. ASSUME NEW w \in Workers, Worker(w) PROVE SearchInv'
    <2>1. pc'[0] = pc[0] /\ UNCHANGED <<state, published, best, generation, calls, cpc, oldState>>
      BY <1>1, <1>2 DEF Worker, TakePermit, CheckState, LeaveRound, populationVars, clientVars
    <2> QED
      BY <2>1, SearchKept
  <1>3. ASSUME NEW t \in Threads, EndThread(t) PROVE SearchInv'
    <2>1. /\ UNCHANGED <<state, published, best, generation, calls, cpc, oldState>>
          /\ pc'[0] = pc[0] \/ (pc[0] = "returned" /\ pc'[0] = "none")
      BY <1>1, <1>3 DEF EndThread, populationVars, clientVars
    <2> QED
      BY <2>1 DEF SearchInv, FirstRound
  <1>4. CASE UNCHANGED vars
    <2>1. UNCHANGED <<state, published, best, generation, calls, cpc, oldState, pc>>
      BY <1>4 DEF vars, populationVars, clientVars, threadVars
    <2> QED
      BY <2>1, SearchKept
  <1> QED
    BY <1>2, <1>3, <1>4, ControlSearches, ClientSearches DEF Next

LEMMA SearchInvariant == ASSUME OneSearch PROVE Spec => [](IInv /\ SearchInv)
  <1>1. Init => IInv /\ SearchInv
    BY InitInvariant, InitSearch
  <1>2. IInv /\ SearchInv /\ [Next]_vars => (IInv /\ SearchInv)'
    BY NextInvariant, NextSearches
  <1> QED
    BY <1>1, <1>2, PTL DEF Spec

\* What Step04 reads after Step03 saw GAS_CRITERIA_STOPPED is the best tour of the
\* search, whenever control was preempted between publishing and stopping, and
\* also if a thread could not be created.
THEOREM AnswerIsTheBest == ASSUME OneSearch PROVE Spec => []StoppedMeansPublished
  <1>1. IInv /\ SearchInv => StoppedMeansPublished
    BY DEF SearchInv, StoppedMeansPublished
  <1> QED
    BY <1>1, SearchInvariant, PTL

\* Only AfterWorkers publishes.
LEMMA WhoPublishes ==
    ASSUME Next, published' # published
    PROVE  AfterWorkers
  BY DEF Next, Control, BlockParameterChanges, BlockStateChange, ForkWorkers, JoinWorkers, CheckStopCriteria,
         ReleaseStateChange, ReleaseParameterChanges, Worker, TakePermit, CheckState, LeaveRound, EndThread,
         Client, StartSolving, StartThread, StartFails, StartReturns, StopSolving, PauseSolving, Halt,
         SetStopCriteria, CriteriaSet, BeginParameterChange, EndParameterChange, ReadResult, DestroyThread

\* The tour the view holds gives way to a shorter one only: elitism carries over
\* from the population to what is published, because nothing but the best of
\* the population ever was.
THEOREM PublishedOnlyImproves == ASSUME OneSearch PROVE Spec => NeverPublishWorse
  <1>1. IInv /\ SearchInv /\ [Next]_vars =>
            [published # None /\ published' # published => Fitness[published'] < Fitness[published]]_vars
    <2> SUFFICES ASSUME SearchInv, Next, published # None, published' # published
                 PROVE  Fitness[published'] < Fitness[published]
      OBVIOUS
    <2>1. AfterWorkers
      BY WhoPublishes
    <2>2. published = best
      BY DEF SearchInv
    <2>3. published' = best' /\ best' # best
      BY <2>1, <2>2 DEF AfterWorkers, Publish
    <2> QED
      BY <2>1, <2>2, <2>3 DEF AfterWorkers, Replacement
  <1> QED
    BY <1>1, SearchInvariant, PTL DEF Spec, NeverPublishWorse

\* No start fails if threads can be created: those of the only search are new.
FreshThreads ==
    /\ calls = 0 => \A t \in Threads : status[t] = "STOPPED"
    /\ cpc = "start" => \A t \in Threads : t >= starting => status[t] = "STOPPED"

LEMMA ThreadsAreFresh ==
    ASSUME OneSearch, IInv, SearchInv, FreshThreads, [Next]_vars
    PROVE  FreshThreads'
  <1>0. /\ status \in [Threads -> {"RUNNING", "STOPPED"}] /\ calls \in 0 .. 1
        /\ starting \in Threads /\ Threads \subseteq Nat
    BY NumWorkersAssumption DEF IInv, TypeOK, OneSearch, Threads
  <1>1. CASE UNCHANGED <<status, calls, cpc, starting>>
    BY <1>1 DEF FreshThreads
  <1>2. ASSUME NEW continue \in BOOLEAN, StartSolving(continue) PROVE FreshThreads'
    <2>1. calls = 0 /\ calls' = 1 /\ status' = status
      BY <1>0, <1>2 DEF StartSolving, Call, OneSearch, threadVars
    <2> QED
      BY <2>1 DEF FreshThreads
  <1>3. CASE StartThread
    <2>1. /\ calls' = calls /\ cpc = "start" /\ status' = [status EXCEPT ![starting] = "RUNNING"]
          /\ cpc' = "start" => starting' = starting + 1
      BY <1>3 DEF StartThread
    <2>2. calls # 0
      BY <2>1 DEF SearchInv
    <2> QED
      BY <1>0, <2>1, <2>2 DEF FreshThreads
  <1>4. ASSUME NEW t \in Threads, EndThread(t) PROVE FreshThreads'
    BY <1>0, <1>4 DEF EndThread, clientVars, FreshThreads
  <1>5. CASE StartFails \/ StartReturns \/ CriteriaSet \/ EndParameterChange \/ ReadResult \/ DestroyThread
    <2>1. /\ calls' = calls /\ cpc' # "start"
          /\ \A t \in Threads : status'[t] \in {status[t], "STOPPED"}
      BY <1>0, <1>5 DEF StartFails, StartReturns, CriteriaSet, EndParameterChange, ReadResult, DestroyThread,
                  threadVars
    <2> QED
      BY <2>1 DEF FreshThreads
  <1> QED
    BY <1>1, <1>2, <1>3, <1>4, <1>5
    DEF Next, vars, Control, BlockParameterChanges, BlockStateChange, ForkWorkers, JoinWorkers, AfterWorkers,
        CheckStopCriteria, ReleaseStateChange, ReleaseParameterChanges, Worker, TakePermit, CheckState, LeaveRound,
        Client, StopSolving, PauseSolving, Halt, SetStopCriteria, BeginParameterChange, Call, OneSearch,
        threadVars, clientVars

LEMMA StepOfService ==
    ASSUME OneSearch, CreateMayFail = FALSE, IInv, SearchInv, FreshThreads, [Next]_vars
    PROVE  [Service!Next]_(Service!svars)
  <1>1. CASE UNCHANGED <<state, published>>
    BY <1>1 DEF Service!svars, Phase
  <1>2. ASSUME NEW continue \in BOOLEAN, StartSolving(continue) PROVE Service!Begin
    <2>1. calls = 0 /\ continue = FALSE
      BY <1>2 DEF StartSolving, Call, OneSearch, IInv, TypeOK
    <2>2. state = "UNINITIALIZED" /\ state' = "RUNNING" /\ published' = published
      BY <1>2, <2>1 DEF StartSolving, MayStart, SearchInv
    <2> QED
      BY <2>2 DEF Service!Begin, Phase
  <1>3. CASE AfterWorkers
    <2>1. state = "RUNNING" /\ state' = state
      BY <1>3 DEF AfterWorkers, At, IInv, RunningInGeneration
    <2>2. published' = published \/ published' \in Chromosome
      BY <1>3 DEF AfterWorkers, Replacement, Publish, IInv, TypeOK
    <2> QED
      BY <1>1, <2>1, <2>2 DEF Service!Next, Service!Improve, Phase
  <1>4. CASE CheckStopCriteria
    <2>1. state = "RUNNING" /\ pc[0] = "check" /\ published' = published
      BY <1>4 DEF CheckStopCriteria, At, IInv, RunningInGeneration
    <2>2. state' \in {state, "CRITERIA_STOPPED"}
      BY <1>4 DEF CheckStopCriteria, EvaluateCriterion
    <2>3. published # None
      BY <2>1 DEF SearchInv, FirstRound
    <2> QED
      BY <1>1, <2>1, <2>2, <2>3 DEF Service!Next, Service!Announce, Phase
  <1>5. ~StartFails
    BY DEF StartFails, FreshThreads, IInv, TypeOK, Threads
  <1>6. ~StopSolving /\ ~PauseSolving
    BY DEF StopSolving, PauseSolving, Halt, Call, OneSearch
  <1>7. CASE UNCHANGED vars
    BY <1>1, <1>7 DEF vars
  <1>8. CASE Control
    BY <1>1, <1>3, <1>4, <1>8
    DEF Control, BlockParameterChanges, BlockStateChange, ForkWorkers, JoinWorkers, ReleaseStateChange,
        ReleaseParameterChanges
  <1>9. CASE Client
    <2>1. (\E continue \in BOOLEAN : StartSolving(continue)) \/ UNCHANGED <<state, published>>
      BY <1>5, <1>6, <1>9
      DEF Client, StartThread, StartReturns, SetStopCriteria, CriteriaSet, BeginParameterChange,
          EndParameterChange, ReadResult, DestroyThread
    <2> QED
      BY <1>1, <1>2, <2>1 DEF Service!Next
  <1>10. CASE (\E w \in Workers : Worker(w)) \/ (\E t \in Threads : EndThread(t))
    <2>1. UNCHANGED <<state, published>>
      BY <1>10 DEF Worker, TakePermit, CheckState, LeaveRound, EndThread
    <2> QED
      BY <1>1, <2>1
  <1> QED
    BY <1>7, <1>8, <1>9, <1>10 DEF Next

\* As long as threads can be created, the search is what Step04 relies on: it is
\* announced as over once, with an answer, and the answer stays.
THEOREM ImplementsSearchService ==
    ASSUME OneSearch, CreateMayFail = FALSE PROVE Spec => Service!SafeSpec
  <1>1. Init => FreshThreads /\ Service!Init
    BY NumWorkersAssumption DEF Init, FreshThreads, Service!Init, Phase, Threads
  <1>2. IInv /\ SearchInv /\ FreshThreads /\ [Next]_vars => FreshThreads'
    BY ThreadsAreFresh
  <1>3. IInv /\ SearchInv /\ FreshThreads /\ [Next]_vars => [Service!Next]_(Service!svars)
    BY StepOfService
  <1> QED
    BY <1>1, <1>2, <1>3, SearchInvariant, PTL DEF Spec, Service!SafeSpec
=============================================================================
