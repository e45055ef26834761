------------------------------ MODULE GaSolver ------------------------------
(***************************************************************************)
(* The multithreaded genetic search behind Step03: GaBaseAlgorithm,        *)
(* GaMultithreadingAlgorithm, GaIncrementalAlgorithm and the fitness       *)
(* progress stop criterion, with the client thread (t_function) that       *)
(* starts the search, polls its state and reads the best route.            *)
(*                                                                         *)
(* Thread 0 is the control thread, threads 1 .. NumWorkers are workers.    *)
(* Control opens a round by posting one fork permit per worker, waits for  *)
(* the last worker to post the join event, then replaces chromosomes,      *)
(* publishes a new best and evaluates the stop criterion, holding both the *)
(* parameter and the state lock all along.  A round in which the state is  *)
(* not RUNNING only tells the workers, and then control, to return.        *)
(*                                                                         *)
(* The bodies of StartSolving, StopSolving, PauseSolving,                  *)
(* CheckStopCriteria, ControlFlow, WorkFlow and StartThreads are in        *)
(* lib/libGeneticLibrary.a; a chromosome is abstracted to a model value    *)
(* with a fitness.  Definitions marked "Mutant" are no part of the model.  *)
(***************************************************************************)
EXTENDS Integers, FiniteSets

CONSTANTS
    NumWorkers,     \* GaMultithreadingAlgorithmParams: 1 in this program
    Chromosome,     \* the chromosomes that can be the best of a population
    Fitness,        \* Fitness[c]: length of the tour of c, minimised
    HistoryDepth,   \* TspCities::nGenerationLimit, 70000 in Step03
    Calls,          \* the calls of GaAlgorithm the client makes
    MaxCalls,       \* bound: how many of them
    CreateMayFail,  \* whether pthread_create may fail
    None

ASSUME NumWorkersAssumption == NumWorkers \in Nat \ {0}
ASSUME HistoryAssumption == HistoryDepth \in Nat \ {0}
ASSUME FitnessAssumption == Fitness \in [Chromosome -> Int]
ASSUME CallsAssumption ==
    Calls \subseteq {"StartNew", "Resume", "Pause", "Stop", "SetCriteria", "ChangeParameters"}
ASSUME MaxCallsAssumption == MaxCalls \in Nat
ASSUME NoneAssumption == None \notin Chromosome

Workers == 1 .. NumWorkers
Threads == 0 .. NumWorkers

VARIABLES
    state,          \* GaAlgorithmState
    stateLock,      \* owner of _syncStateChange
    paramLock,      \* owner of _syncParameterChanges
    fork,           \* permits of _workerForkSync
    join,           \* permits of _workerJoinSync (an "event" is a semaphore here)
    workersIn,      \* _workersThreadIn
    status,         \* status[t]: GaThreadStatus of _threads[t]
    pc,             \* pc[t]: where the flow function of thread t is
    generation,     \* GaStatistics::GetCurrentGeneration, counted up to 2
    best,           \* best chromosome of the population
    previous,       \* fitness of the best chromosome one generation earlier
    failed,         \* _current of GaFitnessProgressCriteriaParams
    published,      \* TSPView::_bestChromosome
    cpc,            \* where the client is
    oldState,       \* the state that a failed start restores
    starting,       \* the thread that StartThreads is about to start
    calls,          \* number of calls made
    result          \* what Step04 read

lockVars == <<stateLock, paramLock>>
roundVars == <<fork, join, workersIn>>
threadVars == <<status, pc>>
populationVars == <<generation, best, previous>>
clientVars == <<cpc, oldState, starting, calls, result>>
vars == <<state, lockVars, roundVars, threadVars, populationVars, failed, published, clientVars>>

NotRunning == {"UNINITIALIZED", "USER_STOPPED", "CRITERIA_STOPPED", "PAUSED"}
States == NotRunning \cup {"RUNNING"}
Owners == {"free", "client", "control"}

Init ==
    /\ state = "UNINITIALIZED"
    /\ stateLock = "free" /\ paramLock = "free"
    /\ fork = 0 /\ join = 0 /\ workersIn = 0
    /\ status = [t \in Threads |-> "STOPPED"]
    /\ pc = [t \in Threads |-> "none"]
    /\ generation = 0
    /\ best \in Chromosome
    /\ previous = Fitness[best]
    /\ failed = 0
    /\ published = None
    /\ cpc = "idle" /\ oldState = "UNINITIALIZED" /\ starting = 0 /\ calls = 0
    /\ result = None

-----------------------------------------------------------------------------
(***************************************************************************)
(* The control thread: GaMultithreadingAlgorithm::ControlFlow.             *)
(***************************************************************************)
At(t, from) == pc[t] = from
Goto(t, to) == pc' = [pc EXCEPT ![t] = to]

\* Mutant: control does not wait for the client's change to end.
GrabParamLock == paramLock' = "control"
TakeParamLock == paramLock = "free" /\ paramLock' = "control"

BlockParameterChanges ==
    /\ At(0, "round")
    /\ TakeParamLock
    /\ Goto(0, "block")
    /\ UNCHANGED <<state, stateLock, roundVars, status, populationVars, failed, published, clientVars>>

BlockStateChange ==
    /\ At(0, "block")
    /\ stateLock = "free"
    /\ stateLock' = "control"
    /\ Goto(0, "fork")
    /\ UNCHANGED <<state, paramLock, roundVars, status, populationVars, failed, published, clientVars>>

\* BeforeWorkers (statistics move on by one generation, parents are selected)
\* when running, then one fork permit per worker.
ForkWorkers ==
    /\ At(0, "fork")
    /\ IF state = "RUNNING"
       THEN generation' = (IF generation = 2 THEN 2 ELSE generation + 1) /\ previous' = Fitness[best]
       ELSE UNCHANGED <<generation, previous>>
    /\ workersIn' = NumWorkers
    /\ fork' = fork + NumWorkers
    /\ Goto(0, "join")
    /\ UNCHANGED <<state, lockVars, join, status, best, failed, published, clientVars>>

\* The join event wakes control; outside RUNNING it releases both locks and
\* returns.
JoinWorkers ==
    /\ At(0, "join")
    /\ join > 0
    /\ join' = join - 1
    /\ IF state = "RUNNING"
       THEN Goto(0, "after") /\ UNCHANGED lockVars
       ELSE Goto(0, "returned") /\ stateLock' = "free" /\ paramLock' = "free"
    /\ UNCHANGED <<state, fork, workersIn, status, populationVars, failed, published, clientVars>>

\* Mutant: replacement without elitism.
ReplacementWithoutElitism == best' \in Chromosome

\* Replacement keeps the best chromosomes (elitism 10), so the best of the
\* population never gets worse within a search.
Replacement == best' \in {c \in Chromosome : Fitness[c] < Fitness[best]} \cup {best}

\* Mutant: only a different chromosome is worth publishing.
PublishOnlyChange == published' = IF best' # best THEN best' ELSE published

\* The first generation and every new best chromosome are published.
Publish == published' = IF generation = 1 \/ best' # best THEN best' ELSE published

AfterWorkers ==
    /\ At(0, "after")
    /\ Replacement
    /\ Publish
    /\ Goto(0, "check")
    /\ UNCHANGED <<state, lockVars, roundVars, status, generation, previous, failed, clientVars>>

\* GaFitnessProgressCriteria::Evaluate with GFC_LESS_THEN and a required
\* absolute progress of 1: the criterion holds when a generation fails and the
\* counter of earlier failures in a row has already reached the history depth.
Progress == IF previous > Fitness[best] THEN previous - Fitness[best] ELSE Fitness[best] - previous
NoProgress == Progress < 1

\* Mutant: one generation too many is counted.
CriterionOffByOne ==
    /\ failed' = IF NoProgress /\ failed <= HistoryDepth THEN failed + 1 ELSE 0
    /\ state' = IF NoProgress /\ failed > HistoryDepth THEN "CRITERIA_STOPPED" ELSE state

EvaluateCriterion ==
    /\ failed' = IF NoProgress /\ failed < HistoryDepth THEN failed + 1 ELSE 0
    /\ state' = IF NoProgress /\ failed >= HistoryDepth THEN "CRITERIA_STOPPED" ELSE state

CheckStopCriteria ==
    /\ At(0, "check")
    /\ EvaluateCriterion
    /\ Goto(0, "release")
    /\ UNCHANGED <<lockVars, roundVars, status, populationVars, published, clientVars>>

ReleaseStateChange ==
    /\ At(0, "release")
    /\ stateLock' = "free"
    /\ Goto(0, "unblock")
    /\ UNCHANGED <<state, paramLock, roundVars, status, populationVars, failed, published, clientVars>>

ReleaseParameterChanges ==
    /\ At(0, "unblock")
    /\ paramLock' = "free"
    /\ Goto(0, "round")
    /\ UNCHANGED <<state, stateLock, roundVars, status, populationVars, failed, published, clientVars>>

Control ==
    \/ BlockParameterChanges \/ BlockStateChange \/ ForkWorkers \/ JoinWorkers
    \/ AfterWorkers \/ CheckStopCriteria \/ ReleaseStateChange \/ ReleaseParameterChanges

-----------------------------------------------------------------------------
(***************************************************************************)
(* The worker threads: GaMultithreadingAlgorithm::WorkFlow.                *)
(***************************************************************************)
TakePermit(w) ==
    /\ At(w, "wait")
    /\ fork > 0
    /\ fork' = fork - 1
    /\ Goto(w, "check")
    /\ UNCHANGED <<state, lockVars, join, workersIn, status, populationVars, failed, published, clientVars>>

\* WorkStep breeds offspring; outside RUNNING the worker is about to return.
CheckState(w) ==
    /\ At(w, "check")
    /\ Goto(w, IF state = "RUNNING" THEN "work" ELSE "quit")
    /\ UNCHANGED <<state, lockVars, roundVars, status, populationVars, failed, published, clientVars>>

\* Mutant: the first worker to leave wakes control.
PostWhenFirstLeaves == join' = IF workersIn = NumWorkers THEN join + 1 ELSE join

\* Mutant: workers that are about to return do not wake control.
PostAfterWorkOnly == join' = IF workersIn = 1 /\ state = "RUNNING" THEN join + 1 ELSE join

\* The last worker to leave wakes control.
PostWhenLastLeaves == join' = IF workersIn = 1 THEN join + 1 ELSE join

LeaveRound(w) ==
    /\ pc[w] \in {"work", "quit"}
    /\ workersIn' = workersIn - 1
    /\ PostWhenLastLeaves
    /\ Goto(w, IF pc[w] = "work" THEN "wait" ELSE "returned")
    /\ UNCHANGED <<state, lockVars, fork, status, populationVars, failed, published, clientVars>>

\* ThreadFunctionWraper marks the thread stopped after its function returned.
EndThread(t) ==
    /\ At(t, "returned")
    /\ status' = [status EXCEPT ![t] = "STOPPED"]
    /\ Goto(t, "none")
    /\ UNCHANGED <<state, lockVars, roundVars, populationVars, failed, published, clientVars>>

Worker(w) == TakePermit(w) \/ CheckState(w) \/ LeaveRound(w)

-----------------------------------------------------------------------------
(***************************************************************************)
(* The client thread.                                                      *)
(***************************************************************************)
Call(name) ==
    /\ cpc = "idle"
    /\ name \in Calls
    /\ calls < MaxCalls
    /\ calls' = calls + 1

\* Mutant: the calls that change the state do not wait for the state lock.
AnyTime == TRUE
StateChangeAllowed == stateLock = "free"

\* GaBaseAlgorithm::StartSolving up to the point where it starts the threads:
\* the state lock is taken, a fresh start regenerates the population, and the
\* state is RUNNING already while the threads are being started.
MayStart(continue) ==
    IF continue THEN {"PAUSED", "CRITERIA_STOPPED"}
                ELSE {"UNINITIALIZED", "USER_STOPPED", "CRITERIA_STOPPED"}

\* InitializePopulation: new random chromosomes, statistics cleared.
Initialize ==
    /\ generation' = 0
    /\ best' \in Chromosome
    /\ previous' = Fitness[best']

StartSolving(continue) ==
    /\ Call(IF continue THEN "Resume" ELSE "StartNew")
    /\ StateChangeAllowed
    /\ stateLock' = "client"
    /\ oldState' = state
    /\ IF state \in MayStart(continue)
       THEN /\ state' = "RUNNING"
            /\ IF continue THEN UNCHANGED populationVars ELSE Initialize
            /\ cpc' = "start"
            /\ starting' = 0
       ELSE /\ cpc' = "started"
            /\ UNCHANGED <<state, populationVars, starting>>
    /\ UNCHANGED <<paramLock, roundVars, threadVars, failed, published, result>>

\* StartThreads: GaThread::Start of each thread in turn.  A thread that is
\* still marked running cannot be started; the threads started so far stay.
StartThread ==
    /\ cpc = "start"
    /\ status[starting] = "STOPPED"
    /\ status' = [status EXCEPT ![starting] = "RUNNING"]
    /\ Goto(starting, IF starting = 0 THEN "round" ELSE "wait")
    /\ IF starting = NumWorkers
       THEN cpc' = "started" /\ UNCHANGED starting
       ELSE starting' = starting + 1 /\ UNCHANGED cpc
    /\ UNCHANGED <<state, lockVars, roundVars, populationVars, failed, published, oldState, calls, result>>

StartFails ==
    /\ cpc = "start"
    /\ status[starting] = "RUNNING" \/ CreateMayFail
    /\ state' = oldState
    /\ cpc' = "started"
    /\ UNCHANGED <<lockVars, roundVars, threadVars, populationVars, failed, published, oldState,
                   starting, calls, result>>

\* The observers are told the new state (TSPView ignores it); lock released.
StartReturns ==
    /\ cpc = "started"
    /\ stateLock' = "free"
    /\ cpc' = "idle"
    /\ UNCHANGED <<state, paramLock, roundVars, threadVars, populationVars, failed, published, oldState,
                   starting, calls, result>>

\* StopSolving and PauseSolving only change the state, under the state lock.
Halt(name, from, to) ==
    /\ Call(name)
    /\ StateChangeAllowed
    /\ state' = IF state \in from THEN to ELSE state
    /\ UNCHANGED <<lockVars, roundVars, threadVars, populationVars, failed, published, cpc, oldState,
                   starting, result>>

StopSolving == Halt("Stop", {"RUNNING", "PAUSED"}, "USER_STOPPED")
PauseSolving == Halt("Pause", {"RUNNING"}, "PAUSED")

\* SetStopCriteria (smartInit) clones fresh parameters; it takes no lock, so
\* that there is a moment at which the old parameters are gone already.
SetStopCriteria ==
    /\ Call("SetCriteria")
    /\ cpc' = "swap"
    /\ UNCHANGED <<state, lockVars, roundVars, threadVars, populationVars, failed, published, oldState,
                   starting, result>>

CriteriaSet ==
    /\ cpc = "swap"
    /\ failed' = 0
    /\ cpc' = "idle"
    /\ UNCHANGED <<state, lockVars, roundVars, threadVars, populationVars, published, oldState,
                   starting, calls, result>>

BeginParameterChange ==
    /\ Call("ChangeParameters")
    /\ paramLock = "free"
    /\ paramLock' = "client"
    /\ cpc' = "change"
    /\ UNCHANGED <<state, stateLock, roundVars, threadVars, populationVars, failed, published, oldState,
                   starting, result>>

EndParameterChange ==
    /\ cpc = "change"
    /\ paramLock' = "free"
    /\ cpc' = "idle"
    /\ UNCHANGED <<state, stateLock, roundVars, threadVars, populationVars, failed, published, oldState,
                   starting, calls, result>>

\* Step03 polls the state without a lock; Step04 then copies _bestChromosome.
ReadResult ==
    /\ cpc = "idle"
    /\ calls > 0
    /\ state = "CRITERIA_STOPPED"
    /\ result' = published
    /\ cpc' = "teardown"
    /\ starting' = 0
    /\ UNCHANGED <<state, lockVars, roundVars, threadVars, populationVars, failed, published, oldState, calls>>

\* After the last step main returns and ~TSP deletes the threads one by one.
\* ~GaThread calls Abort: a stopped thread is left alone; for a running one
\* that is not the caller, Abort ends the CALLING thread with pthread_exit.
DestroyThread ==
    /\ cpc = "teardown"
    /\ IF status[starting] = "RUNNING"
       THEN /\ cpc' = "killed"
            /\ status' = [status EXCEPT ![starting] = "STOPPED"]
            /\ UNCHANGED <<pc, starting>>
       ELSE /\ IF starting = NumWorkers THEN cpc' = "exited" /\ UNCHANGED starting
                                        ELSE starting' = starting + 1 /\ UNCHANGED cpc
            /\ UNCHANGED threadVars
    /\ UNCHANGED <<state, lockVars, roundVars, populationVars, failed, published, oldState, calls, result>>

Client ==
    \/ \E continue \in BOOLEAN : StartSolving(continue)
    \/ StartThread \/ StartFails \/ StartReturns
    \/ StopSolving \/ PauseSolving
    \/ SetStopCriteria \/ CriteriaSet
    \/ BeginParameterChange \/ EndParameterChange
    \/ ReadResult \/ DestroyThread

Next ==
    \/ Control
    \/ \E w \in Workers : Worker(w)
    \/ \E t \in Threads : EndThread(t)
    \/ Client

Spec == Init /\ [][Next]_vars

(***************************************************************************)
(* Every thread is scheduled: control, each worker, each thread wrapper    *)
(* and the client are weakly fair.  Nobody else takes the locks for long,  *)
(* so weak fairness of the lock requests is enough with one client.        *)
(***************************************************************************)
FairSpec ==
    /\ Spec
    /\ WF_vars(Control)
    /\ \A w \in Workers : WF_vars(Worker(w))
    /\ \A t \in Threads : WF_vars(EndThread(t))
    /\ WF_vars(Client)

-----------------------------------------------------------------------------
(***************************************************************************)
(* Properties.                                                             *)
(***************************************************************************)
TypeOK ==
    /\ state \in States
    /\ stateLock \in Owners /\ paramLock \in Owners
    /\ fork \in Nat /\ join \in Nat /\ workersIn \in Nat
    /\ status \in [Threads -> {"RUNNING", "STOPPED"}]
    /\ pc \in [Threads -> {"none", "round", "block", "fork", "join", "after", "check", "release",
                            "unblock", "wait", "work", "quit", "returned"}]
    /\ generation \in 0 .. 2 /\ best \in Chromosome /\ previous \in Int
    /\ failed \in 0 .. HistoryDepth
    /\ published \in Chromosome \cup {None} /\ result \in Chromosome \cup {None}
    /\ cpc \in {"idle", "start", "started", "swap", "change", "teardown", "exited", "killed"}
    /\ oldState \in States /\ starting \in Threads /\ calls \in 0 .. MaxCalls

\* Workers between taking a fork permit and leaving the round.
InRound == {w \in Workers : pc[w] \in {"check", "work", "quit"}}

\* The chromosomes have no lock of their own.  What keeps the client
\* (Initialize in StartSolving), the workers (WorkStep) and control
\* (AfterWorkers) from using the population at the same time is the state lock
\* together with the fork and join semaphores.
PopulationExclusive ==
    /\ InRound # {} => pc[0] = "join" /\ stateLock = "control"
    /\ cpc \in {"start", "started"} => InRound = {} /\ pc[0] \notin {"fork", "join", "after", "check"}

\* Control goes on to AfterWorkers only when every worker has left the round,
\* and no permit of this round is left over for the next one, even though a
\* fast worker may use up the permit meant for another.
RoundBarrier ==
    pc[0] \in {"round", "block", "fork", "after", "check", "release", "unblock", "returned", "none"} =>
        InRound = {} /\ fork = 0 /\ join = 0 /\ workersIn = 0

\* BeginParameterChange returns only between two generations, and no
\* generation begins before EndParameterChange.
ChangeOnlyBetweenRounds ==
    cpc = "change" => InRound = {} /\ pc[0] \in {"none", "round", "returned"}

\* A new best is announced to the observers only while the search is running
\* and nobody can change its state: none after a stop, a pause or a restart.
PublishOnlyWhileRunning ==
    [][published' # published => state = "RUNNING" /\ stateLock = "control"]_vars

\* When Step03 sees GAS_CRITERIA_STOPPED, _bestChromosome already is the best
\* chromosome of the whole search, so that Step04 may read it without a lock.
StoppedMeansPublished == state = "CRITERIA_STOPPED" => published = best

\* The route published to the view is never replaced by a longer one.
NeverPublishWorse ==
    [][published # None /\ published' # published => Fitness[published'] < Fitness[published]]_vars

\* The search ends by itself: Step03 leaves its polling loop with a route.
SearchEnds == <>(result # None)

\* The threads of a finished search return, whatever the client does meanwhile.
ThreadsReturn == <>[](\A t \in Threads : pc[t] = "none")

\* The search, as the program uses it, is the service Step04 relies on.
Phase == CASE state = "RUNNING" -> "searching"
           [] state = "CRITERIA_STOPPED" -> "announced"
           [] OTHER -> "idle"
Service == INSTANCE SearchService WITH Answer <- Chromosome, phase <- Phase, answer <- published
IsSearchService == Service!Spec

(***************************************************************************)
(* Claims of the library's documentation that the code does not keep.      *)
(***************************************************************************)
\* Algorithm.h: StartSolving "starts execution of algorithm from beginning, or
\* resumes previously paused execution".
StartTakesEffect == cpc = "started" => state = "RUNNING"

\* StopCriterias.h: _historyDepth is the "number of continuously generations
\* which should fail to meet required progress ... before algorithm stops".
StopsAfterHistoryDepth == pc[0] = "release" /\ failed = HistoryDepth => state = "CRITERIA_STOPPED"

\* Threading.h: ~GaThread "stops thread if it is running"; it is not the thread
\* that calls the destructor which is stopped.
DestructorStopsOthers == cpc # "killed"

=============================================================================
