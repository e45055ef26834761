------------------------------ MODULE Generation ------------------------------
(***************************************************************************)
(* One generation after the other of GaIncrementalAlgorithm, in detail:    *)
(* BeforeWorkers selects parents (GaSelectRandomBest), the workers fill    *)
(* the slots of the offspring buffer side by side (GaSimpleCoupling), and  *)
(* AfterWorkers replaces chromosomes (GaReplaceRandom) in the sorted       *)
(* population and reports the best.  GaSolver has the threads and their    *)
(* locks, and takes from here only that the best never gets worse.         *)
(*                                                                         *)
(* The bodies are in lib/libGeneticLibrary.a; TSP::TSP (TspAlgorithm.cpp)  *)
(* chooses operations and parameters.  A chromosome is a model value: what *)
(* a mating can produce is TspCrossover followed by GaSwapMutation.        *)
(* Definitions marked "Mutant" are no part of the model.                   *)
(***************************************************************************)
EXTENDS Integers, Sequences

CONSTANTS
    Chromosome,
    Fitness,            \* Fitness[c]: length of the tour of c, minimised
    Mate,               \* Mate[<<a, b>>]: what crossover and mutation make of a and b
    PopulationSize,     \* 100
    SelectionSize,      \* 8
    Offsprings,         \* 8, slots of the offspring buffer
    ReplacementSize,    \* 8
    Elitism,            \* 10
    NumWorkers,         \* 1
    None                \* an empty pointer

ASSUME ChromosomeAssumption ==
    Fitness \in [Chromosome -> Int] /\ None \notin Chromosome
ASSUME MateAssumption ==
    Mate \in [Chromosome \X Chromosome -> (SUBSET Chromosome) \ {{}}]
ASSUME SizesAssumption ==
    /\ PopulationSize \in Nat /\ PopulationSize >= 2
    /\ SelectionSize \in 1 .. PopulationSize
    /\ Offsprings \in Nat \ {0} /\ ReplacementSize \in Nat \ {0}
    /\ Elitism \in Nat \ {0}
    /\ NumWorkers \in Nat \ {0}

Workers == 0 .. NumWorkers - 1
Slots == 0 .. Offsprings - 1
Ranks == 1 .. PopulationSize

VARIABLES
    phase,          \* "before", "work" or "after" the workers
    population,     \* sorted, the best chromosome first
    parents,        \* ranks of the selected chromosomes, the best first
    output,         \* the offspring buffer, which outlives the generation
    next,           \* next[w]: the slot worker w fills next
    writes          \* how often each slot was filled in this generation

vars == <<phase, population, parents, output, next, writes>>

Sorted(q) == \A p \in 1 .. Len(q) - 1 : Fitness[q[p]] <= Fitness[q[p + 1]]

Init ==
    /\ phase = "before"
    /\ population \in {q \in [Ranks -> Chromosome] : Sorted(q)}
    /\ parents = <<>>
    /\ output = [s \in Slots |-> None]
    /\ next = [w \in Workers |-> 0]
    /\ writes = [s \in Slots |-> 0]

-----------------------------------------------------------------------------
(***************************************************************************)
(* Selection draws ranks at random, with repetition, and keeps the best.   *)
(***************************************************************************)
Selections ==
    {q \in [1 .. SelectionSize -> Ranks] : Sorted([p \in DOMAIN q |-> population[q[p]]])}

(***************************************************************************)
(* The slots of a worker: shares are rounded up to whole couples, and the  *)
(* last worker takes what is left.                                         *)
(***************************************************************************)
Quotient == Offsprings \div NumWorkers
Share == Quotient + (Quotient % 2)

\* Mutant: the first slot does not take the rounding into account.
StartUnrounded(w) == w * Quotient
Start(w) == w * Share
End(w) == IF w = NumWorkers - 1 THEN Offsprings ELSE Start(w) + Share

BeforeWorkers ==
    /\ phase = "before"
    /\ parents' \in Selections
    /\ next' = [w \in Workers |-> Start(w)]
    /\ writes' = [s \in Slots |-> 0]
    /\ phase' = "work"
    /\ UNCHANGED <<population, output>>

\* The couples go round the selected chromosomes; the second offspring of a
\* couple has the parents the other way round.
Parent(p) == population[parents[(p % Len(parents)) + 1]]
Couple(s) == IF (s % 2) = 0 THEN <<Parent(s), Parent(s + 1)>> ELSE <<Parent(s), Parent(s - 1)>>

InPopulation(c) == \E p \in Ranks : population[p] = c

Checked(child) == IF InPopulation(child) THEN None ELSE child

\* ProduceOffspring: mates a couple and fills the slot; slots outside the
\* buffer are refused.
WorkStep(w) ==
    /\ phase = "work" /\ next[w] < End(w)
    /\ \E child \in Mate[Couple(next[w])] :
        IF next[w] \in Slots
        THEN /\ output' = [output EXCEPT ![next[w]] = Checked(child)]
             /\ writes' = [writes EXCEPT ![next[w]] = @ + 1]
        ELSE UNCHANGED <<output, writes>>
    /\ next' = [next EXCEPT ![w] = @ + 1]
    /\ UNCHANGED <<phase, population, parents>>

JoinWorkers ==
    /\ phase = "work" /\ \A w \in Workers : next[w] >= End(w)
    /\ phase' = "after"
    /\ UNCHANGED <<population, parents, output, next, writes>>

-----------------------------------------------------------------------------
\* RemoveDuplicates: of equal offspring only the first is left.
RemoveDuplicates(out) ==
    [s \in Slots |-> IF \E t \in Slots : t < s /\ out[t] = out[s] THEN None ELSE out[s]]

\* Mutant: equal offspring stay.
KeepDuplicates(out) == out
Offspring(out) == RemoveDuplicates(out)

\* Mutant: one rank too many can be replaced.
ReplaceableFromElite == Elitism .. PopulationSize
Replaceable == Elitism + 1 .. PopulationSize

MinOf(a, b) == IF a < b THEN a ELSE b
Count == MinOf(MinOf(ReplacementSize, Offsprings), PopulationSize - Elitism)

\* Random ranks, all different: one for each offspring, empty or not.
Indices == {f \in [0 .. Count - 1 -> Replaceable] : \A s, t \in 0 .. Count - 1 : f[s] = f[t] => s = t}

\* Where a chromosome can be put so that the population stays sorted: never
\* before its equals among the best, which are not replaced.
Places(q, c) ==
    {p \in 1 .. Len(q) + 1 :
        /\ \A k \in 1 .. p - 1 : Fitness[q[k]] <= Fitness[c]
        /\ \A k \in p .. Len(q) :
            Fitness[q[k]] > Fitness[c] \/ (Fitness[q[k]] = Fitness[c] /\ k > Elitism)}

\* Mutant: a new chromosome goes before its equals.
PlacesBeforeEquals(q, c) ==
    {p \in 1 .. Len(q) + 1 :
        /\ \A k \in 1 .. p - 1 : Fitness[q[k]] < Fitness[c]
        /\ \A k \in p .. Len(q) : Fitness[q[k]] >= Fitness[c]}
InsertionPoints(q, c) == Places(q, c)

\* The chromosomes that are not replaced, in order.
Survivors(replaced) ==
    LET kept[p \in 0 .. PopulationSize] ==
            IF p = 0 THEN <<>>
            ELSE IF p \in replaced THEN kept[p - 1] ELSE Append(kept[p - 1], population[p])
    IN  kept[PopulationSize]

Inserted(q, c) ==
    {SubSeq(q, 1, p - 1) \o <<c>> \o SubSeq(q, p, Len(q)) : p \in InsertionPoints(q, c)}

\* The populations the offspring can make of the survivors q, one after the other.
Entered(q, out) ==
    LET with[n \in 0 .. Count] ==
            IF n = 0 THEN {q}
            ELSE IF out[n - 1] = None THEN with[n - 1]
            ELSE UNION {Inserted(r, out[n - 1]) : r \in with[n - 1]}
    IN  with[Count]

\* ReplaceGroup: an empty offspring leaves the chromosome it was to replace.
Filled(out) == {s \in 0 .. Count - 1 : out[s] # None}
ReplaceGroup(indices, out) == Entered(Survivors({indices[s] : s \in Filled(out)}), out)

\* GaReplaceRandom, and the best chromosome is reported if it changed.
AfterWorkers ==
    /\ phase = "after"
    /\ IF Elitism >= PopulationSize
       THEN UNCHANGED <<population, output>>
       ELSE /\ output' = Offspring(output)
            /\ \E indices \in Indices : population' \in ReplaceGroup(indices, Offspring(output))
    /\ phase' = "before"
    /\ parents' = <<>>
    /\ UNCHANGED <<next, writes>>

Next == BeforeWorkers \/ (\E w \in Workers : WorkStep(w)) \/ JoinWorkers \/ AfterWorkers

Spec == Init /\ [][Next]_vars

-----------------------------------------------------------------------------
(***************************************************************************)
(* Whatever the number of workers, each slot is filled by one of them      *)
(* exactly once per generation: no two workers write the same slot, and no *)
(* offspring of an earlier generation is left in the buffer.               *)
(***************************************************************************)
EverySlotFilledOnce ==
    /\ \A s \in Slots : writes[s] <= 1
    /\ phase = "after" => \A s \in Slots : writes[s] = 1

(***************************************************************************)
(* A chromosome that is in the population twice has been so from the       *)
(* beginning: neither the offspring of different workers nor a stale       *)
(* buffer bring a second copy in.                                          *)
(***************************************************************************)
Twins == {c \in Chromosome : \E p, q \in Ranks : p # q /\ population[p] = c /\ population[q] = c}
NoNewTwins == [][Twins' \subseteq Twins]_vars

(***************************************************************************)
(* The fitness at each of the protected ranks never gets worse, although   *)
(* replacement goes by rank and offspring push chromosomes down.           *)
(***************************************************************************)
EliteNeverWorsens ==
    [][\A p \in 1 .. MinOf(Elitism, PopulationSize) :
            Fitness[population'[p]] <= Fitness[population[p]]]_vars

(***************************************************************************)
(* What GaSolver!Replacement takes for granted: another best chromosome is *)
(* a strictly better one, so that only progress is reported to TSPView.    *)
(***************************************************************************)
OnlyProgressIsReported ==
    [][population'[1] # population[1] => Fitness[population'[1]] < Fitness[population[1]]]_vars
=============================================================================
