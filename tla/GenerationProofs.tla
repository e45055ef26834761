--------------------------- MODULE GenerationProofs ---------------------------
(***************************************************************************)
(* For every number of offspring and workers, odd ones and more workers    *)
(* than couples included: the shares of the workers are disjoint and cover *)
(* the buffer, so that each slot is filled once per generation.  And for   *)
(* every size of population, elite and replacement: the elite does not get *)
(* worse, another best chromosome is a better one, and no second copy of a *)
(* chromosome gets in.                                                     *)
(***************************************************************************)
EXTENDS Generation, SharedLemmas, FiniteSetTheorems

Mine(w, s) == Start(w) <= s /\ s < next[w]

FillInv ==
    /\ phase \in {"before", "work", "after"}
    /\ next \in [Workers -> Nat]
    /\ writes \in [Slots -> Nat]
    /\ phase = "work" => \A w \in Workers :
            Start(w) <= next[w] /\ (next[w] = Start(w) \/ next[w] <= End(w))
    /\ phase = "work" => \A s \in Slots :
            writes[s] = IF \E w \in Workers : Mine(w, s) THEN 1 ELSE 0
    /\ phase = "after" => \A s \in Slots : writes[s] = 1
    /\ \A s \in Slots : writes[s] <= 1

LEMMA Monotone ==
    ASSUME NEW a \in Nat, NEW b \in Nat, NEW c \in Nat, a <= b
    PROVE  a * c <= b * c
  OBVIOUS

LEMMA ShareSize ==
    /\ Offsprings \in Nat /\ Offsprings >= 1 /\ NumWorkers \in Nat /\ NumWorkers >= 1
    /\ Share \in Nat
    /\ \A w \in Workers : Start(w) \in Nat /\ End(w) \in Nat
  <1>1. Offsprings \in Nat /\ Offsprings >= 1 /\ NumWorkers \in Nat /\ NumWorkers >= 1
    BY SizesAssumption
  <1>2. Quotient \in Nat
    BY <1>1 DEF Quotient
  <1>3. Share \in Nat
    BY <1>2 DEF Share
  <1>4. \A w \in Workers : Start(w) \in Nat
    BY <1>1, <1>3 DEF Start, Workers
  <1> QED
    BY <1>1, <1>3, <1>4 DEF End

\* The share of a worker ends where that of the next begins.
LEMMA Disjoint ==
    ASSUME NEW v \in Workers, NEW w \in Workers, v < w
    PROVE  End(v) <= Start(w)
  <1>1. v \in Nat /\ w \in Nat /\ v + 1 <= w /\ v # NumWorkers - 1
    BY ShareSize DEF Workers
  <1>2. End(v) = v * Share + Share
    BY <1>1 DEF End, Start
  <1>3. v * Share + Share = (v + 1) * Share
    BY <1>1, ShareSize
  <1>4. (v + 1) * Share <= w * Share
    BY <1>1, ShareSize, Monotone
  <1> QED
    BY <1>2, <1>3, <1>4 DEF Start

LEMMA Divide ==
    ASSUME NEW a \in Nat, NEW b \in Nat, b > 0
    PROVE  /\ a \div b \in Nat
           /\ (a \div b) * b <= a /\ a < (a \div b) * b + b
  OBVIOUS

\* No slot is left out.
LEMMA Covered ==
    ASSUME NEW s \in Slots
    PROVE  \E w \in Workers : Start(w) <= s /\ s < End(w)
  <1> DEFINE last == NumWorkers - 1
  <1>1. s \in Nat /\ s < Offsprings /\ last \in Workers /\ last \in Nat
    BY ShareSize DEF Slots, Workers
  <1>2. End(last) = Offsprings
    BY DEF End
  <1>3. CASE Share = 0
    <2>1. Start(last) = 0
      BY <1>1, <1>3 DEF Start
    <2> QED
      BY <2>1, <1>1, <1>2
  <1>4. CASE Share > 0
    <2> DEFINE q == s \div Share
    <2>1. q \in Nat /\ q * Share <= s /\ s < q * Share + Share
      BY <1>1, <1>4, ShareSize, Divide
    <2>2. CASE q >= last
      <3>1. last * Share <= q * Share
        BY <1>1, <2>1, <2>2, ShareSize, Monotone
      <3>2. last * Share \in Nat /\ q * Share \in Nat
        BY <1>1, <2>1, ShareSize
      <3>3. Start(last) <= s
        BY <3>1, <3>2, <2>1, <1>1 DEF Start
      <3> QED
        BY <3>3, <1>1, <1>2
    <2>3. CASE q < last
      <3>1. q \in Workers /\ q # NumWorkers - 1
        BY <1>1, <2>1, <2>3, ShareSize DEF Workers
      <3>2. Start(q) <= s /\ s < End(q)
        BY <3>1, <2>1 DEF Start, End
      <3> QED
        BY <3>1, <3>2
    <2> QED
      BY <2>1, <2>2, <2>3, <1>1
  <1> QED
    BY <1>3, <1>4, ShareSize

\* A slot is counted for the worker that has it in its share, and for no other.
LEMMA OneWorkerEach ==
    ASSUME FillInv, phase = "work", NEW v \in Workers, NEW w \in Workers,
           next[v] < End(v), Mine(w, next[v])
    PROVE  FALSE
  <1>1. /\ Start(v) \in Nat /\ End(v) \in Nat /\ Start(w) \in Nat /\ End(w) \in Nat
        /\ next[v] \in Nat /\ next[w] \in Nat /\ v \in Nat /\ w \in Nat
    BY ShareSize DEF FillInv, Workers
  <1>2. Start(v) <= next[v] /\ Start(w) <= next[v] /\ next[v] < next[w]
    BY DEF FillInv, Mine
  <1>3. next[w] <= End(w)
    BY <1>1, <1>2 DEF FillInv
  <1>4. CASE v < w
    BY <1>1, <1>2, <1>4, Disjoint
  <1>5. CASE w < v
    BY <1>1, <1>2, <1>3, <1>5, Disjoint
  <1> QED
    BY <1>1, <1>2, <1>4, <1>5

LEMMA FillInit == Init => FillInv
  BY ShareSize DEF Init, FillInv

LEMMA FillStep == FillInv /\ [Next]_vars => FillInv'
  <1> SUFFICES ASSUME FillInv, [Next]_vars PROVE FillInv'
    OBVIOUS
  <1>1. CASE BeforeWorkers
    <2>1. /\ phase' = "work" /\ next' = [w \in Workers |-> Start(w)]
          /\ writes' = [s \in Slots |-> 0]
      BY <1>1 DEF BeforeWorkers
    <2>2. \A w \in Workers, s \in Slots : ~Mine(w, s)'
      <3> SUFFICES ASSUME NEW w \in Workers, NEW s \in Slots PROVE ~Mine(w, s)'
        OBVIOUS
      <3>1. next'[w] = Start(w) /\ Start(w) \in Nat /\ s \in Nat
        BY <2>1, ShareSize DEF Slots
      <3> QED
        BY <3>1 DEF Mine
    <2>3. next' \in [Workers -> Nat] /\ \A w \in Workers : next'[w] = Start(w)
      BY <2>1, ShareSize
    <2> QED
      BY <2>1, <2>2, <2>3, ShareSize DEF FillInv
  <1>2. ASSUME NEW v \in Workers, WorkStep(v) PROVE FillInv'
    <2>1. phase = "work" /\ phase' = "work" /\ next[v] < End(v)
          /\ next' = [next EXCEPT ![v] = @ + 1]
          /\ next[v] \in Nat /\ Start(v) \in Nat /\ End(v) \in Nat
      BY <1>2, ShareSize DEF WorkStep, FillInv
    <2>2. next' \in [Workers -> Nat] /\ next'[v] = next[v] + 1
          /\ \A w \in Workers : w # v => next'[w] = next[w]
      BY <2>1 DEF FillInv
    <2>3. \A w \in Workers :
            Start(w) <= next'[w] /\ (next'[w] = Start(w) \/ next'[w] <= End(w))
      BY <2>1, <2>2 DEF FillInv
    <2>4. writes' \in [Slots -> Nat]
          /\ \A s \in Slots : writes'[s] = IF s = next[v] THEN writes[s] + 1 ELSE writes[s]
      <3>1. CASE next[v] \in Slots
        <4>1. writes' = [writes EXCEPT ![next[v]] = @ + 1]
          BY <1>2, <3>1 DEF WorkStep
        <4> QED
          BY <4>1, <3>1 DEF FillInv
      <3>2. CASE next[v] \notin Slots
        <4>1. writes' = writes
          BY <1>2, <3>2 DEF WorkStep
        <4> QED
          BY <4>1, <3>2 DEF FillInv
      <3> QED
        BY <3>1, <3>2
    <2>5. \A s \in Slots, w \in Workers : Mine(w, s)' <=> Mine(w, s) \/ (w = v /\ s = next[v])
      <3> SUFFICES ASSUME NEW s \in Slots, NEW w \in Workers
                   PROVE  Mine(w, s)' <=> Mine(w, s) \/ (w = v /\ s = next[v])
        OBVIOUS
      <3>1. s \in Nat /\ Start(v) <= next[v] /\ next[w] \in Nat
        BY <2>1 DEF FillInv, Slots
      <3> QED
        BY <2>1, <2>2, <3>1 DEF Mine
    <2>6. \A s \in Slots : writes'[s] = IF \E w \in Workers : Mine(w, s)' THEN 1 ELSE 0
      <3> SUFFICES ASSUME NEW s \in Slots
                   PROVE  writes'[s] = IF \E w \in Workers : Mine(w, s)' THEN 1 ELSE 0
        OBVIOUS
      <3>1. writes[s] = IF \E w \in Workers : Mine(w, s) THEN 1 ELSE 0
        BY <2>1 DEF FillInv
      <3>2. CASE s = next[v]
        <4>1. ~ \E w \in Workers : Mine(w, s)
          BY <3>2, <2>1, OneWorkerEach
        <4>2. \E w \in Workers : Mine(w, s)'
          BY <3>2, <2>5
        <4>3. writes'[s] = writes[s] + 1
          BY <3>2, <2>4
        <4> QED
          BY <4>1, <4>2, <4>3, <3>1
      <3>3. CASE s # next[v]
        <4>1. writes'[s] = writes[s]
          BY <3>3, <2>4
        <4>2. (\E w \in Workers : Mine(w, s)') <=> (\E w \in Workers : Mine(w, s))
          BY <3>3, <2>5
        <4> QED
          BY <4>1, <4>2, <3>1
      <3> QED
        BY <3>2, <3>3
    <2>7. \A s \in Slots : writes'[s] <= 1
      <3> SUFFICES ASSUME NEW s \in Slots PROVE writes'[s] <= 1
        OBVIOUS
      <3>1. writes'[s] \in {0, 1}
        BY <2>6
      <3> QED
        BY <3>1
    <2> QED
      BY <2>1, <2>2, <2>3, <2>4, <2>6, <2>7 DEF FillInv
  <1>3. CASE JoinWorkers
    <2>1. /\ phase = "work" /\ phase' = "after" /\ next' = next /\ writes' = writes
          /\ \A w \in Workers : next[w] >= End(w)
      BY <1>3 DEF JoinWorkers
    <2>2. \A s \in Slots : writes[s] = 1
      <3> SUFFICES ASSUME NEW s \in Slots PROVE writes[s] = 1
        OBVIOUS
      <3>1. PICK w \in Workers : Start(w) <= s /\ s < End(w)
        BY Covered
      <3>2. next[w] \in Nat /\ End(w) \in Nat /\ s \in Nat /\ next[w] >= End(w)
        BY <2>1, ShareSize DEF FillInv, Slots
      <3>3. Mine(w, s)
        BY <3>1, <3>2 DEF Mine
      <3> QED
        BY <3>3, <2>1 DEF FillInv
    <2> QED
      BY <2>1, <2>2 DEF FillInv
  <1>4. CASE AfterWorkers
    BY <1>4 DEF AfterWorkers, FillInv
  <1>5. CASE UNCHANGED vars
    <2>1. \A w, s : Mine(w, s)' <=> Mine(w, s)
      BY <1>5 DEF vars, Mine
    <2> QED
      BY <1>5, <2>1 DEF vars, FillInv
  <1> QED
    BY <1>1, <1>2, <1>3, <1>4, <1>5 DEF Next

(***************************************************************************)
(* Each slot of the offspring buffer is filled exactly once in every       *)
(* generation, by one worker.                                              *)
(***************************************************************************)
THEOREM SlotsFilledOnce == Spec => []EverySlotFilledOnce
  <1>1. FillInv => EverySlotFilledOnce
    BY DEF FillInv, EverySlotFilledOnce
  <1> QED
    BY <1>1, FillInit, FillStep, PTL DEF Spec
-----------------------------------------------------------------------------
(***************************************************************************)
(* The replacement.  A group that is on its way from the old population to *)
(* the new one is described by what it still owes to the old: where its    *)
(* members come from and how the best of them compare.                     *)
(***************************************************************************)
Rising(q) == \A i, j \in 1 .. Len(q) : i <= j => Fitness[q[i]] <= Fitness[q[j]]

PopulationInv == population \in [Ranks -> Chromosome] /\ Rising(population)

LEMMA Sizes ==
    /\ PopulationSize \in Nat /\ PopulationSize >= 2 /\ Elitism \in Nat /\ Elitism >= 1
    /\ SelectionSize \in 1 .. PopulationSize /\ Offsprings \in Nat /\ ReplacementSize \in Nat
    /\ \A c \in Chromosome : Fitness[c] \in Int
    /\ None \notin Chromosome
  BY SizesAssumption, ChromosomeAssumption

LEMMA CountSize ==
    ASSUME Elitism < PopulationSize
    PROVE  Count \in Nat /\ Count <= Offsprings /\ \A s \in 0 .. Count - 1 : s \in Slots
  <1>1. Count \in Nat /\ Count <= Offsprings
    BY Sizes DEF Count, MinOf
  <1> QED
    BY <1>1, Sizes DEF Slots

\* Sorted compares neighbours, and with them any two ranks.
LEMMA SortedRises ==
    ASSUME NEW n \in Nat, NEW q \in [1 .. n -> Chromosome], Sorted(q)
    PROVE  Rising(q)
  <1>1. Len(q) = n
    OBVIOUS
  <1> DEFINE far(i) == Fitness[q[i]]
             Apart == {k \in 0 .. n : \A i \in 1 .. n : i + k <= n => far(i) <= far(i + k)}
  <1>2. \A i \in 1 .. n : far(i) \in Int
    BY Sizes
  <1>3. \A i \in 1 .. n : i + 1 <= n => far(i) <= far(i + 1)
    BY <1>1 DEF Sorted
  <1> HIDE DEF far
  <1>4. 0 \in Apart
    BY <1>2
  <1>5. ASSUME NEW k \in 1 .. n, k - 1 \in Apart PROVE k \in Apart
    <2>1. ASSUME NEW i \in 1 .. n, i + k <= n PROVE far(i) <= far(i + k)
      <3>1. i + (k - 1) \in 1 .. n /\ i + (k - 1) + 1 = i + k /\ i + k \in 1 .. n
        BY <2>1
      <3>2. far(i) <= far(i + (k - 1))
        BY <1>5, <3>1
      <3>3. far(i + (k - 1)) <= far(i + k)
        BY <1>3, <3>1
      <3> QED
        BY <1>2, <3>1, <3>2, <3>3
    <2> QED
      BY <2>1
  <1>6. 0 .. n \subseteq Apart
    <2> HIDE DEF Apart
    <2> QED
      BY <1>4, <1>5, Upwards
  <1>7. ASSUME NEW i \in 1 .. n, NEW j \in 1 .. n, i <= j PROVE far(i) <= far(j)
    <2>1. j - i \in 0 .. n /\ i + (j - i) = j /\ j <= n
      BY <1>7
    <2>2. j - i \in Apart
      BY <2>1, <1>6
    <2> QED
      BY <2>1, <2>2
  <1> QED
    BY <1>1, <1>7 DEF Rising, far

(***************************************************************************)
(* k holds, in order, the chromosomes of the first p ranks that are not    *)
(* replaced, f says which; none of the elite is missing.                   *)
(***************************************************************************)
Picks(k, f, p, replaced) ==
    /\ k \in Seq(Chromosome) /\ f \in [1 .. Len(k) -> 1 .. p]
    /\ \A i, j \in 1 .. Len(k) : i < j => f[i] < f[j]
    /\ \A i \in 1 .. Len(k) : k[i] = population[f[i]]
    /\ \A i \in 1 .. p : i <= Elitism => i <= Len(k) /\ f[i] = i
    /\ Len(k) = p - Cardinality(replaced \cap (1 .. p))

LEMMA PickNext ==
    ASSUME PopulationInv, NEW replaced \in SUBSET Replaceable, NEW p \in Ranks,
           NEW k, NEW f, Picks(k, f, p - 1, replaced)
    PROVE  \E g : Picks(IF p \in replaced THEN k ELSE Append(k, population[p]), g, p, replaced)
  <1>0. p \in Nat /\ p >= 1 /\ Elitism \in Nat
    BY Sizes DEF Ranks
  <1>1. PICK n \in Nat : n = Len(k)
    BY DEF Picks
  <1>2. k \in Seq(Chromosome) /\ Len(k) = n /\ f \in [1 .. n -> 1 .. p - 1]
    BY <1>1 DEF Picks
  <1>3. \A i, j \in 1 .. n : i < j => f[i] < f[j]
    BY <1>1 DEF Picks
  <1>4. \A i \in 1 .. n : k[i] = population[f[i]]
    BY <1>1 DEF Picks
  <1>5. \A i \in 1 .. p - 1 : i <= Elitism => i <= n /\ f[i] = i
    BY <1>1 DEF Picks
  <1>6. IsFiniteSet(replaced \cap (1 .. p - 1))
    <2>1. IsFiniteSet(1 .. p - 1)
      BY <1>0, FS_Interval
    <2> QED
      BY <2>1, FS_Subset
  <1>7. PICK c \in Nat : c = Cardinality(replaced \cap (1 .. p - 1))
    BY <1>6, FS_CardinalityType
  <1>8. n = p - 1 - c
    BY <1>1, <1>7 DEF Picks
  <1>9. CASE p \in replaced
    <2>1. replaced \cap (1 .. p) = (replaced \cap (1 .. p - 1)) \cup {p}
      BY <1>0, <1>9
    <2>2. p \notin replaced \cap (1 .. p - 1)
      BY <1>0
    <2>3. Cardinality(replaced \cap (1 .. p)) = c + 1
      BY <1>6, <1>7, <2>1, <2>2, FS_AddElement
    <2>4. p > Elitism
      BY <1>9, Sizes DEF Replaceable
    <2>5. f \in [1 .. n -> 1 .. p]
      <3>1. \A i \in 1 .. n : f[i] \in 1 .. p
        BY <1>2, <1>0
      <3> QED
        BY <3>1, <1>2
    <2>6. \A i \in 1 .. p : i <= Elitism => i <= n /\ f[i] = i
      <3>1. \A i \in 1 .. p : i <= Elitism => i \in 1 .. p - 1
        BY <1>0, <2>4
      <3> QED
        BY <3>1, <1>5
    <2>7. n = p - Cardinality(replaced \cap (1 .. p))
      BY <1>0, <1>8, <2>3
    <2>8. Picks(k, f, p, replaced)
      BY <1>2, <1>3, <1>4, <2>5, <2>6, <2>7 DEF Picks
    <2> QED
      BY <1>9, <2>8
  <1>10. CASE p \notin replaced
    <2> DEFINE r == Append(k, population[p])
               g == [i \in 1 .. n + 1 |-> IF i <= n THEN f[i] ELSE p]
    <2>1. population[p] \in Chromosome
      BY DEF PopulationInv
    <2>2. /\ r \in Seq(Chromosome) /\ Len(r) = n + 1 /\ r[n + 1] = population[p]
          /\ \A i \in 1 .. n : r[i] = k[i]
      BY <1>2, <2>1
    <2> HIDE DEF r
    <2>3. g \in [1 .. n + 1 -> 1 .. p] /\ g[n + 1] = p /\ \A i \in 1 .. n : g[i] = f[i]
      <3>1. \A i \in 1 .. n : f[i] \in 1 .. p /\ i \in 1 .. n + 1 /\ i <= n
        <4>1. \A i \in 1 .. n : f[i] \in 1 .. p - 1
          BY <1>2
        <4> QED
          BY <4>1, <1>0
      <3>2. n + 1 \in 1 .. n + 1 /\ ~ (n + 1 <= n) /\ p \in 1 .. p
        BY <1>0
      <3>3. g[n + 1] = p /\ \A i \in 1 .. n : g[i] = f[i]
        BY <3>1, <3>2
      <3>4. ASSUME NEW i \in 1 .. n + 1 PROVE g[i] \in 1 .. p
        <4>1. CASE i <= n
          <5>1. i \in 1 .. n
            BY <4>1
          <5> QED
            BY <5>1, <3>1, <3>3
        <4>2. CASE ~ (i <= n)
          BY <4>2, <3>2
        <4> QED
          BY <4>1, <4>2
      <3>5. g = [i \in 1 .. n + 1 |-> g[i]]
        OBVIOUS
      <3> HIDE DEF g
      <3>6. g \in [1 .. n + 1 -> 1 .. p]
        BY <3>4, <3>5
      <3> QED
        BY <3>3, <3>6
    <2> HIDE DEF g
    <2>4. replaced \cap (1 .. p) = replaced \cap (1 .. p - 1)
      BY <1>0, <1>10
    <2>5. n + 1 = p - Cardinality(replaced \cap (1 .. p))
      <3>1. Cardinality(replaced \cap (1 .. p)) = c
        BY <1>7, <2>4
      <3>2. n + 1 = p - c
        BY <1>0, <1>8
      <3> QED
        BY <3>1, <3>2
    <2>6. ASSUME NEW i \in 1 .. n + 1 PROVE r[i] = population[g[i]]
      <3>1. CASE i \in 1 .. n
        BY <3>1, <1>4, <2>2, <2>3
      <3>2. CASE i = n + 1
        BY <3>2, <2>2, <2>3
      <3> QED
        BY <3>1, <3>2
    <2>7. ASSUME NEW i \in 1 .. n + 1, NEW j \in 1 .. n + 1, i < j PROVE g[i] < g[j]
      <3>1. i \in 1 .. n /\ g[i] = f[i] /\ f[i] \in 1 .. p - 1
        BY <1>2, <2>3, <2>7
      <3>2. CASE j \in 1 .. n
        BY <3>1, <3>2, <1>3, <2>3, <2>7
      <3>3. CASE j = n + 1
        BY <3>1, <3>3, <1>0, <2>3
      <3> QED
        BY <3>2, <3>3
    <2>8. ASSUME NEW i \in 1 .. p, i <= Elitism PROVE i <= n + 1 /\ g[i] = i
      <3>1. CASE i < p
        <4>1. i \in 1 .. p - 1
          BY <3>1, <1>0
        <4>2. i <= n /\ f[i] = i /\ i \in 1 .. n
          BY <4>1, <1>5, <2>8
        <4> QED
          BY <4>2, <2>3
      <3>2. CASE i = p
        <4>1. n = p - 1
          <5>1. CASE p = 1
            BY <5>1, <1>8
          <5>2. CASE p > 1
            <6>1. p - 1 \in 1 .. p - 1 /\ p - 1 <= Elitism
              BY <1>0, <2>8, <3>2, <5>2
            <6>2. p - 1 <= n
              BY <1>5, <6>1
            <6> QED
              BY <6>2, <1>0, <1>8
          <5> QED
            BY <5>1, <5>2, <1>0
        <4> QED
          BY <4>1, <3>2, <1>0, <2>3
      <3> QED
        BY <3>1, <3>2, <1>0
    <2>9. Picks(r, g, p, replaced)
      BY <2>2, <2>3, <2>5, <2>6, <2>7, <2>8 DEF Picks
    <2> QED
      BY <1>10, <2>9 DEF r
  <1> QED
    BY <1>9, <1>10

LEMMA SurvivorsPicked ==
    ASSUME PopulationInv, NEW replaced \in SUBSET Replaceable
    PROVE  \E f : Picks(Survivors(replaced), f, PopulationSize, replaced)
  <1> DEFINE Keep == [x \in Seq(Chromosome) \X (1 .. PopulationSize) |->
                        IF x[2] \in replaced THEN x[1] ELSE Append(x[1], population[x[2]])]
             Kept(h) == h = [p \in 0 .. PopulationSize |->
                IF p = 0 THEN <<>>
                ELSE IF p \in replaced THEN h[p - 1] ELSE Append(h[p - 1], population[p])]
  <1>1. PopulationSize \in Nat /\ <<>> \in Seq(Chromosome)
    BY Sizes
  <1>2. Keep \in [Seq(Chromosome) \X (1 .. PopulationSize) -> Seq(Chromosome)]
    <2>1. ASSUME NEW x \in Seq(Chromosome) \X (1 .. PopulationSize)
          PROVE  (IF x[2] \in replaced THEN x[1] ELSE Append(x[1], population[x[2]])) \in Seq(Chromosome)
      <3>1. x[1] \in Seq(Chromosome) /\ population[x[2]] \in Chromosome
        BY DEF PopulationInv, Ranks
      <3> QED
        BY <3>1
    <2> QED
      BY <2>1
  <1>3. PICK g : Follows(g, PopulationSize, Seq(Chromosome), <<>>, Keep)
    <2> HIDE DEF Keep
    <2> QED
      BY <1>1, <1>2, DefinedFromBefore, Zenon
  <1>4. Kept(g)
    <2>1. g \in [0 .. PopulationSize -> Seq(Chromosome)] /\ g[0] = <<>>
      BY <1>3 DEF Follows
    <2>2. ASSUME NEW p \in 1 .. PopulationSize
          PROVE  g[p] = IF p \in replaced THEN g[p - 1] ELSE Append(g[p - 1], population[p])
      <3>1. p - 1 \in 0 .. PopulationSize
        BY <1>1
      <3>2. <<g[p - 1], p>> \in Seq(Chromosome) \X (1 .. PopulationSize)
        BY <2>1, <3>1
      <3>3. g[p] = Keep[<<g[p - 1], p>>]
        BY <1>3 DEF Follows
      <3> QED
        BY <3>2, <3>3
    <2>3. \A p \in 0 .. PopulationSize : p # 0 => p \in 1 .. PopulationSize
      BY <1>1
    <2> QED
      BY <2>1, <2>2, <2>3
  <1>5. PICK h : Kept(h) /\ Survivors(replaced) = h[PopulationSize]
    <2>1. Survivors(replaced) = (CHOOSE h : Kept(h))[PopulationSize]
      BY DEF Survivors
    <2> HIDE DEF Kept
    <2> QED
      BY <1>4, <2>1
  <1>6. /\ h[0] = <<>>
        /\ \A p \in 1 .. PopulationSize :
              h[p] = IF p \in replaced THEN h[p - 1] ELSE Append(h[p - 1], population[p])
    <2>1. 0 \in 0 .. PopulationSize /\ \A p \in 1 .. PopulationSize : p \in 0 .. PopulationSize /\ p # 0
      BY <1>1
    <2> QED
      BY <1>5, <2>1
  <1> HIDE DEF Kept
  <1> DEFINE Right(p) == \E f : Picks(h[p], f, p, replaced)
             Good == {p \in 0 .. PopulationSize : Right(p)}
  <1>7. Right(0)
    <2> DEFINE f == [i \in 1 .. 0 |-> i]
    <2>1. replaced \cap (1 .. 0) = {} /\ 1 .. 0 = {}
      OBVIOUS
    <2>2. Cardinality(replaced \cap (1 .. 0)) = 0
      BY <2>1, FS_EmptySet
    <2>3. Picks(<<>>, f, 0, replaced)
      BY <2>1, <2>2 DEF Picks
    <2> HIDE DEF f
    <2> QED
      BY <1>6, <2>3
  <1>8. ASSUME NEW p \in 1 .. PopulationSize, p - 1 \in Good PROVE Right(p)
    <2>1. PICK f : Picks(h[p - 1], f, p - 1, replaced)
      BY <1>8
    <2>2. p \in Ranks
      BY DEF Ranks
    <2>3. \E e : Picks(IF p \in replaced THEN h[p - 1] ELSE Append(h[p - 1], population[p]), e, p, replaced)
      BY <2>1, <2>2, PickNext
    <2> QED
      BY <2>3, <1>6
  <1> HIDE DEF Right
  <1>9. 0 .. PopulationSize \subseteq Good
    <2>1. 0 \in Good /\ \A p \in 1 .. PopulationSize : p - 1 \in Good => p \in Good
      BY <1>1, <1>7, <1>8
    <2> HIDE DEF Good
    <2> QED
      BY <1>1, <2>1, Upwards
  <1>10. Right(PopulationSize)
    BY <1>1, <1>9
  <1> QED
    BY <1>5, <1>10 DEF Right

(***************************************************************************)
(* A group q after the first n offspring have been entered: who is in it,  *)
(* how its best compare with those of the population, how many there are.  *)
(***************************************************************************)
EnteredBy(out, n) == {s \in 0 .. n - 1 : out[s] # None}

Group(q, n, out, start) ==
    /\ q \in Seq(Chromosome) /\ Rising(q)
    /\ Len(q) = start + Cardinality(EnteredBy(out, n)) /\ Elitism <= Len(q)
    /\ \A i \in 1 .. Elitism : Fitness[q[i]] <= Fitness[population[i]]
    /\ q[1] = population[1] \/ Fitness[q[1]] < Fitness[population[1]]
    /\ \A i \in 1 .. Len(q) : InPopulation(q[i]) \/ \E s \in EnteredBy(out, n) : q[i] = out[s]
    /\ \A i, j \in 1 .. Len(q) : i # j /\ q[i] = q[j] => q[i] \in Twins

\* What replacement gets: no offspring that is in the population, none twice.
Fresh(out) ==
    /\ out \in [Slots -> Chromosome \cup {None}]
    /\ \A s \in Slots : out[s] # None => ~InPopulation(out[s])
    /\ \A s, t \in Slots : out[s] = out[t] /\ out[s] # None => s = t

LEMMA SurvivorsGroup ==
    ASSUME PopulationInv, Elitism < PopulationSize, NEW out, NEW replaced \in SUBSET Replaceable
    PROVE  Group(Survivors(replaced), 0, out, PopulationSize - Cardinality(replaced))
  <1> DEFINE q == Survivors(replaced)
  <1>1. PICK f : Picks(q, f, PopulationSize, replaced)
    BY SurvivorsPicked
  <1> HIDE DEF q
  <1>2. PICK n \in Nat : n = Len(q)
    BY <1>1 DEF Picks
  <1>3. q \in Seq(Chromosome) /\ f \in [1 .. n -> Ranks]
    BY <1>1, <1>2 DEF Picks, Ranks
  <1>4. \A i, j \in 1 .. n : i < j => f[i] < f[j]
    BY <1>1, <1>2 DEF Picks
  <1>5. \A i \in 1 .. n : q[i] = population[f[i]]
    BY <1>1, <1>2 DEF Picks
  <1>6. \A i \in 1 .. Elitism : i <= n /\ f[i] = i /\ i \in 1 .. n
    <2>1. \A i \in 1 .. Elitism : i \in 1 .. PopulationSize /\ i <= Elitism
      BY Sizes
    <2>2. \A i \in 1 .. Elitism : i <= n /\ f[i] = i
      BY <1>1, <1>2, <2>1 DEF Picks
    <2> QED
      BY <2>2, Sizes
  <1>7. /\ population \in [Ranks -> Chromosome] /\ Len(population) = PopulationSize
        /\ \A i, j \in Ranks : i <= j => Fitness[population[i]] <= Fitness[population[j]]
    <2>1. population \in [Ranks -> Chromosome] /\ Rising(population)
      BY DEF PopulationInv
    <2>2. Len(population) = PopulationSize
      BY <2>1, Sizes DEF Ranks
    <2> QED
      BY <2>1, <2>2 DEF Rising, Ranks
  <1>8. Rising(q)
    <2>1. ASSUME NEW i \in 1 .. n, NEW j \in 1 .. n, i <= j PROVE Fitness[q[i]] <= Fitness[q[j]]
      <3>1. f[i] \in Ranks /\ f[j] \in Ranks
        BY <1>3
      <3>2. f[i] <= f[j]
        <4>1. CASE i = j
          BY <4>1, <3>1, Sizes DEF Ranks
        <4>2. CASE i < j
          BY <4>2, <1>4, <3>1, Sizes DEF Ranks
        <4> QED
          BY <2>1, <4>1, <4>2
      <3> QED
        BY <3>1, <3>2, <1>5, <1>7
    <2> QED
      BY <2>1, <1>2 DEF Rising
  <1>9. Len(q) = PopulationSize - Cardinality(replaced) + Cardinality(EnteredBy(out, 0))
    <2>1. EnteredBy(out, 0) = {}
      BY DEF EnteredBy
    <2>2. Cardinality(EnteredBy(out, 0)) = 0
      BY <2>1, FS_EmptySet
    <2>3. replaced \cap (1 .. PopulationSize) = replaced
      <3>1. Replaceable \subseteq 1 .. PopulationSize
        BY Sizes DEF Replaceable
      <3> QED
        BY <3>1
    <2>4. Len(q) = PopulationSize - Cardinality(replaced)
      BY <1>1, <2>3 DEF Picks
    <2> QED
      BY <2>2, <2>4, <1>2
  <1>10. Elitism <= Len(q)
    <2>1. Elitism \in 1 .. Elitism
      BY Sizes
    <2> QED
      BY <2>1, <1>2, <1>6
  <1>11. ASSUME NEW i \in 1 .. Elitism PROVE q[i] = population[i] /\ population[i] \in Chromosome
    <2>1. q[i] = population[f[i]] /\ f[i] = i
      BY <1>5, <1>6
    <2>2. f[i] \in Ranks
      BY <1>3, <1>6
    <2> QED
      BY <1>7, <2>1, <2>2
  <1>12. /\ \A i \in 1 .. Elitism : Fitness[q[i]] <= Fitness[population[i]]
         /\ q[1] = population[1]
    <2>1. 1 \in 1 .. Elitism
      BY Sizes
    <2>2. \A i \in 1 .. Elitism : Fitness[population[i]] \in Int
      BY <1>11, Sizes
    <2> QED
      BY <1>11, <2>1, <2>2
  <1>13. \A i \in 1 .. n : InPopulation(q[i])
    BY <1>3, <1>5 DEF InPopulation
  <1>14. ASSUME NEW i \in 1 .. n, NEW j \in 1 .. n, i # j, q[i] = q[j] PROVE q[i] \in Twins
    <2>1. f[i] \in Ranks /\ f[j] \in Ranks /\ f[i] # f[j]
      <3>1. f[i] \in Ranks /\ f[j] \in Ranks
        BY <1>3
      <3>2. CASE i < j
        BY <3>1, <3>2, <1>4, Sizes DEF Ranks
      <3>3. CASE j < i
        BY <3>1, <3>3, <1>4, Sizes DEF Ranks
      <3> QED
        BY <3>1, <3>2, <3>3, <1>14
    <2>2. population[f[i]] = q[i] /\ population[f[j]] = q[i] /\ q[i] \in Chromosome
      BY <2>1, <1>5, <1>7, <1>14
    <2> QED
      BY <2>1, <2>2 DEF Twins
  <1> QED
    BY <1>2, <1>3, <1>8, <1>9, <1>10, <1>12, <1>13, <1>14 DEF Group, q

LEMMA Joined ==
    ASSUME NEW a \in Seq(Chromosome), NEW b \in Seq(Chromosome)
    PROVE  /\ a \o b \in Seq(Chromosome) /\ Len(a \o b) = Len(a) + Len(b)
           /\ \A i \in 1 .. Len(a) : (a \o b)[i] = a[i]
           /\ \A i \in 1 .. Len(b) : (a \o b)[Len(a) + i] = b[i]
  OBVIOUS

\* What a sequence looks like in which c has been inserted at p.
With(q, p, c) == SubSeq(q, 1, p - 1) \o <<c>> \o SubSeq(q, p, Len(q))

LEMMA InsertedAt ==
    ASSUME NEW q \in Seq(Chromosome), NEW c \in Chromosome, NEW p \in 1 .. Len(q) + 1
    PROVE  /\ With(q, p, c) \in Seq(Chromosome) /\ Len(With(q, p, c)) = Len(q) + 1
           /\ With(q, p, c)[p] = c
           /\ \A i \in 1 .. p - 1 : With(q, p, c)[i] = q[i]
           /\ \A i \in p + 1 .. Len(q) + 1 : With(q, p, c)[i] = q[i - 1]
  <1>0. PICK r : r = With(q, p, c)
    OBVIOUS
  <1>1. PICK n \in Nat : n = Len(q)
    OBVIOUS
  <1>2. p \in 1 .. n + 1 /\ p \in Nat /\ \A i \in 1 .. n : q[i] \in Chromosome
    BY <1>1
  <1> DEFINE front == SubSeq(q, 1, p - 1)
             back == SubSeq(q, p, n)
  <1>3. front \in Seq(Chromosome) /\ Len(front) = p - 1 /\ \A i \in 1 .. p - 1 : front[i] = q[i]
    BY <1>1, <1>2
  <1>4. back \in Seq(Chromosome) /\ Len(back) = n - p + 1 /\ \A i \in 1 .. n - p + 1 : back[i] = q[p + i - 1]
    BY <1>1, <1>2
  <1>5. r = front \o <<c>> \o back
    BY <1>0, <1>1 DEF With
  <1> HIDE DEF front, back
  <1> DEFINE head == front \o <<c>>
  <1>6. head \in Seq(Chromosome) /\ Len(head) = p /\ head[p] = c /\ \A i \in 1 .. p - 1 : head[i] = front[i]
    BY <1>2, <1>3
  <1>7. r = head \o back
    BY <1>5
  <1> HIDE DEF head
  <1>8. /\ r \in Seq(Chromosome) /\ Len(r) = p + (n - p + 1)
        /\ \A i \in 1 .. p : r[i] = head[i]
        /\ \A i \in 1 .. n - p + 1 : r[p + i] = back[i]
    <2>1. head \o back \in Seq(Chromosome) /\ Len(head \o back) = Len(head) + Len(back)
      BY <1>4, <1>6, Joined
    <2>2. /\ \A i \in 1 .. Len(head) : (head \o back)[i] = head[i]
          /\ \A i \in 1 .. Len(back) : (head \o back)[Len(head) + i] = back[i]
      BY <1>4, <1>6, Joined
    <2> QED
      BY <1>4, <1>6, <1>7, <2>1, <2>2
  <1>9. p + (n - p + 1) = n + 1
    BY <1>2
  <1>10. ASSUME NEW i \in p + 1 .. n + 1 PROVE r[i] = q[i - 1]
    <2>1. i - p \in 1 .. n - p + 1 /\ p + (i - p) - 1 = i - 1 /\ p + (i - p) = i
      BY <1>2
    <2>2. r[p + (i - p)] = back[i - p] /\ back[i - p] = q[p + (i - p) - 1]
      BY <1>4, <1>8, <2>1
    <2> QED
      BY <2>1, <2>2
  <1>11. p \in 1 .. p /\ \A i \in 1 .. p - 1 : i \in 1 .. p
    BY <1>2
  <1> QED
    <2>1. r \in Seq(Chromosome) /\ Len(r) = Len(q) + 1 /\ r[p] = c
      BY <1>1, <1>6, <1>8, <1>9, <1>11
    <2>2. \A i \in 1 .. p - 1 : r[i] = q[i]
      BY <1>3, <1>6, <1>8, <1>11
    <2> QED
      BY <1>0, <1>1, <1>10, <2>1, <2>2

\* Where c may be put, the group rises before and after it.
LEMMA InsertedRises ==
    ASSUME NEW q \in Seq(Chromosome), Rising(q), NEW c \in Chromosome, NEW p \in Places(q, c)
    PROVE  /\ Rising(With(q, p, c))
           /\ \A k \in 1 .. Len(q) : Fitness[With(q, p, c)[k]] <= Fitness[q[k]]
  <1>0. PICK r : r = With(q, p, c)
    OBVIOUS
  <1>1. PICK n \in Nat : n = Len(q)
    OBVIOUS
  <1>2. p \in 1 .. n + 1 /\ p \in Nat
    BY <1>1 DEF Places
  <1>3. /\ Len(r) = n + 1 /\ r[p] = c
        /\ \A i \in 1 .. p - 1 : r[i] = q[i]
        /\ \A i \in p + 1 .. n + 1 : r[i] = q[i - 1]
    <2>1. p \in 1 .. Len(q) + 1
      BY <1>1, <1>2
    <2>2. /\ Len(r) = Len(q) + 1 /\ r[p] = c
          /\ \A i \in 1 .. p - 1 : r[i] = q[i]
          /\ \A i \in p + 1 .. Len(q) + 1 : r[i] = q[i - 1]
      BY <1>0, <2>1, InsertedAt
    <2> QED
      BY <1>1, <2>2
  <1> DEFINE fq(k) == Fitness[q[k]]
             fr(k) == Fitness[r[k]]
             fc == Fitness[c]
  <1>4. fc \in Int /\ \A k \in 1 .. n : fq(k) \in Int
    BY <1>1, Sizes
  <1>5. \A i, j \in 1 .. n : i <= j => fq(i) <= fq(j)
    BY <1>1 DEF Rising
  <1>6. /\ \A k \in 1 .. p - 1 : fq(k) <= fc
        /\ \A k \in p .. n : fq(k) >= fc
    <2>1. \A k \in p .. n : k \in 1 .. n
      BY <1>2
    <2> QED
      BY <1>1, <1>4, <2>1 DEF Places
  <1>7. /\ fr(p) = fc
        /\ \A i \in 1 .. p - 1 : fr(i) = fq(i) /\ i \in 1 .. n
        /\ \A i \in p + 1 .. n + 1 : fr(i) = fq(i - 1) /\ i - 1 \in p .. n /\ i - 1 \in 1 .. n
    <2>1. \A i \in 1 .. p - 1 : i \in 1 .. n
      BY <1>2
    <2>2. \A i \in p + 1 .. n + 1 : i - 1 \in p .. n /\ i - 1 \in 1 .. n
      BY <1>2
    <2> QED
      BY <1>3, <2>1, <2>2
  <1> HIDE DEF fq, fr, fc
  <1>8. ASSUME NEW i \in 1 .. n + 1, NEW j \in 1 .. n + 1, i <= j PROVE fr(i) <= fr(j)
    <2>1. CASE i < p
      <3>1. fr(i) = fq(i) /\ i \in 1 .. n /\ fq(i) <= fc /\ i \in 1 .. p - 1
        BY <2>1, <1>2, <1>6, <1>7
      <3>2. CASE j < p
        <4>1. j \in 1 .. p - 1
          BY <3>2, <1>2
        <4> QED
          BY <3>1, <4>1, <1>5, <1>7, <1>8
      <3>3. CASE j = p
        BY <3>1, <3>3, <1>7
      <3>4. CASE j > p
        <4>1. j \in p + 1 .. n + 1
          BY <3>4, <1>2
        <4>2. fr(j) = fq(j - 1) /\ fq(j - 1) >= fc /\ fq(j - 1) \in Int
          BY <4>1, <1>4, <1>6, <1>7
        <4> QED
          BY <3>1, <4>2, <1>4
      <3> QED
        BY <3>2, <3>3, <3>4, <1>2
    <2>2. CASE i = p
      <3>1. CASE j = p
        BY <2>2, <3>1, <1>4, <1>7
      <3>2. CASE j > p
        <4>1. j \in p + 1 .. n + 1
          BY <3>2, <1>2
        <4> QED
          BY <4>1, <2>2, <1>4, <1>6, <1>7
      <3> QED
        BY <3>1, <3>2, <2>2, <1>2, <1>8
    <2>3. CASE i > p
      <3>1. i \in p + 1 .. n + 1 /\ j \in p + 1 .. n + 1 /\ i - 1 <= j - 1
        BY <2>3, <1>2, <1>8
      <3> QED
        BY <3>1, <1>5, <1>7
    <2> QED
      BY <2>1, <2>2, <2>3, <1>2
  <1>9. ASSUME NEW k \in 1 .. n PROVE fr(k) <= fq(k)
    <2>1. CASE k < p
      <3>1. k \in 1 .. p - 1
        BY <2>1, <1>2
      <3> QED
        BY <3>1, <1>4, <1>7
    <2>2. CASE k = p
      <3>1. k \in p .. n
        BY <2>2, <1>2
      <3> QED
        BY <3>1, <2>2, <1>4, <1>6, <1>7
    <2>3. CASE k > p
      <3>1. k \in p + 1 .. n + 1 /\ k - 1 \in 1 .. n /\ k - 1 <= k
        BY <2>3, <1>2
      <3> QED
        BY <3>1, <1>5, <1>7
    <2> QED
      BY <2>1, <2>2, <2>3, <1>2
  <1>10. Rising(r)
    BY <1>3, <1>8 DEF Rising, fr
  <1> QED
    BY <1>0, <1>1, <1>9, <1>10 DEF fr, fq

\* One offspring more.
LEMMA GroupGrows ==
    ASSUME PopulationInv, Elitism < PopulationSize, NEW out, Fresh(out), NEW start \in Int,
           NEW n \in 1 .. Count, NEW q, Group(q, n - 1, out, start),
           out[n - 1] # None, NEW p \in Places(q, out[n - 1])
    PROVE  Group(With(q, p, out[n - 1]), n, out, start)
  <1>1. PICK c : c = out[n - 1]
    OBVIOUS
  <1>2. n \in Nat /\ n - 1 \in Nat /\ n - 1 \in 0 .. Count - 1 /\ n - 1 \in Slots
    <2>1. Count \in Nat /\ \A s \in 0 .. Count - 1 : s \in Slots
      BY CountSize
    <2>2. n \in Nat /\ n - 1 \in Nat /\ n - 1 \in 0 .. Count - 1
      BY <2>1
    <2> QED
      BY <2>1, <2>2
  <1>3. c \in Chromosome /\ ~InPopulation(c)
    BY <1>1, <1>2 DEF Fresh
  <1>4. PICK m \in Nat : m = Len(q)
    BY DEF Group
  <1>5. /\ q \in Seq(Chromosome) /\ Len(q) = m /\ Rising(q) /\ Elitism <= m
        /\ \A i \in 1 .. m : q[i] \in Chromosome
    BY <1>4 DEF Group
  <1>6. p \in 1 .. m + 1 /\ p \in Nat /\ p \in Places(q, c)
    BY <1>1, <1>4 DEF Places
  <1>7. PICK r : r = With(q, p, c)
    OBVIOUS
  <1>8. /\ r \in Seq(Chromosome) /\ Len(r) = m + 1 /\ r[p] = c
        /\ \A i \in 1 .. p - 1 : r[i] = q[i]
        /\ \A i \in p + 1 .. m + 1 : r[i] = q[i - 1]
    <2>1. p \in 1 .. Len(q) + 1
      BY <1>4, <1>6
    <2>2. /\ With(q, p, c) \in Seq(Chromosome) /\ Len(With(q, p, c)) = Len(q) + 1
          /\ With(q, p, c)[p] = c
          /\ \A i \in 1 .. p - 1 : With(q, p, c)[i] = q[i]
          /\ \A i \in p + 1 .. Len(q) + 1 : With(q, p, c)[i] = q[i - 1]
      BY <2>1, <1>3, <1>5, InsertedAt
    <2> QED
      BY <2>2, <1>4, <1>7
  <1>9. Rising(r) /\ \A k \in 1 .. m : Fitness[r[k]] <= Fitness[q[k]]
    BY <1>3, <1>5, <1>6, <1>7, InsertedRises
  <1>10. EnteredBy(out, n) = EnteredBy(out, n - 1) \cup {n - 1} /\ n - 1 \notin EnteredBy(out, n - 1)
    BY <1>2 DEF EnteredBy
  <1>11. Len(r) = start + Cardinality(EnteredBy(out, n))
    <2>1. IsFiniteSet(0 .. (n - 1) - 1)
      BY <1>2, FS_Interval
    <2>2. IsFiniteSet(EnteredBy(out, n - 1))
      BY <2>1, FS_Subset DEF EnteredBy
    <2>3. PICK e \in Nat : e = Cardinality(EnteredBy(out, n - 1))
      BY <2>2, FS_CardinalityType
    <2>4. Cardinality(EnteredBy(out, n)) = e + 1
      BY <1>10, <2>2, <2>3, FS_AddElement
    <2>5. m = start + e
      BY <1>4, <2>3 DEF Group
    <2> QED
      BY <1>8, <2>4, <2>5
  <1>12. ASSUME NEW i \in 1 .. Elitism PROVE Fitness[r[i]] <= Fitness[population[i]]
    <2>1. i \in 1 .. m /\ i \in Ranks /\ i \in 1 .. Len(r)
      BY <1>5, <1>8, Sizes DEF Ranks
    <2>2. Fitness[r[i]] <= Fitness[q[i]]
      BY <1>9, <2>1
    <2>3. Fitness[q[i]] <= Fitness[population[i]]
      BY DEF Group
    <2>4. r[i] \in Chromosome /\ q[i] \in Chromosome /\ population[i] \in Chromosome
      BY <1>5, <1>8, <2>1 DEF PopulationInv
    <2>5. Fitness[r[i]] \in Int /\ Fitness[q[i]] \in Int /\ Fitness[population[i]] \in Int
      BY <2>4, Sizes
    <2> QED
      BY <2>2, <2>3, <2>5
  <1>13. r[1] = population[1] \/ Fitness[r[1]] < Fitness[population[1]]
    <2>1. 1 \in 1 .. m /\ 1 \in 1 .. Elitism /\ 1 \in Ranks /\ ~ (1 > Elitism)
      BY <1>5, Sizes DEF Ranks
    <2>2. CASE p = 1
      <3>1. Fitness[q[1]] > Fitness[c]
        <4>1. 1 \in p .. Len(q)
          BY <2>1, <2>2, <1>4
        <4> QED
          BY <4>1, <2>1, <1>6 DEF Places
      <3>2. Fitness[q[1]] <= Fitness[population[1]]
        BY <2>1 DEF Group
      <3>3. q[1] \in Chromosome /\ population[1] \in Chromosome
        BY <1>5, <2>1 DEF PopulationInv
      <3>4. Fitness[q[1]] \in Int /\ Fitness[c] \in Int /\ Fitness[population[1]] \in Int
        BY <3>3, <1>3, Sizes
      <3>5. r[1] = c
        BY <1>8, <2>2
      <3> QED
        BY <3>1, <3>2, <3>4, <3>5
    <2>3. CASE p # 1
      <3>1. 1 \in 1 .. p - 1
        BY <2>3, <1>6
      <3>2. r[1] = q[1]
        BY <1>8, <3>1
      <3> QED
        BY <3>2 DEF Group
    <2> QED
      BY <2>2, <2>3
  <1> DEFINE from(i) == IF i < p THEN i ELSE i - 1
  <1>14. ASSUME NEW i \in 1 .. m + 1, i # p PROVE from(i) \in 1 .. m /\ r[i] = q[from(i)]
    <2>1. CASE i < p
      <3>1. i \in 1 .. p - 1 /\ i \in 1 .. m /\ from(i) = i
        BY <2>1, <1>6
      <3> QED
        BY <3>1, <1>8
    <2>2. CASE i > p
      <3>1. i \in p + 1 .. m + 1 /\ i - 1 \in 1 .. m /\ from(i) = i - 1
        BY <2>2, <1>6
      <3> QED
        BY <3>1, <1>8
    <2> QED
      BY <2>1, <2>2, <1>6, <1>14
  <1>15. ASSUME NEW k \in 1 .. m
         PROVE  /\ InPopulation(q[k]) \/ \E s \in EnteredBy(out, n) : q[k] = out[s]
                /\ q[k] # c
    <2>1. InPopulation(q[k]) \/ \E s \in EnteredBy(out, n - 1) : q[k] = out[s]
      BY <1>4 DEF Group
    <2>2. ASSUME NEW s \in EnteredBy(out, n - 1) PROVE out[s] # c
      <3>1. s \in 0 .. Count - 1 /\ s # n - 1
        <4>1. s \in 0 .. (n - 1) - 1 /\ Count \in Nat
          BY CountSize DEF EnteredBy
        <4> QED
          BY <4>1, <1>2
      <3>2. s \in Slots
        BY <3>1, CountSize
      <3> QED
        BY <3>1, <3>2, <1>1, <1>2 DEF Fresh
    <2> QED
      BY <2>1, <2>2, <1>3, <1>10
  <1>16. ASSUME NEW i \in 1 .. m + 1
         PROVE  InPopulation(r[i]) \/ \E s \in EnteredBy(out, n) : r[i] = out[s]
    <2>1. CASE i = p
      <3>1. n - 1 \in EnteredBy(out, n)
        BY <1>10
      <3> QED
        BY <2>1, <3>1, <1>1, <1>8
    <2>2. CASE i # p
      BY <2>2, <1>14, <1>15
    <2> QED
      BY <2>1, <2>2
  <1>17. ASSUME NEW i \in 1 .. m + 1, NEW j \in 1 .. m + 1, i # j, r[i] = r[j]
         PROVE  r[i] \in Twins
    <2>1. i # p
      <3> SUFFICES ASSUME i = p PROVE FALSE
        OBVIOUS
      <3>1. from(j) \in 1 .. m /\ q[from(j)] = c
        BY <1>8, <1>14, <1>17
      <3> QED
        BY <3>1, <1>15
    <2>2. j # p
      <3> SUFFICES ASSUME j = p PROVE FALSE
        OBVIOUS
      <3>1. from(i) \in 1 .. m /\ q[from(i)] = c
        BY <1>8, <1>14, <1>17
      <3> QED
        BY <3>1, <1>15
    <2>3. /\ from(i) \in 1 .. m /\ r[i] = q[from(i)]
          /\ from(j) \in 1 .. m /\ r[j] = q[from(j)]
      BY <2>1, <2>2, <1>14
    <2>4. from(i) # from(j)
      BY <2>1, <2>2, <1>6, <1>17
    <2>5. \A a, b \in 1 .. m : a # b /\ q[a] = q[b] => q[a] \in Twins
      BY <1>4 DEF Group
    <2> HIDE DEF from
    <2> QED
      BY <2>3, <2>4, <2>5, <1>17
  <1>18. Elitism <= Len(r)
    BY <1>5, <1>8, Sizes
  <1>19. Group(r, n, out, start)
    BY <1>8, <1>9, <1>11, <1>12, <1>13, <1>16, <1>17, <1>18 DEF Group
  <1> QED
    BY <1>1, <1>7, <1>19

\* Whatever way the offspring are entered, the new population is such a group.
LEMMA EnteredGroup ==
    ASSUME PopulationInv, Elitism < PopulationSize, NEW out, Fresh(out), NEW start \in Int,
           NEW q, Group(q, 0, out, start)
    PROVE  \A r \in Entered(q, out) : Group(r, Count, out, start)
  <1> DEFINE R == SUBSET Seq(Chromosome)
             more(S, n) == IF out[n - 1] = None THEN S
                           ELSE UNION {Inserted(r, out[n - 1]) : r \in S}
             Add == [x \in R \X (1 .. Count) |-> more(x[1], x[2])]
             Enters(h) == h = [n \in 0 .. Count |->
                IF n = 0 THEN {q}
                ELSE IF out[n - 1] = None THEN h[n - 1]
                ELSE UNION {Inserted(r, out[n - 1]) : r \in h[n - 1]}]
  <1>1. Count \in Nat /\ {q} \in R /\ \A n \in 1 .. Count : n - 1 \in 0 .. Count /\ n - 1 \in Slots
    <2>1. Count \in Nat /\ \A s \in 0 .. Count - 1 : s \in Slots
      BY CountSize
    <2>2. \A n \in 1 .. Count : n - 1 \in 0 .. Count /\ n - 1 \in 0 .. Count - 1
      BY <2>1
    <2> QED
      BY <2>1, <2>2 DEF Group
  <1>2. \A r, c : Inserted(r, c) = {With(r, p, c) : p \in Places(r, c)}
    BY DEF Inserted, InsertionPoints, With
  <1>3. ASSUME NEW S \in R, NEW n \in 1 .. Count PROVE more(S, n) \in R
    <2>1. CASE out[n - 1] = None
      BY <2>1
    <2>2. CASE out[n - 1] # None
      <3>1. out[n - 1] \in Chromosome
        BY <1>1, <2>2 DEF Fresh
      <3>2. ASSUME NEW r \in S, NEW p \in Places(r, out[n - 1])
            PROVE  With(r, p, out[n - 1]) \in Seq(Chromosome)
        BY <3>1, InsertedAt DEF Places
      <3>3. \A r \in S : Inserted(r, out[n - 1]) \subseteq Seq(Chromosome)
        BY <1>2, <3>2
      <3> QED
        BY <2>2, <3>3
    <2> QED
      BY <2>1, <2>2
  <1>4. Add \in [R \X (1 .. Count) -> R]
    <2>1. \A x \in R \X (1 .. Count) : x[1] \in R /\ x[2] \in 1 .. Count
      OBVIOUS
    <2> HIDE DEF more, R
    <2>2. \A x \in R \X (1 .. Count) : more(x[1], x[2]) \in R
      BY <2>1, <1>3
    <2> QED
      BY <2>2
  <1>5. PICK g : Follows(g, Count, R, {q}, Add)
    <2> HIDE DEF Add, R
    <2> QED
      BY <1>1, <1>4, DefinedFromBefore, Zenon
  <1>6. Enters(g)
    <2>1. g \in [0 .. Count -> R] /\ g[0] = {q}
      BY <1>5 DEF Follows
    <2>2. ASSUME NEW n \in 1 .. Count PROVE g[n] = more(g[n - 1], n)
      <3>1. g[n - 1] \in R
        BY <1>1, <2>1
      <3>2. g[n] = Add[<<g[n - 1], n>>]
        BY <1>5 DEF Follows
      <3> HIDE DEF R, more
      <3>3. <<g[n - 1], n>> \in R \X (1 .. Count)
        BY <3>1
      <3> QED
        BY <3>2, <3>3
    <2>3. \A n \in 0 .. Count : n # 0 => n \in 1 .. Count
      BY <1>1
    <2>4. ASSUME NEW n \in 0 .. Count PROVE g[n] = IF n = 0 THEN {q} ELSE more(g[n - 1], n)
      BY <2>1, <2>2, <2>3
    <2>5. g = [n \in 0 .. Count |-> g[n]]
      BY <2>1
    <2>6. g = [n \in 0 .. Count |-> IF n = 0 THEN {q} ELSE more(g[n - 1], n)]
      <3> HIDE DEF more
      <3> QED
        BY <2>4, <2>5
    <2> QED
      BY <2>6
  <1>7. PICK h : Enters(h) /\ Entered(q, out) = h[Count]
    <2>1. Entered(q, out) = (CHOOSE h : Enters(h))[Count]
      BY DEF Entered
    <2> HIDE DEF Enters
    <2> QED
      BY <1>6, <2>1
  <1>8. h[0] = {q} /\ \A n \in 1 .. Count : h[n] = more(h[n - 1], n)
    <2>1. 0 \in 0 .. Count /\ \A n \in 1 .. Count : n \in 0 .. Count /\ n # 0
      BY <1>1
    <2> QED
      BY <1>7, <2>1
  <1> HIDE DEF Enters, Add, R
  <1> DEFINE Right(n) == \A r \in h[n] : Group(r, n, out, start)
             Good == {n \in 0 .. Count : Right(n)}
  <1>9. Right(0)
    BY <1>8
  <1>10. ASSUME NEW n \in 1 .. Count, Right(n - 1) PROVE Right(n)
    <2>1. CASE out[n - 1] = None
      <3>1. h[n] = h[n - 1]
        BY <1>8, <2>1
      <3>2. EnteredBy(out, n) = EnteredBy(out, n - 1)
        <4>1. n \in Nat
          BY <1>1
        <4> QED
          BY <2>1, <4>1 DEF EnteredBy
      <3> QED
        BY <3>1, <3>2, <1>10 DEF Group
    <2>2. CASE out[n - 1] # None
      <3>1. h[n] = UNION {Inserted(r, out[n - 1]) : r \in h[n - 1]}
        BY <1>8, <2>2
      <3> SUFFICES ASSUME NEW s \in h[n] PROVE Group(s, n, out, start)
        OBVIOUS
      <3>2. PICK r \in h[n - 1] : s \in Inserted(r, out[n - 1])
        BY <3>1
      <3>3. PICK p \in Places(r, out[n - 1]) : s = With(r, p, out[n - 1])
        BY <1>2, <3>2
      <3>4. Group(r, n - 1, out, start)
        BY <1>10
      <3> QED
        BY <2>2, <3>3, <3>4, GroupGrows
    <2> QED
      BY <2>1, <2>2
  <1> HIDE DEF Right
  <1>11. 0 .. Count \subseteq Good
    <2>1. 0 \in Good /\ \A n \in 1 .. Count : n - 1 \in Good => n \in Good
      BY <1>1, <1>9, <1>10
    <2> HIDE DEF Good
    <2> QED
      BY <1>1, <2>1, Upwards
  <1>12. Right(Count)
    BY <1>1, <1>11
  <1> QED
    BY <1>7, <1>12 DEF Right

\* Step by step, a replacement takes the population to such a group of its size.
LEMMA ReplacedGroup ==
    ASSUME PopulationInv, Elitism < PopulationSize, NEW out, Fresh(out),
           NEW indices \in Indices, NEW q \in ReplaceGroup(indices, out)
    PROVE  Group(q, Count, out, PopulationSize - Cardinality(EnteredBy(out, Count)))
  <1> DEFINE replaced == {indices[s] : s \in Filled(out)}
  <1>1. Filled(out) = EnteredBy(out, Count) /\ Filled(out) \subseteq 0 .. Count - 1
    BY DEF Filled, EnteredBy
  <1>2. indices \in [0 .. Count - 1 -> Replaceable]
        /\ \A s, t \in 0 .. Count - 1 : indices[s] = indices[t] => s = t
    BY DEF Indices
  <1>3. replaced \in SUBSET Replaceable
    BY <1>1, <1>2
  <1>4. IsFiniteSet(Filled(out))
    <2>1. Count - 1 \in Int
      BY CountSize
    <2>2. IsFiniteSet(0 .. Count - 1)
      BY <2>1, FS_Interval
    <2> QED
      BY <1>1, <2>2, FS_Subset
  <1>5. Cardinality(replaced) = Cardinality(Filled(out)) /\ Cardinality(Filled(out)) \in Nat
    <2> DEFINE place == [s \in Filled(out) |-> indices[s]]
    <2>1. place \in Bijection(Filled(out), replaced)
      <3>1. place \in [Filled(out) -> replaced]
        OBVIOUS
      <3>2. \A s, t \in Filled(out) : place[s] = place[t] => s = t
        BY <1>1, <1>2
      <3>3. \A r \in replaced : \E s \in Filled(out) : place[s] = r
        OBVIOUS
      <3> QED
        BY <3>1, <3>2, <3>3 DEF Bijection, Injection, Surjection, IsInjective
    <2>2. ExistsBijection(Filled(out), replaced)
      BY <2>1 DEF ExistsBijection
    <2> HIDE DEF replaced
    <2> QED
      BY <1>4, <2>2, FS_Bijection, FS_CardinalityType
  <1>6. Group(Survivors(replaced), 0, out, PopulationSize - Cardinality(replaced))
    <2> HIDE DEF replaced
    <2> QED
      BY <1>3, SurvivorsGroup
  <1>7. PICK start \in Int : start = PopulationSize - Cardinality(Filled(out))
    BY <1>5, Sizes
  <1>8. Group(Survivors(replaced), 0, out, start)
    BY <1>5, <1>6, <1>7
  <1>9. q \in Entered(Survivors(replaced), out)
    BY DEF ReplaceGroup
  <1> HIDE DEF replaced
  <1>10. Group(q, Count, out, start)
    BY <1>8, <1>9, EnteredGroup
  <1> QED
    BY <1>1, <1>7, <1>10

-----------------------------------------------------------------------------
(***************************************************************************)
(* The population is sorted, and no offspring that was produced in this    *)
(* generation is in it.                                                    *)
(***************************************************************************)
BufferInv ==
    /\ output \in [Slots -> Chromosome \cup {None}]
    /\ phase = "work" => parents \in [1 .. SelectionSize -> Ranks]
    /\ phase \in {"work", "after"} =>
         \A s \in Slots : writes[s] # 0 /\ output[s] # None => ~InPopulation(output[s])

GenerationInv == FillInv /\ PopulationInv /\ BufferInv

LEMMA OffspringFresh ==
    ASSUME GenerationInv, phase = "after"
    PROVE  Fresh(Offspring(output)) /\ Offspring(output) \in [Slots -> Chromosome \cup {None}]
  <1> DEFINE out == Offspring(output)
  <1>1. out = [s \in Slots |-> IF \E t \in Slots : t < s /\ output[t] = output[s] THEN None ELSE output[s]]
    BY DEF Offspring, RemoveDuplicates
  <1>2. /\ output \in [Slots -> Chromosome \cup {None}]
        /\ \A s \in Slots : output[s] # None => ~InPopulation(output[s])
    BY DEF GenerationInv, FillInv, BufferInv
  <1>3. \A s \in Slots : out[s] # None =>
            out[s] = output[s] /\ ~ \E t \in Slots : t < s /\ output[t] = output[s]
    BY <1>1
  <1>4. out \in [Slots -> Chromosome \cup {None}]
    BY <1>1, <1>2
  <1> HIDE DEF out
  <1>5. ASSUME NEW s \in Slots, NEW t \in Slots, out[s] = out[t], out[s] # None PROVE s = t
    <2>1. ~ (t < s) /\ ~ (s < t)
      BY <1>3, <1>5
    <2> QED
      BY <2>1, Sizes DEF Slots
  <1>6. Fresh(out)
    BY <1>2, <1>3, <1>4, <1>5 DEF Fresh
  <1> QED
    BY <1>4, <1>6 DEF out

\* What AfterWorkers makes of the population.
LEMMA AfterReplaces ==
    ASSUME GenerationInv, AfterWorkers
    PROVE  \/ population' = population /\ output' = output
           \/ /\ Elitism < PopulationSize /\ output' \in [Slots -> Chromosome \cup {None}]
              /\ \E out, n, start : Group(population', n, out, start)
              /\ population' \in Seq(Chromosome) /\ Len(population') = PopulationSize
  <1>1. phase = "after"
    BY DEF AfterWorkers
  <1>2. CASE Elitism >= PopulationSize
    BY <1>2 DEF AfterWorkers
  <1>3. CASE ~ (Elitism >= PopulationSize)
    <2>1. Elitism < PopulationSize
      BY <1>3, Sizes
    <2>2. PICK out : out = Offspring(output)
      OBVIOUS
    <2>3. PICK indices \in Indices : population' \in ReplaceGroup(indices, out)
      BY <1>3, <2>2 DEF AfterWorkers
    <2>4. output' = out
      BY <1>3, <2>2 DEF AfterWorkers
    <2>5. Fresh(out) /\ out \in [Slots -> Chromosome \cup {None}]
      BY <1>1, <2>2, OffspringFresh
    <2>6. PICK q : q = population'
      OBVIOUS
    <2>7. Group(q, Count, out, PopulationSize - Cardinality(EnteredBy(out, Count)))
      BY <2>1, <2>3, <2>5, <2>6, ReplacedGroup DEF GenerationInv
    <2>8. Cardinality(EnteredBy(out, Count)) \in Nat
      <3>1. Count - 1 \in Int
        BY <2>1, CountSize
      <3>2. IsFiniteSet(0 .. Count - 1)
        BY <3>1, FS_Interval
      <3>3. IsFiniteSet(EnteredBy(out, Count))
        BY <3>2, FS_Subset DEF EnteredBy
      <3> QED
        BY <3>3, FS_CardinalityType
    <2>9. q \in Seq(Chromosome) /\ Len(q) = PopulationSize
      BY <2>7, <2>8, Sizes DEF Group
    <2> QED
      BY <2>1, <2>4, <2>5, <2>6, <2>7, <2>9
  <1> QED
    BY <1>2, <1>3

LEMMA GenerationInit == Init => GenerationInv
  <1> SUFFICES ASSUME Init PROVE GenerationInv
    OBVIOUS
  <1>1. population \in [1 .. PopulationSize -> Chromosome] /\ Sorted(population)
    BY DEF Init, Ranks
  <1>2. PopulationInv
    BY <1>1, Sizes, SortedRises DEF PopulationInv, Ranks
  <1>3. BufferInv
    BY DEF Init, BufferInv
  <1> QED
    BY <1>2, <1>3, FillInit DEF GenerationInv

\* What a worker produces is a chromosome.
LEMMA CoupleMates ==
    ASSUME GenerationInv, phase = "work", NEW s \in Nat, NEW child \in Mate[Couple(s)]
    PROVE  child \in Chromosome
  <1>1. /\ parents \in [1 .. SelectionSize -> Ranks] /\ SelectionSize \in Nat /\ SelectionSize >= 1
        /\ Len(parents) = SelectionSize /\ population \in [Ranks -> Chromosome]
    BY Sizes DEF GenerationInv, BufferInv, PopulationInv
  <1>2. ASSUME NEW p \in Nat PROVE Parent(p) \in Chromosome
    <2>1. p % Len(parents) \in 0 .. SelectionSize - 1
      BY <1>1
    <2>2. (p % Len(parents)) + 1 \in 1 .. SelectionSize
      BY <1>1, <2>1
    <2>3. parents[(p % Len(parents)) + 1] \in Ranks
      BY <1>1, <2>2
    <2> QED
      BY <1>1, <2>3 DEF Parent
  <1>3. Couple(s) \in Chromosome \X Chromosome
    <2>1. CASE s % 2 = 0
      <3>1. Parent(s) \in Chromosome /\ Parent(s + 1) \in Chromosome
        BY <1>2
      <3> QED
        BY <2>1, <3>1 DEF Couple
    <2>2. CASE s % 2 # 0
      <3>1. s - 1 \in Nat
        BY <2>2
      <3>2. Parent(s) \in Chromosome /\ Parent(s - 1) \in Chromosome
        BY <1>2, <3>1
      <3> QED
        BY <2>2, <3>2 DEF Couple
    <2> QED
      BY <2>1, <2>2
  <1> QED
    BY <1>3, MateAssumption

LEMMA GenerationStep == GenerationInv /\ [Next]_vars => GenerationInv'
  <1> SUFFICES ASSUME GenerationInv, [Next]_vars PROVE GenerationInv'
    OBVIOUS
  <1>1. FillInv'
    BY FillStep DEF GenerationInv
  <1>2. ASSUME population' = population PROVE PopulationInv' /\ \A c : InPopulation(c)' <=> InPopulation(c)
    BY <1>2 DEF GenerationInv, PopulationInv, Rising, InPopulation
  <1>3. CASE BeforeWorkers
    <2>1. population' = population /\ output' = output /\ phase' = "work"
          /\ writes' = [s \in Slots |-> 0]
      BY <1>3 DEF BeforeWorkers
    <2>2. parents' \in [1 .. SelectionSize -> Ranks]
      BY <1>3 DEF BeforeWorkers, Selections
    <2>3. BufferInv'
      BY <2>1, <2>2 DEF GenerationInv, BufferInv
    <2> QED
      BY <1>1, <1>2, <2>1, <2>3 DEF GenerationInv
  <1>4. ASSUME NEW w \in Workers, WorkStep(w) PROVE GenerationInv'
    <2>1. population' = population /\ parents' = parents /\ phase' = phase /\ phase = "work"
      BY <1>4 DEF WorkStep
    <2>2. /\ output \in [Slots -> Chromosome \cup {None}] /\ writes \in [Slots -> Nat]
          /\ parents \in [1 .. SelectionSize -> Ranks]
          /\ \A s \in Slots : writes[s] # 0 /\ output[s] # None => ~InPopulation(output[s])
      BY <2>1 DEF GenerationInv, BufferInv, FillInv
    <2>3. PICK child \in Mate[Couple(next[w])] :
            IF next[w] \in Slots
            THEN /\ output' = [output EXCEPT ![next[w]] = Checked(child)]
                 /\ writes' = [writes EXCEPT ![next[w]] = @ + 1]
            ELSE UNCHANGED <<output, writes>>
      BY <1>4 DEF WorkStep
    <2>4. child \in Chromosome
      <3>1. next[w] \in Nat
        BY DEF GenerationInv, FillInv
      <3> QED
        BY <2>1, <2>3, <3>1, CoupleMates
    <2>5. /\ Checked(child) \in Chromosome \cup {None}
          /\ Checked(child) # None => ~InPopulation(Checked(child))
      BY <2>4 DEF Checked
    <2>6. /\ output' \in [Slots -> Chromosome \cup {None}]
          /\ \A s \in Slots : writes'[s] # 0 /\ output'[s] # None => ~InPopulation(output'[s])
      <3>1. CASE next[w] \in Slots
        <4>1. output' = [output EXCEPT ![next[w]] = Checked(child)]
              /\ writes' = [writes EXCEPT ![next[w]] = @ + 1]
          BY <2>3, <3>1
        <4> QED
          BY <2>2, <2>5, <3>1, <4>1
      <3>2. CASE next[w] \notin Slots
        <4>1. output' = output /\ writes' = writes
          BY <2>3, <3>2
        <4> QED
          BY <2>2, <4>1
      <3> QED
        BY <3>1, <3>2
    <2>7. BufferInv'
      BY <1>2, <2>1, <2>2, <2>6 DEF BufferInv
    <2> QED
      BY <1>1, <1>2, <2>1, <2>7 DEF GenerationInv
  <1>5. CASE JoinWorkers
    <2>1. population' = population /\ output' = output /\ writes' = writes
          /\ phase = "work" /\ phase' = "after"
      BY <1>5 DEF JoinWorkers
    <2>2. BufferInv'
      BY <1>2, <2>1 DEF GenerationInv, BufferInv
    <2> QED
      BY <1>1, <1>2, <2>1, <2>2 DEF GenerationInv
  <1>6. CASE AfterWorkers
    <2>1. phase' = "before"
      BY <1>6 DEF AfterWorkers
    <2>2. output' \in [Slots -> Chromosome \cup {None}]
      BY <1>6, AfterReplaces DEF GenerationInv, BufferInv
    <2>3. BufferInv'
      BY <2>1, <2>2 DEF BufferInv
    <2>4. PopulationInv'
      <3>1. CASE population' = population
        BY <1>2, <3>1
      <3>2. CASE population' # population
        <4>1. PICK q : q = population'
          OBVIOUS
        <4>2. /\ \E out, n, start : Group(q, n, out, start)
              /\ q \in Seq(Chromosome) /\ Len(q) = PopulationSize
          BY <1>6, <3>2, <4>1, AfterReplaces
        <4>3. Rising(q)
          BY <4>2 DEF Group
        <4>4. q \in [Ranks -> Chromosome]
          BY <4>2 DEF Ranks
        <4>5. Rising(population')
          BY <4>1, <4>3
        <4> QED
          BY <4>1, <4>4, <4>5 DEF PopulationInv, Rising
      <3> QED
        BY <3>1, <3>2
    <2> QED
      BY <1>1, <2>3, <2>4 DEF GenerationInv
  <1>7. CASE UNCHANGED vars
    <2>1. population' = population /\ output' = output /\ writes' = writes /\ phase' = phase
          /\ parents' = parents
      BY <1>7 DEF vars
    <2>2. BufferInv'
      BY <1>2, <2>1 DEF GenerationInv, BufferInv
    <2> QED
      BY <1>1, <1>2, <2>1, <2>2 DEF GenerationInv
  <1> QED
    BY <1>3, <1>4, <1>5, <1>6, <1>7 DEF Next

LEMMA GenerationAlways == Spec => []GenerationInv
  BY GenerationInit, GenerationStep, PTL DEF Spec

\* A step leaves the population alone or replaces it by a group.
LEMMA StepReplaces ==
    ASSUME GenerationInv, [Next]_vars, population' # population
    PROVE  /\ Elitism < PopulationSize /\ population' \in Seq(Chromosome)
           /\ Len(population') = PopulationSize
           /\ \E out, n, start : Group(population', n, out, start)
  <1>1. AfterWorkers
    BY DEF Next, vars, BeforeWorkers, WorkStep, JoinWorkers
  <1> QED
    BY <1>1, AfterReplaces

(***************************************************************************)
(* The fitness at the ranks that elitism protects never gets worse, for    *)
(* every size of population, elite and replacement.                        *)
(***************************************************************************)
THEOREM ProtectedRanksNeverWorsen == Spec => EliteNeverWorsens
  <1> DEFINE Kept == \A p \in 1 .. MinOf(Elitism, PopulationSize) :
                        Fitness[population'[p]] <= Fitness[population[p]]
  <1>1. ASSUME GenerationInv, [Next]_vars PROVE Kept
    <2>1. CASE population' = population
      <3>1. ASSUME NEW p \in 1 .. MinOf(Elitism, PopulationSize)
            PROVE  population[p] \in Chromosome
        <4>1. p \in Ranks
          BY Sizes DEF MinOf, Ranks
        <4> QED
          BY <4>1, <1>1 DEF GenerationInv, PopulationInv
      <3> QED
        BY <2>1, <3>1, Sizes
    <2>2. CASE population' # population
      <3>1. PICK q : q = population'
        OBVIOUS
      <3>2. Elitism < PopulationSize /\ \E out, n, start : Group(q, n, out, start)
        BY <1>1, <2>2, <3>1, StepReplaces
      <3>3. \A p \in 1 .. Elitism : Fitness[q[p]] <= Fitness[population[p]]
        BY <3>2 DEF Group
      <3>4. MinOf(Elitism, PopulationSize) = Elitism
        BY <3>2 DEF MinOf
      <3> QED
        BY <3>1, <3>3, <3>4
    <2> QED
      BY <2>1, <2>2
  <1>2. GenerationInv /\ [Next]_vars => [Kept]_vars
    BY <1>1
  <1> QED
    BY <1>2, GenerationAlways, PTL DEF Spec, EliteNeverWorsens

\* Another best chromosome is a better one: only progress is reported.
THEOREM NewBestIsBetter == Spec => OnlyProgressIsReported
  <1> DEFINE Better == population'[1] # population[1] => Fitness[population'[1]] < Fitness[population[1]]
  <1>1. ASSUME GenerationInv, [Next]_vars PROVE Better
    <2>1. CASE population' = population
      BY <2>1
    <2>2. CASE population' # population
      <3>1. PICK q : q = population'
        OBVIOUS
      <3>2. \E out, n, start : Group(q, n, out, start)
        BY <1>1, <2>2, <3>1, StepReplaces
      <3>3. q[1] = population[1] \/ Fitness[q[1]] < Fitness[population[1]]
        BY <3>2 DEF Group
      <3> QED
        BY <3>1, <3>3
    <2> QED
      BY <2>1, <2>2
  <1>2. GenerationInv /\ [Next]_vars => [Better]_vars
    BY <1>1
  <1> QED
    BY <1>2, GenerationAlways, PTL DEF Spec, OnlyProgressIsReported

\* No offspring becomes a second copy of a chromosome of the population.
THEOREM ReplacementBringsNoTwins == Spec => NoNewTwins
  <1> DEFINE NoMore == Twins' \subseteq Twins
  <1>1. ASSUME GenerationInv, [Next]_vars PROVE NoMore
    <2>1. CASE population' = population
      BY <2>1 DEF Twins
    <2>2. CASE population' # population
      <3>1. PICK q : q = population'
        OBVIOUS
      <3>2. Len(q) = PopulationSize /\ \E out, n, start : Group(q, n, out, start)
        BY <1>1, <2>2, <3>1, StepReplaces
      <3>3. \A i, j \in Ranks : i # j /\ q[i] = q[j] => q[i] \in Twins
        BY <3>2 DEF Group, Ranks
      <3>4. Twins' = {c \in Chromosome : \E i, j \in Ranks : i # j /\ q[i] = c /\ q[j] = c}
        BY <3>1 DEF Twins
      <3> QED
        BY <3>3, <3>4
    <2> QED
      BY <2>1, <2>2
  <1>2. GenerationInv /\ [Next]_vars => [NoMore]_vars
    BY <1>1
  <1> QED
    BY <1>2, GenerationAlways, PTL DEF Spec, NoNewTwins
=============================================================================
