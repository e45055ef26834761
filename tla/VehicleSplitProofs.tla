-------------------------- MODULE VehicleSplitProofs --------------------------
(***************************************************************************)
(* For every number of vehicles and stops, every average and every sum     *)
(* the database returns, over any number of turns and calls: when Step05   *)
(* ends with a split, the sections of the vehicles cover the stops.        *)
(***************************************************************************)
EXTENDS VehicleSplit, SharedLemmas

Last == NumVehicles - 1

\* The sections that a pass has closed, and the open one, end at the next stop.
ClosedSections ==
    \A k \in 0 .. index - 1 :
        /\ flg[k] \in 0 .. stop - 1
        /\ First(k) <= flg[k] /\ flg[k] < First(k) + MaxInner + 1
OpenSection ==
    /\ inner = stop - First(index)
    /\ inner > 0 => flg[index] = stop - 1

\* The entries of the last vehicle are left from a call before, or it has none.
LeftOver(calls) ==
    pay[Last] # 0 => flg[Last] = NumStops - 1 /\ Len(reads) >= calls
NotReached == index < Last \/ (index = Last /\ inner = 0)

\* What the sections were paid is the sum of what was read for their stops.
SectionsPaid ==
    /\ tmp = PaidBefore(PayIndex)[stop] - PaidBefore(PayIndex)[First(index)]
    /\ \A k \in 0 .. index - 1 : pay[k] = PayOfSection(k)
    /\ inner > 0 => pay[index] = tmp

\* A pass that has more sections than the arrays have room for ends in vain.
PassInv ==
    spc = "pass" =>
        /\ index \in Slots => ClosedSections /\ OpenSection /\ SectionsPaid
        /\ Len(reads) >= 1
        /\ NotReached => LeftOver(2)

SplitInv == SplitTypeOK /\ PassInv /\ (spc = "read" => LeftOver(1)) /\ SectionsCoverStops /\ PaysAddUp

LEMMA Constants ==
    /\ NumVehicles \in Nat /\ NumVehicles >= 1 /\ NumStops \in Nat /\ NumStops >= 1
    /\ MaxInner \in Nat /\ Last \in Nat /\ Last \in Slots /\ Last + 1 = NumVehicles
    /\ ArraySize \in Nat /\ \A k \in Slots : k \in Nat /\ \A j \in 0 .. k : j \in Slots
    /\ \A s \in Stops : s \in 0 .. NumStops /\ s + 1 \in 0 .. NumStops
    /\ 0 \in Stops /\ Pays \cup Garbage \subseteq Int
    /\ Turns \in Nat /\ MaxCalls \in Nat /\ AccuPay \in Nat
    /\ Blank \in [Slots -> Stops] /\ Blank \in [Slots -> Int] /\ Blank[Last] = 0
  <1>1. NumVehicles \in Nat /\ NumVehicles >= 1 /\ NumStops \in Nat /\ NumStops >= 1
    BY VehiclesAssumption, StopsAssumption
  <1>2. MaxInner \in Nat /\ Last \in Nat /\ Last \in Slots /\ Last + 1 = NumVehicles
    BY <1>1, LimitsAssumption, ArraysAssumption DEF Last, Slots
  <1>3. /\ ArraySize \in Nat /\ \A k \in Slots : k \in Nat /\ \A j \in 0 .. k : j \in Slots
        /\ \A s \in Stops : s \in 0 .. NumStops /\ s + 1 \in 0 .. NumStops
        /\ 0 \in Stops
    BY <1>1, ArraysAssumption DEF Slots, Stops
  <1>4. Pays \cup Garbage \subseteq Int /\ Turns \in Nat /\ MaxCalls \in Nat /\ AccuPay \in Nat
    BY LimitsAssumption, PaysAssumption
  <1> QED
    BY <1>1, <1>2, <1>3, <1>4 DEF Blank

\* The sums of the pays of the first stops, as they are summed up.
LEMMA Sums ==
    ASSUME NEW read \in [Stops -> Int]
    PROVE  /\ PaidBefore(read) \in [0 .. NumStops -> Int]
           /\ PaidBefore(read)[0] = 0
           /\ \A n \in Stops : PaidBefore(read)[n + 1] = PaidBefore(read)[n] + read[n]
  <1> DEFINE Add == [x \in Int \X (1 .. NumStops) |-> x[1] + read[x[2] - 1]]
             Paid(g) == g = [n \in 0 .. NumStops |-> IF n = 0 THEN 0 ELSE g[n - 1] + read[n - 1]]
  <1>1. \A n \in 1 .. NumStops : n - 1 \in Stops
    BY Constants DEF Stops
  <1>2. Add \in [Int \X (1 .. NumStops) -> Int]
    BY <1>1
  <1>3. PICK g \in [0 .. NumStops -> Int] :
            g[0] = 0 /\ \A n \in 1 .. NumStops : g[n] = Add[<<g[n - 1], n>>]
    <2>1. NumStops \in Nat /\ 0 \in Int
      BY Constants
    <2> HIDE DEF Add
    <2>2. \E g : Follows(g, NumStops, Int, 0, Add)
      BY <1>2, <2>1, DefinedFromBefore, Zenon
    <2> QED
      BY <2>2 DEF Follows
  <1>4. Paid(g)
    <2>1. ASSUME NEW n \in 0 .. NumStops
          PROVE  g[n] = IF n = 0 THEN 0 ELSE g[n - 1] + read[n - 1]
      <3>1. CASE n = 0
        BY <3>1, <1>3
      <3>2. CASE n # 0
        <4>1. n \in 1 .. NumStops /\ n - 1 \in 0 .. NumStops
          BY <3>2, Constants
        <4>2. <<g[n - 1], n>> \in Int \X (1 .. NumStops)
          BY <4>1
        <4> QED
          BY <3>2, <4>1, <4>2, <1>3
      <3> QED
        BY <3>1, <3>2
    <2> QED
      BY <2>1
  <1>5. PaidBefore(read) = CHOOSE h : Paid(h)
    BY DEF PaidBefore
  <1>6. Paid(PaidBefore(read))
    <2> HIDE DEF Paid
    <2> QED
      BY <1>4, <1>5
  <1> DEFINE p == PaidBefore(read)
  <1>7. DOMAIN p = 0 .. NumStops /\ p[0] = 0
        /\ \A n \in 0 .. NumStops : n # 0 => p[n] = p[n - 1] + read[n - 1]
    <2>1. p = [n \in 0 .. NumStops |-> IF n = 0 THEN 0 ELSE p[n - 1] + read[n - 1]]
      BY <1>6
    <2>2. 0 \in 0 .. NumStops
      BY Constants
    <2> HIDE DEF p
    <2> QED
      BY <2>1, <2>2
  <1>8. \A n \in 0 .. NumStops : p[n] = g[n]
    <2> DEFINE Same == {n \in 0 .. NumStops : p[n] = g[n]}
    <2>1. NumStops \in Nat
      BY Constants
    <2>2. 0 \in Same
      BY <1>7, <1>4, <2>1
    <2>3. ASSUME NEW n \in 1 .. NumStops, n - 1 \in Same PROVE n \in Same
      <3>1. n \in 0 .. NumStops /\ n # 0
        BY <2>1
      <3>2. p[n - 1] = g[n - 1]
        BY <2>3
      <3>3. p[n] = g[n]
        BY <3>1, <3>2, <1>4, <1>7
      <3> QED
        BY <3>1, <3>3
    <2> HIDE DEF Same
    <2>4. 0 .. NumStops \subseteq Same
      BY <2>1, <2>2, <2>3, Upwards
    <2> QED
      BY <2>4 DEF Same
  <1> HIDE DEF p
  <1>9. p \in [0 .. NumStops -> Int]
    <2>1. p = [n \in 0 .. NumStops |-> p[n]]
      BY <1>6, <1>7 DEF p
    <2> QED
      BY <2>1, <1>3, <1>8
  <1>10. ASSUME NEW n \in Stops PROVE p[n + 1] = p[n] + read[n]
    <2>1. n + 1 \in 0 .. NumStops /\ n + 1 # 0 /\ (n + 1) - 1 = n
      BY Constants DEF Stops
    <2>2. p[n + 1] = p[(n + 1) - 1] + read[(n + 1) - 1]
      BY <1>7, <2>1
    <2> QED
      BY <2>1, <2>2
  <1> QED
    BY <1>7, <1>9, <1>10 DEF p

LEMMA AverageIsInt ==
    ASSUME orderPay \in [Stops -> Pays]
    PROVE  Average \in Int
  <1>1. orderPay \in [Stops -> Int]
    BY Constants
  <1>2. PaidBefore(orderPay) \in [0 .. NumStops -> Int]
    BY <1>1, Sums
  <1>3. PaidBefore(orderPay)[NumStops] \in Int
    BY <1>2, Constants
  <1> QED
    BY <1>3, Constants DEF Average

\* A pass begins with nothing closed.
LEMMA PassBegins ==
    ASSUME StartPass
    PROVE  /\ ClosedSections' /\ OpenSection'
           /\ stop' \in 0 .. NumStops /\ index' \in 0 .. stop' /\ inner' \in 0 .. MaxInner
           /\ tmp' \in Int
           /\ PayIndex' \in [Stops -> Int] => SectionsPaid'
  <1>1. stop' = 0 /\ tmp' = 0 /\ index' = 0 /\ inner' = 0
    BY DEF StartPass
  <1>2. ASSUME PayIndex' \in [Stops -> Int] PROVE SectionsPaid'
    <2>1. PaidBefore(PayIndex')[0] = 0
      BY <1>2, Sums
    <2>2. First(index)' = 0 /\ PaidBefore(PayIndex)' = PaidBefore(PayIndex')
      BY <1>1 DEF First, PaidBefore
    <2> QED
      BY <1>1, <2>1, <2>2 DEF SectionsPaid
  <1> QED
    BY <1>1, <1>2, Constants DEF ClosedSections, OpenSection, First

\* What is read has a sum for every stop.
LEMMA ReadsAreInts ==
    ASSUME SplitTypeOK
    PROVE  /\ PossibleReads \subseteq [Stops -> Pays \cup Garbage]
           /\ Len(reads) >= 1 => PayIndex \in [Stops -> Int]
  <1>1. PossibleReads \subseteq [Stops -> Pays \cup Garbage]
    BY DEF PossibleReads
  <1>2. ASSUME Len(reads) >= 1 PROVE PayIndex \in [Stops -> Int]
    <2>1. PayIndex \in [Stops -> Pays \cup Garbage]
      BY <1>2 DEF SplitTypeOK, PayIndex
    <2> QED
      BY <2>1, Constants
  <1> QED
    BY <1>1, <1>2

\* The turn ends: the loop goes round with the sections as they are now, or
\* the function calls itself.
LEMMA TurnEnds ==
    ASSUME SplitInv, spc = "pass", NextTurn, avg' \in Int,
           flg' \in [Slots -> Stops], pay' \in [Slots -> Int], pay'[Last] = 0
    PROVE  SplitInv'
  <1> USE Constants
  <1>1. Len(reads) >= 1 /\ reads' = reads /\ orderPay' = orderPay /\ SplitTypeOK
    BY DEF SplitInv, PassInv, NextTurn
  <1>2. LeftOver(1)' /\ LeftOver(2)'
    BY DEF LeftOver
  <1>3. CASE turn >= Turns
    <2>1. spc' = "read" /\ stop' = stop /\ tmp' = tmp /\ index' = index /\ inner' = inner
          /\ turn' = turn
      BY <1>3 DEF NextTurn, passVars
    <2>2. SplitTypeOK'
      BY <2>1, <1>1 DEF SplitTypeOK
    <2> QED
      BY <2>1, <2>2, <1>2 DEF SplitInv, PassInv, SectionsCoverStops, PaysAddUp
  <1>4. CASE ~(turn >= Turns)
    <2>1. spc' = "pass" /\ StartPass /\ turn' = turn + 1
      BY <1>4, <1>1 DEF NextTurn
    <2>2. /\ ClosedSections' /\ OpenSection' /\ tmp' \in Int
          /\ stop' \in 0 .. NumStops /\ index' \in 0 .. stop' /\ inner' \in 0 .. MaxInner
      BY <2>1, PassBegins
    <2>3. SectionsPaid'
      <3>1. PayIndex' = PayIndex /\ PayIndex \in [Stops -> Int]
        BY <1>1, ReadsAreInts DEF PayIndex
      <3> QED
        BY <3>1, <2>1, PassBegins
    <2>4. turn' \in 0 .. Turns
      BY <1>4, <2>1, <1>1 DEF SplitTypeOK
    <2>5. SplitTypeOK'
      BY <2>1, <2>2, <2>4, <1>1 DEF SplitTypeOK
    <2> QED
      BY <2>1, <2>2, <2>3, <2>5, <1>1, <1>2
      DEF SplitInv, PassInv, SectionsCoverStops, PaysAddUp
  <1> QED
    BY <1>3, <1>4

\* A section begins at a stop, or after the last.
LEMMA FirstIsAStop ==
    ASSUME SplitTypeOK, NEW k \in Slots
    PROVE  First(k) \in 0 .. NumStops
  <1>1. k \in Nat /\ (k # 0 => k - 1 \in Slots)
    BY Constants
  <1> QED
    BY <1>1, Constants DEF First, SplitTypeOK

\* One more stop goes into the open section.
LEMMA StopTaken ==
    ASSUME SplitInv, NextStop
    PROVE  SplitInv'
  <1> DEFINE sum == tmp + PayIndex[stop]
  <1>0. SplitTypeOK /\ Len(reads) >= 1 /\ spc = "pass" /\ stop < NumStops
        /\ (index \in Slots => ClosedSections /\ OpenSection /\ SectionsPaid)
        /\ (NotReached => LeftOver(2))
    BY DEF SplitInv, PassInv, NextStop
  <1>1. /\ flg' = Put(flg, stop) /\ pay' = Put(pay, sum)
        /\ stop' = stop + 1 /\ spc' = "pass" /\ reads' = reads /\ orderPay' = orderPay
        /\ avg' = avg /\ turn' = turn
    BY <1>0 DEF NextStop, StorePay
  <1>2. \/ inner < MaxInner /\ inner' = inner + 1 /\ index' = index /\ tmp' = sum
        \/ inner' = 0 /\ index' = index + 1 /\ tmp' = 0
    <2>1. CASE Closes(sum)
      BY <2>1 DEF NextStop, CloseSection
    <2>2. CASE ~Closes(sum)
      <3>1. inner' = inner + 1 /\ index' = index /\ tmp' = sum
        BY <2>2 DEF NextStop
      <3> QED
        BY <2>2, <3>1, <1>0, Constants DEF Closes, SplitTypeOK
    <2> QED
      BY <2>1, <2>2
  <1>3. /\ index \in 0 .. stop /\ stop \in Nat /\ index \in Nat /\ inner \in Nat
        /\ stop \in Stops /\ tmp \in Int /\ sum \in Int /\ PayIndex \in [Stops -> Int]
    <2>1. /\ index \in 0 .. stop /\ stop \in Nat /\ index \in Nat /\ inner \in Nat
          /\ stop \in Stops /\ tmp \in Int
      BY <1>0, Constants DEF SplitTypeOK, Stops
    <2>2. PayIndex \in [Stops -> Int]
      BY <1>0, ReadsAreInts
    <2> QED
      BY <2>1, <2>2
  <1>4. /\ index \in Slots => flg'[index] = stop /\ pay'[index] = sum
        /\ \A k \in Slots : k # index => flg'[k] = flg[k] /\ pay'[k] = pay[k]
    BY <1>1 DEF Put
  <1>5. SplitTypeOK'
    <2>1. flg' \in [Slots -> Stops] /\ pay' \in [Slots -> Int] /\ tmp' \in Int
      BY <1>0, <1>1, <1>2, <1>3 DEF SplitTypeOK, Put
    <2>2. stop' \in 0 .. NumStops /\ index' \in 0 .. stop' /\ inner' \in 0 .. MaxInner
      <3>1. stop' = stop + 1 /\ stop < NumStops /\ NumStops \in Nat /\ MaxInner \in Nat
        BY <1>0, <1>1, Constants
      <3>2. inner \in 0 .. MaxInner
        BY <1>0 DEF SplitTypeOK
      <3> QED
        BY <3>1, <3>2, <1>2, <1>3
    <2> QED
      BY <2>1, <2>2, <1>0, <1>1 DEF SplitTypeOK
  <1>6. NotReached' => LeftOver(2)'
    <2> SUFFICES ASSUME NotReached' PROVE LeftOver(2)'
      OBVIOUS
    <2>1. index < Last
      BY <1>2, <1>3, Constants DEF NotReached
    <2>2. LeftOver(2) /\ pay'[Last] = pay[Last] /\ flg'[Last] = flg[Last]
      BY <2>1, <1>0, <1>3, <1>4, Constants DEF NotReached
    <2> QED
      BY <2>2, <1>1 DEF LeftOver
  <1> SUFFICES ASSUME index' \in Slots
               PROVE  ClosedSections' /\ OpenSection' /\ SectionsPaid'
    BY <1>0, <1>1, <1>5, <1>6 DEF SplitInv, PassInv, SectionsCoverStops, PaysAddUp
  <1>7. /\ index \in Slots /\ \A k \in 0 .. index : k \in Slots
        /\ ClosedSections /\ OpenSection /\ SectionsPaid
        /\ flg'[index] = stop /\ pay'[index] = sum
    <2>1. index \in Slots /\ \A k \in 0 .. index : k \in Slots
      BY <1>2, <1>3, Constants
    <2> QED
      BY <2>1, <1>0, <1>4
  <1>8. \A k \in 0 .. index : First(k)' = First(k)
    <2> SUFFICES ASSUME NEW k \in 0 .. index PROVE First(k)' = First(k)
      OBVIOUS
    <2>1. k # 0 => k - 1 \in Slots /\ k - 1 # index
      BY <1>3, <1>7, Constants
    <2> QED
      BY <2>1, <1>4 DEF First
  <1>9. First(index) = stop - inner /\ First(index) \in 0 .. NumStops
    <2>1. First(index) \in 0 .. NumStops
      BY <1>0, <1>7, FirstIsAStop
    <2> QED
      BY <2>1, <1>3, <1>7 DEF OpenSection
  <1>10. ClosedSections'
    <2> SUFFICES ASSUME NEW k \in 0 .. index' - 1
                 PROVE  /\ flg'[k] \in 0 .. stop' - 1
                        /\ First(k)' <= flg'[k] /\ flg'[k] < First(k)' + MaxInner + 1
      BY DEF ClosedSections
    <2>1. k \in 0 .. index
      BY <1>2, <1>3
    <2>2. CASE k = index
      <3>1. First(k)' = stop - inner /\ flg'[k] = stop
        BY <2>2, <1>3, <1>7, <1>8, <1>9
      <3> QED
        BY <3>1, <1>0, <1>1, <1>3, Constants DEF SplitTypeOK
    <2>3. CASE k # index
      <3>1. k \in 0 .. index - 1 /\ k \in Slots
        BY <2>1, <2>3, <1>3, <1>7
      <3>2. flg'[k] = flg[k] /\ First(k)' = First(k)
        BY <3>1, <2>1, <2>3, <1>4, <1>8
      <3> QED
        BY <3>1, <3>2, <1>1, <1>3, <1>7 DEF ClosedSections
    <2> QED
      BY <2>2, <2>3
  <1>11. OpenSection'
    <2>1. CASE inner' = inner + 1 /\ index' = index
      <3>1. First(index)' = stop - inner
        BY <2>1, <1>3, <1>8, <1>9 DEF First
      <3> QED
        BY <3>1, <2>1, <1>1, <1>3, <1>7 DEF OpenSection
    <2>2. CASE inner' = 0 /\ index' = index + 1
      <3>1. First(index)' = stop + 1
        BY <2>2, <1>3, <1>7 DEF First
      <3> QED
        BY <3>1, <2>2, <1>1, <1>3 DEF OpenSection
    <2> QED
      BY <1>2, <2>1, <2>2
  <1>12. SectionsPaid'
    <2> DEFINE paid == PaidBefore(PayIndex)
    <2>1. /\ PaidBefore(PayIndex)' = paid
          /\ \A n \in 0 .. NumStops : paid[n] \in Int
          /\ paid[stop + 1] = paid[stop] + PayIndex[stop]
      <3>1. PaidBefore(PayIndex)' = paid
        BY <1>1 DEF PaidBefore, PayIndex
      <3> QED
        BY <3>1, <1>3, Sums
    <2>2. tmp = paid[stop] - paid[First(index)]
      BY <1>7 DEF SectionsPaid
    <2>3. stop \in 0 .. NumStops /\ stop + 1 \in 0 .. NumStops
      BY <1>3, Constants
    <2>4. PayIndex[stop] \in Int
      BY <1>3
    <2> HIDE DEF paid
    <2>5. sum = paid[stop + 1] - paid[First(index)]
      BY <2>1, <2>2, <2>3, <2>4, <1>9
    <2>6. tmp' = paid[stop'] - PaidBefore(PayIndex)'[First(index)']
      <3>1. CASE inner' = inner + 1 /\ index' = index /\ tmp' = sum
        <4>1. First(index') = First(index)' /\ First(index)' = First(index)
          BY <3>1, <1>8, <1>3 DEF First
        <4> QED
          BY <3>1, <4>1, <2>5, <2>1, <1>1
      <3>2. CASE inner' = 0 /\ index' = index + 1 /\ tmp' = 0
        <4>1. First(index)' = stop'
          BY <3>2, <1>1, <1>3, <1>7 DEF First
        <4> QED
          BY <4>1, <3>2, <2>1, <2>3, <1>1
      <3> QED
        BY <3>1, <3>2, <1>2
    <2>7. ASSUME NEW k \in 0 .. index' - 1 PROVE pay'[k] = PayOfSection(k)'
      <3>1. PayOfSection(k)' = paid[flg'[k] + 1] - paid[First(k)']
        BY <2>1 DEF PayOfSection
      <3>2. CASE k = index
        <4>1. First(k)' = First(index) /\ flg'[k] = stop /\ pay'[k] = sum
          BY <3>2, <1>3, <1>7, <1>8
        <4> QED
          BY <4>1, <3>1, <2>5
      <3>3. CASE k # index
        <4>1. k \in 0 .. index - 1 /\ k \in Slots /\ k \in 0 .. index
          <5>1. k \in 0 .. index
            BY <1>2, <1>3
          <5>2. k \in Slots
            BY <5>1, <1>7
          <5> QED
            BY <5>1, <5>2, <3>3, <1>3
        <4>2. First(k)' = First(k) /\ flg'[k] = flg[k] /\ pay'[k] = pay[k]
          BY <4>1, <3>3, <1>4, <1>8
        <4>3. pay[k] = PayOfSection(k) /\ PayOfSection(k) = paid[flg[k] + 1] - paid[First(k)]
          BY <4>1, <1>7 DEF SectionsPaid, PayOfSection, paid
        <4> QED
          BY <4>2, <4>3, <3>1
      <3> QED
        BY <3>2, <3>3
    <2>8. inner' > 0 => pay'[index'] = tmp'
      BY <1>2, <1>7
    <2> QED
      BY <2>1, <2>6, <2>7, <2>8 DEF SectionsPaid
  <1> QED
    BY <1>10, <1>11, <1>12

\* The pass has found as many sections as there are vehicles.
LEMMA PassFits ==
    ASSUME SplitInv, SectionsFit
    PROVE  SplitInv'
  <1> USE Constants
  <1>0. SplitTypeOK /\ ClosedSections /\ OpenSection /\ SectionsPaid /\ Len(reads) >= 1
        /\ (NotReached => LeftOver(2)) /\ spc = "pass" /\ stop = NumStops
        /\ index = Last /\ pay[Last] # 0
    <2>1. index = Last /\ index \in Slots
      BY DEF SectionsFit, Last
    <2> QED
      BY <2>1 DEF SplitInv, PassInv, SectionsFit, PassEnded, LastSectionPaid, Last
  <1>1. /\ flg' = flg /\ pay' = pay /\ reads' = reads /\ orderPay' = orderPay
        /\ stop' = stop /\ tmp' = tmp /\ index' = index /\ inner' = inner
        /\ avg' = avg /\ turn' = turn /\ spc' \in {"found", "read"}
    BY DEF SectionsFit, passVars
  <1>2. SplitTypeOK'
    BY <1>0, <1>1 DEF SplitTypeOK
  <1>3. flg[Last] = NumStops - 1
    <2>1. CASE inner = 0
      BY <2>1, <1>0 DEF NotReached, LeftOver
    <2>2. CASE inner # 0
      BY <2>2, <1>0 DEF OpenSection, SplitTypeOK
    <2> QED
      BY <2>1, <2>2
  <1>4. LeftOver(1)'
    BY <1>0, <1>1, <1>3 DEF LeftOver
  <1>5. First(Last) \in Int /\ First(Last) = NumStops - inner /\ inner \in 0 .. MaxInner
    <2>1. First(Last) \in Int
      BY <1>0, FirstIsAStop
    <2> QED
      BY <2>1, <1>0 DEF OpenSection, SplitTypeOK
  <1>6. \A k \in Vehicles :
            /\ flg[k] < First(k) + MaxInner + 1
            /\ flg[k] < First(k) => k = Last /\ Len(reads) > 1
    <2> SUFFICES ASSUME NEW k \in Vehicles
                 PROVE  /\ flg[k] < First(k) + MaxInner + 1
                        /\ flg[k] < First(k) => k = Last /\ Len(reads) > 1
      OBVIOUS
    <2>1. CASE k = Last
      <3>1. flg[k] < First(k) + MaxInner + 1
        BY <2>1, <1>3, <1>5
      <3>2. ASSUME flg[k] < First(k) PROVE Len(reads) > 1
        <4>1. inner = 0
          BY <3>2, <2>1, <1>3, <1>5
        <4>2. Len(reads) >= 2
          BY <4>1, <1>0 DEF NotReached, LeftOver
        <4>3. Len(reads) \in Nat
          BY <1>0 DEF SplitTypeOK
        <4> QED
          BY <4>2, <4>3
      <3> QED
        BY <3>1, <3>2, <2>1
    <2>2. CASE k # Last
      <3>1. k \in 0 .. index - 1 /\ k \in Slots
        BY <2>2, <1>0, ArraysAssumption DEF Vehicles, Last, Slots
      <3>2. flg[k] \in Int /\ First(k) \in Int
        <4>1. First(k) \in 0 .. NumStops
          BY <3>1, <1>0, FirstIsAStop
        <4>2. flg[k] \in Stops
          BY <3>1, <1>0 DEF SplitTypeOK
        <4> QED
          BY <4>1, <4>2 DEF Stops
      <3>3. First(k) <= flg[k] /\ flg[k] < First(k) + MaxInner + 1
        BY <3>1, <1>0 DEF ClosedSections
      <3> QED
        BY <3>2, <3>3
    <2> QED
      BY <2>1, <2>2
  <1>7. SectionsCoverStops'
    <2>1. \A k \in Vehicles : First(k)' = First(k)
      BY <1>1 DEF First
    <2> QED
      BY <2>1, <1>1, <1>3, <1>6 DEF SectionsCoverStops, Last
  <1>8. PassInv'
    BY <1>1 DEF PassInv
  <1>9. PaysAddUp'
    <2> SUFFICES ASSUME NEW k \in Vehicles, Section(k) # {} PROVE pay[k] = PayOfSection(k)
      <3>1. \A k \in Vehicles : Section(k)' = Section(k) /\ PayOfSection(k)' = PayOfSection(k)
        BY <1>1 DEF Section, First, PayOfSection, PaidBefore, PayIndex
      <3> QED
        BY <3>1, <1>1 DEF PaysAddUp
    <2>1. CASE k = Last
      <3>1. inner > 0
        BY <2>1, <1>3, <1>5 DEF Section
      <3>2. flg[Last] + 1 = NumStops
        BY <1>3
      <3> QED
        BY <2>1, <3>1, <3>2, <1>0 DEF SectionsPaid, PayOfSection
    <2>2. CASE k # Last
      <3>1. k \in 0 .. index - 1
        BY <2>2, <1>0 DEF Vehicles, Last
      <3> QED
        BY <3>1, <1>0 DEF SectionsPaid
    <2> QED
      BY <2>1, <2>2
  <1> QED
    BY <1>2, <1>4, <1>7, <1>8, <1>9 DEF SplitInv

LEMMA SplitInvInit == SplitInit => SplitInv
  <1> SUFFICES ASSUME SplitInit PROVE SplitInv
    OBVIOUS
  <1>1. reads = <<>> /\ Len(reads) = 0 /\ reads \in Seq([Stops -> Pays \cup Garbage])
    BY DEF SplitInit
  <1>2. SplitTypeOK
    BY <1>1, Constants DEF SplitInit, SplitTypeOK
  <1> QED
    BY <1>2, Constants
    DEF SplitInit, SplitInv, PassInv, LeftOver, SectionsCoverStops, PaysAddUp

LEMMA SplitInvStep == SplitInv /\ [SplitNext]_splitVars => SplitInv'
  <1> SUFFICES ASSUME SplitInv, [SplitNext]_splitVars PROVE SplitInv'
    OBVIOUS
  <1> USE Constants
  <1>1. CASE ReadPays
    <2>1. /\ spc' = "pass" /\ StartPass /\ flg' = flg /\ pay' = pay /\ orderPay' = orderPay
          /\ spc = "read" /\ SplitTypeOK /\ Len(reads) < MaxCalls /\ avg' = Average /\ turn' = 0
      BY <1>1 DEF ReadPays, StartAverage, SplitInv
    <2>2. PICK read \in PossibleReads : reads' = Append(reads, read)
      BY <1>1 DEF ReadPays
    <2>3. /\ reads \in Seq([Stops -> Pays \cup Garbage]) /\ read \in [Stops -> Pays \cup Garbage]
          /\ avg' \in Int
      BY <2>1, ReadsAreInts, AverageIsInt DEF SplitTypeOK
    <2>4. /\ reads' \in Seq([Stops -> Pays \cup Garbage])
          /\ Len(reads) \in Nat /\ Len(reads') = Len(reads) + 1 /\ PayIndex' = read
      <3>1. /\ reads' \in Seq([Stops -> Pays \cup Garbage])
            /\ Len(reads) \in Nat /\ Len(reads') = Len(reads) + 1
            /\ reads'[Len(reads) + 1] = read
        BY <2>2, <2>3
      <3> QED
        BY <3>1 DEF PayIndex
    <2>5. /\ ClosedSections' /\ OpenSection' /\ tmp' \in Int
          /\ stop' \in 0 .. NumStops /\ index' \in 0 .. stop' /\ inner' \in 0 .. MaxInner
      BY <2>1, PassBegins
    <2>6. SectionsPaid'
      <3>1. read \in [Stops -> Int]
        BY <2>3
      <3> QED
        BY <3>1, <2>1, <2>4, PassBegins
    <2>7. SplitTypeOK'
      <3>1. Len(reads') <= MaxCalls /\ turn' \in 0 .. Turns
        BY <2>1, <2>4, Constants
      <3> QED
        BY <2>1, <2>3, <2>4, <2>5, <3>1 DEF SplitTypeOK
    <2>8. LeftOver(2)'
      BY <2>1, <2>4 DEF SplitInv, LeftOver
    <2> QED
      BY <2>1, <2>4, <2>5, <2>6, <2>7, <2>8
      DEF SplitInv, PassInv, SectionsCoverStops, PaysAddUp
  <1>2. CASE ReadFails \/ ReadCrashes \/ ArraysOverrun
    <2>1. SplitTypeOK'
      BY <1>2 DEF ReadFails, ReadCrashes, ArraysOverrun, passVars, SplitInv, SplitTypeOK
    <2> QED
      BY <1>2, <2>1 DEF ReadFails, ReadCrashes, ArraysOverrun, SplitInv, PassInv, SectionsCoverStops, PaysAddUp
  <1>3. CASE NextStop
    BY <1>3, StopTaken
  <1>4. CASE TooManySections \/ TooFewSections
    <2>1. /\ spc = "pass" /\ NextTurn /\ flg' = Blank /\ pay' = Blank
          /\ avg' = avg + AccuPay \/ avg' = avg - AccuPay
      BY <1>4 DEF TooManySections, TooFewSections, PassEnded, ClearSections
    <2>2. avg' \in Int
      <3>1. avg \in Int
        BY DEF SplitInv, SplitTypeOK
      <3> QED
        BY <2>1, <3>1
    <2> QED
      BY <2>1, <2>2, TurnEnds
  <1>5. CASE LastSectionEmpty
    <2>1. spc = "pass" /\ NextTurn /\ flg' = flg /\ pay' = pay /\ pay[Last] = 0
          /\ avg' = avg - AccuPay
      BY <1>5 DEF LastSectionEmpty, PassEnded, Last
    <2>2. avg' \in Int /\ flg' \in [Slots -> Stops] /\ pay' \in [Slots -> Int]
      <3>1. avg \in Int /\ flg \in [Slots -> Stops] /\ pay \in [Slots -> Int]
        BY DEF SplitInv, SplitTypeOK
      <3> QED
        BY <2>1, <3>1
    <2> QED
      BY <2>1, <2>2, TurnEnds
  <1>6. CASE SectionsFit
    BY <1>6, PassFits
  <1>7. CASE UNCHANGED splitVars
    <2>1. ClosedSections' = ClosedSections /\ OpenSection' = OpenSection
      BY <1>7 DEF splitVars, passVars, ClosedSections, OpenSection, First
    <2>2. SplitTypeOK' = SplitTypeOK
      BY <1>7 DEF splitVars, passVars, SplitTypeOK
    <2>3. SectionsCoverStops' = SectionsCoverStops
      BY <1>7 DEF splitVars, passVars, SectionsCoverStops, First
    <2>4. SectionsPaid' = SectionsPaid /\ PaysAddUp' = PaysAddUp
      BY <1>7
      DEF splitVars, passVars, SectionsPaid, PaysAddUp, PayOfSection, PaidBefore, PayIndex,
          Section, First
    <2> QED
      BY <1>7, <2>1, <2>2, <2>3, <2>4
      DEF splitVars, passVars, SplitInv, PassInv, NotReached, LeftOver
  <1> QED
    BY <1>1, <1>2, <1>3, <1>4, <1>5, <1>6, <1>7 DEF SplitNext

LEMMA SplitIsInv == SplitSpec => []SplitInv
  BY SplitInvInit, SplitInvStep, PTL DEF SplitSpec

(***************************************************************************)
(* Step05 ends with sections that cover all stops in order and are not     *)
(* longer than allowed; only the last can be empty, and only after the     *)
(* function has called itself.                                             *)
(***************************************************************************)
THEOREM SplitCovers == SplitSpec => []SectionsCoverStops
  <1>1. SplitInv => SectionsCoverStops
    BY DEF SplitInv
  <1> QED
    BY <1>1, SplitIsInv, PTL

(***************************************************************************)
(* The pay of every section is the sum of what was read for its stops,     *)
(* although the arrays keep what turns and calls before left in them.      *)
(***************************************************************************)
THEOREM SplitPays == SplitSpec => []PaysAddUp
  <1>1. SplitInv => PaysAddUp
    BY DEF SplitInv
  <1> QED
    BY <1>1, SplitIsInv, PTL

-----------------------------------------------------------------------------
(***************************************************************************)
(* A call is determined by what it read and by the average it starts       *)
(* with.  Sums is what a pass has come to, BeforeStop(read, a)[n] before   *)
(* stop n is taken, and Trial(read, a)[t] the average of turn t: all this  *)
(* while no section is left over.                                          *)
(***************************************************************************)
Open == [tmp : Int, index : Int, inner : Int]
NothingOpen == [tmp |-> 0, index |-> 0, inner |-> 0]

Taken(read, a, open, s) ==
    IF open.inner >= MaxInner \/ open.tmp + read[s] > a
    THEN [tmp |-> 0, index |-> open.index + 1, inner |-> 0]
    ELSE [tmp |-> open.tmp + read[s], index |-> open.index, inner |-> open.inner + 1]

TakeNext(read, a) == [x \in Open \X (1 .. NumStops) |-> Taken(read, a, x[1], x[2] - 1)]
BeforeStop(read, a) == CHOOSE f : Follows(f, NumStops, Open, NothingOpen, TakeNext(read, a))
AtEnd(read, a) == BeforeStop(read, a)[NumStops]

Fits(read, a) == /\ AtEnd(read, a).index = Last
                 /\ AtEnd(read, a).inner > 0 /\ AtEnd(read, a).tmp # 0
MovedAverage(read, a) == IF AtEnd(read, a).index > Last THEN a + AccuPay ELSE a - AccuPay
Move(read) == [x \in Int \X (1 .. Turns) |-> MovedAverage(read, x[1])]
Trial(read, a) == CHOOSE f : Follows(f, Turns, Int, a, Move(read))

\* A pass takes one stop after the other.
LEMMA PassIsDetermined ==
    ASSUME NEW read \in [Stops -> Int], NEW a \in Int
    PROVE  /\ BeforeStop(read, a) \in [0 .. NumStops -> Open]
           /\ BeforeStop(read, a)[0] = NothingOpen
           /\ \A s \in Stops :
                  BeforeStop(read, a)[s + 1] = Taken(read, a, BeforeStop(read, a)[s], s)
  <1> DEFINE B == BeforeStop(read, a)
             T == TakeNext(read, a)
  <1>1. NumStops \in Nat /\ NothingOpen \in Open
    BY Constants DEF NothingOpen, Open
  <1>2. T \in [Open \X (1 .. NumStops) -> Open]
    <2> SUFFICES ASSUME NEW x \in Open \X (1 .. NumStops)
                 PROVE  Taken(read, a, x[1], x[2] - 1) \in Open
      BY DEF TakeNext
    <2>1. x[1] \in Open /\ x[2] - 1 \in Stops
      BY <1>1 DEF Stops
    <2>2. read[x[2] - 1] \in Int
      BY <2>1
    <2> QED
      BY <2>1, <2>2, Constants DEF Taken, Open
  <1>3. \E f : Follows(f, NumStops, Open, NothingOpen, T)
    <2> HIDE DEF T
    <2> QED
      BY <1>1, <1>2, DefinedFromBefore, Zenon
  <1>4. Follows(B, NumStops, Open, NothingOpen, T)
    BY <1>3, Zenon DEF BeforeStop
  <1>5. /\ B \in [0 .. NumStops -> Open] /\ B[0] = NothingOpen
        /\ \A n \in 1 .. NumStops : B[n] = T[<<B[n - 1], n>>]
    <2> HIDE DEF B, T
    <2> QED
      BY <1>4 DEF Follows
  <1>6. ASSUME NEW s \in Stops PROVE B[s + 1] = Taken(read, a, B[s], s)
    <2>1. s + 1 \in 1 .. NumStops /\ (s + 1) - 1 = s /\ s \in 0 .. NumStops
      BY <1>1 DEF Stops
    <2>2. B[s + 1] = T[<<B[s], s + 1>>]
      BY <1>5, <2>1
    <2>3. <<B[s], s + 1>> \in Open \X (1 .. NumStops)
      BY <1>5, <2>1
    <2>4. T[<<B[s], s + 1>>] = Taken(read, a, B[s], (s + 1) - 1)
      BY <2>3 DEF TakeNext
    <2> QED
      BY <2>1, <2>2, <2>4
  <1> QED
    BY <1>5, <1>6

\* The average is moved from turn to turn.
LEMMA TrialIsDetermined ==
    ASSUME NEW read \in [Stops -> Int], NEW a \in Int
    PROVE  /\ Trial(read, a) \in [0 .. Turns -> Int]
           /\ Trial(read, a)[0] = a
           /\ \A t \in 0 .. Turns - 1 :
                  Trial(read, a)[t + 1] = MovedAverage(read, Trial(read, a)[t])
  <1> DEFINE A == Trial(read, a)
             M == Move(read)
  <1>1. Turns \in Nat /\ AccuPay \in Nat
    BY Constants
  <1>2. M \in [Int \X (1 .. Turns) -> Int]
    BY <1>1 DEF Move, MovedAverage
  <1>3. \E f : Follows(f, Turns, Int, a, M)
    <2> HIDE DEF M
    <2> QED
      BY <1>1, <1>2, DefinedFromBefore, Zenon
  <1>4. Follows(A, Turns, Int, a, M)
    BY <1>3, Zenon DEF Trial
  <1>5. /\ A \in [0 .. Turns -> Int] /\ A[0] = a
        /\ \A t \in 1 .. Turns : A[t] = M[<<A[t - 1], t>>]
    <2> HIDE DEF A, M
    <2> QED
      BY <1>4 DEF Follows
  <1>6. ASSUME NEW t \in 0 .. Turns - 1 PROVE A[t + 1] = MovedAverage(read, A[t])
    <2>1. t + 1 \in 1 .. Turns /\ (t + 1) - 1 = t /\ t \in 0 .. Turns
      BY <1>1
    <2>2. A[t + 1] = M[<<A[t], t + 1>>]
      BY <1>5, <2>1
    <2>3. <<A[t], t + 1>> \in Int \X (1 .. Turns)
      BY <1>5, <2>1
    <2> QED
      BY <2>2, <2>3 DEF Move
  <1> QED
    BY <1>5, <1>6

SameReads == \A call \in DOMAIN reads : reads[call] = reads[1]
AvgAt(t) == Trial(PayIndex, Average)[t]

\* Calls that have read the same go through the same turns, in vain.
Retraced ==
    /\ spc = "pass" =>
        /\ [tmp |-> tmp, index |-> index, inner |-> inner] = BeforeStop(PayIndex, avg)[stop]
        /\ SameReads =>
            /\ avg = AvgAt(turn)
            /\ \A t \in 0 .. turn - 1 : ~ Fits(PayIndex, AvgAt(t))
            /\ Len(reads) > 1 => \A t \in 0 .. Turns - 1 : ~ Fits(PayIndex, AvgAt(t))
    /\ spc = "read" /\ Len(reads) >= 1 /\ SameReads =>
        \A t \in 0 .. Turns - 1 : ~ Fits(PayIndex, AvgAt(t))

\* What Retraced speaks of, except where the pass is.
LEMMA SameCall ==
    ASSUME reads' = reads, orderPay' = orderPay
    PROVE  /\ PayIndex' = PayIndex /\ SameReads' = SameReads /\ Average' = Average
           /\ \A t \in Nat : AvgAt(t)' = AvgAt(t)
           /\ \A t \in Nat : Fits(PayIndex, AvgAt(t))' = Fits(PayIndex, AvgAt(t))
  <1>1. PayIndex' = PayIndex /\ SameReads' = SameReads /\ Average' = Average
    BY DEF PayIndex, SameReads, Average, PaidBefore
  <1>2. \A t \in Nat : AvgAt(t)' = AvgAt(t)
    BY <1>1 DEF AvgAt, Trial, Move, MovedAverage, AtEnd, BeforeStop, TakeNext, Taken, Last
  <1>3. \A t \in Nat : Fits(PayIndex, AvgAt(t))' = Fits(PayIndex, AvgAt(t))
    BY <1>1, <1>2 DEF Fits, AtEnd, BeforeStop, TakeNext, Taken, Last
  <1> QED
    BY <1>1, <1>2, <1>3

\* A turn that moves the average did not fit, and moved it as any call would.
LEMMA TurnInVain ==
    ASSUME SplitInv, Retraced, PassEnded, NextTurn, RecallNeedsOtherReads,
           \/ index > Last /\ avg' = avg + AccuPay
           \/ index < Last /\ avg' = avg - AccuPay
           \/ index = Last /\ pay[index] = 0 /\ avg' = avg - AccuPay
    PROVE  Retraced' /\ RecallNeedsOtherReads'
  <1>c. Turns \in Nat /\ Last \in Nat /\ AccuPay \in Nat
    BY Constants
  <1>0. /\ spc = "pass" /\ stop = NumStops /\ SplitTypeOK /\ Len(reads) >= 1
        /\ index = Last => SectionsPaid
        /\ reads' = reads /\ orderPay' = orderPay
    BY Constants DEF SplitInv, PassInv, PassEnded, NextTurn
  <1>1. /\ PayIndex \in [Stops -> Int] /\ avg \in Int /\ Average \in Int
        /\ avg' \in Int /\ turn \in 0 .. Turns /\ index \in Nat /\ inner \in Nat /\ Len(reads) \in Nat
    <2>1. /\ avg \in Int /\ turn \in 0 .. Turns /\ index \in Nat /\ inner \in Nat
          /\ Len(reads) \in Nat /\ orderPay \in [Stops -> Pays]
      BY <1>0 DEF SplitTypeOK
    <2>2. avg' \in Int
      BY <2>1, <1>c
    <2>3. PayIndex \in [Stops -> Int]
      BY <1>0, ReadsAreInts
    <2>4. Average \in Int
      BY <2>1, AverageIsInt
    <2> QED
      BY <2>1, <2>2, <2>3, <2>4
  <1>2. ~ Fits(PayIndex, avg) /\ avg' = MovedAverage(PayIndex, avg)
    <2>1. /\ AtEnd(PayIndex, avg).index = index /\ AtEnd(PayIndex, avg).inner = inner
          /\ AtEnd(PayIndex, avg).tmp = tmp
      BY <1>0 DEF Retraced, AtEnd
    <2>2. ASSUME inner > 0, tmp # 0, index = Last PROVE FALSE
      BY <2>2, <1>0, <1>1, <1>c DEF SectionsPaid
    <2> QED
      BY <2>1, <2>2, <1>1, <1>c DEF Fits, MovedAverage
  <1>3. ASSUME SameReads
        PROVE  /\ \A t \in 0 .. turn : ~ Fits(PayIndex, AvgAt(t))
               /\ turn < Turns => avg' = AvgAt(turn + 1)
               /\ Len(reads) > 1 => \A t \in 0 .. Turns - 1 : ~ Fits(PayIndex, AvgAt(t))
    <2>1. /\ avg = AvgAt(turn) /\ \A t \in 0 .. turn - 1 : ~ Fits(PayIndex, AvgAt(t))
          /\ Len(reads) > 1 => \A t \in 0 .. Turns - 1 : ~ Fits(PayIndex, AvgAt(t))
      BY <1>0, <1>3 DEF Retraced
    <2>2. ASSUME NEW t \in 0 .. turn PROVE ~ Fits(PayIndex, AvgAt(t))
      <3>1. t = turn \/ t \in 0 .. turn - 1
        BY <1>1
      <3> QED
        BY <3>1, <2>1, <1>2
    <2>3. ASSUME turn < Turns PROVE avg' = AvgAt(turn + 1)
      <3>1. turn \in 0 .. Turns - 1
        BY <2>3, <1>1, <1>c
      <3> QED
        BY <3>1, <2>1, <1>1, <1>2, TrialIsDetermined DEF AvgAt
    <2> QED
      BY <2>1, <2>2, <2>3
  <1>4. CASE turn >= Turns
    <2>1. spc' = "read"
      BY <1>4 DEF NextTurn
    <2>2. ASSUME SameReads', NEW t \in 0 .. Turns - 1 PROVE ~ Fits(PayIndex, AvgAt(t))'
      <3>1. SameReads
        BY <2>2, <1>0, SameCall
      <3>2. t \in 0 .. turn /\ t \in Nat
        BY <1>1, <1>4, <1>c
      <3> QED
        BY <3>1, <3>2, <1>0, <1>3, SameCall
    <2> QED
      BY <2>1, <2>2 DEF Retraced, RecallNeedsOtherReads
  <1>5. CASE turn < Turns
    <2>1. spc' = "pass" /\ StartPass /\ turn' = turn + 1
      BY <1>0, <1>5, <1>1, <1>c DEF NextTurn
    <2>2. [tmp |-> tmp, index |-> index, inner |-> inner]' = BeforeStop(PayIndex, avg)'[stop']
      <3>1. BeforeStop(PayIndex, avg)' = BeforeStop(PayIndex, avg')
        BY <1>0, SameCall DEF BeforeStop, TakeNext, Taken
      <3>2. BeforeStop(PayIndex, avg')[0] = NothingOpen
        BY <1>1, PassIsDetermined
      <3> QED
        BY <3>1, <3>2, <2>1 DEF StartPass, NothingOpen
    <2>3. ASSUME SameReads'
          PROVE  /\ avg' = AvgAt(turn)'
                 /\ \A t \in 0 .. turn' - 1 : ~ Fits(PayIndex, AvgAt(t))'
                 /\ Len(reads') > 1 => \A t \in 0 .. Turns - 1 : ~ Fits(PayIndex, AvgAt(t))'
      <3>1. SameReads
        BY <2>3, <1>0, SameCall
      <3>2. avg' = AvgAt(turn + 1) /\ turn + 1 \in Nat
        BY <3>1, <1>1, <1>3, <1>5
      <3>3. AvgAt(turn)' = AvgAt(turn + 1)
        BY <2>1, <3>2, <1>0, SameCall DEF AvgAt
      <3>4. \A t \in 0 .. turn' - 1 : t \in Nat /\ t \in 0 .. turn
        BY <2>1, <1>1
      <3>5. \A t \in 0 .. Turns - 1 : t \in Nat
        OBVIOUS
      <3> QED
        BY <3>1, <3>2, <3>3, <3>4, <3>5, <1>0, <1>3, SameCall
    <2> QED
      BY <2>1, <2>2, <2>3 DEF Retraced, RecallNeedsOtherReads
  <1> QED
    BY <1>1, <1>4, <1>5, <1>c

\* One more stop is what the pass takes next.
LEMMA StopRetraced ==
    ASSUME SplitInv, SplitInv', Retraced, NextStop
    PROVE  Retraced'
  <1>1. /\ spc = "pass" /\ stop \in Stops /\ SplitTypeOK /\ Len(reads) >= 1
        /\ reads' = reads /\ orderPay' = orderPay /\ avg' = avg /\ turn' = turn
        /\ stop' = stop + 1 /\ spc' = "pass"
    <2>1. /\ spc = "pass" /\ stop < NumStops /\ stop \in 0 .. NumStops
          /\ SplitTypeOK /\ Len(reads) >= 1
      BY DEF NextStop, SplitInv, SplitTypeOK, PassInv
    <2>2. stop \in Stops
      BY <2>1, StopsAssumption DEF Stops
    <2> QED
      BY <2>1, <2>2 DEF NextStop
  <1>2. PayIndex \in [Stops -> Int] /\ avg \in Int /\ turn \in 0 .. Turns
    BY <1>1, ReadsAreInts DEF SplitTypeOK
  <1> DEFINE open == [tmp |-> tmp, index |-> index, inner |-> inner]
             sum == tmp + PayIndex[stop]
  <1>3. open' = Taken(PayIndex, avg, open, stop)
    <2>1. CASE Closes(sum)
      <3>1. tmp' = 0 /\ index' = index + 1 /\ inner' = 0
        BY <2>1 DEF NextStop, CloseSection
      <3> QED
        BY <2>1, <3>1 DEF Closes, Taken
    <2>2. CASE ~ Closes(sum)
      <3>1. tmp' = sum /\ index' = index /\ inner' = inner + 1
        BY <2>2 DEF NextStop
      <3> QED
        BY <2>2, <3>1 DEF Closes, Taken
    <2> QED
      BY <2>1, <2>2
  <1>4. open' = BeforeStop(PayIndex, avg)'[stop']
    <2>1. open = BeforeStop(PayIndex, avg)[stop]
      BY <1>1 DEF Retraced
    <2>2. BeforeStop(PayIndex, avg)[stop + 1]
            = Taken(PayIndex, avg, BeforeStop(PayIndex, avg)[stop], stop)
      BY <1>1, <1>2, PassIsDetermined
    <2>3. BeforeStop(PayIndex, avg)' = BeforeStop(PayIndex, avg)
      BY <1>1, SameCall DEF BeforeStop, TakeNext, Taken
    <2> HIDE DEF open
    <2> QED
      BY <2>1, <2>2, <2>3, <1>1, <1>3
  <1>5. ASSUME SameReads'
        PROVE  /\ avg' = AvgAt(turn)'
               /\ \A t \in 0 .. turn' - 1 : ~ Fits(PayIndex, AvgAt(t))'
               /\ Len(reads') > 1 => \A t \in 0 .. Turns - 1 : ~ Fits(PayIndex, AvgAt(t))'
    <2>1. SameReads
      BY <1>5, <1>1, SameCall
    <2>2. AvgAt(turn)' = AvgAt(turn)
      BY <1>1, <1>2, SameCall DEF AvgAt
    <2>3. \A t \in 0 .. turn - 1 : t \in Nat
      BY <1>2
    <2>4. \A t \in 0 .. Turns - 1 : t \in Nat
      OBVIOUS
    <2> QED
      BY <2>1, <2>2, <2>3, <2>4, <1>1, SameCall DEF Retraced
  <1> QED
    BY <1>1, <1>4, <1>5 DEF Retraced

\* The first turn of a call has the average every call starts with.
LEMMA CallRetraced ==
    ASSUME SplitInv, SplitInv', Retraced, ReadPays
    PROVE  Retraced'
  <1>1. /\ spc = "read" /\ spc' = "pass" /\ StartPass /\ orderPay' = orderPay /\ turn' = 0
        /\ avg' = Average /\ SplitTypeOK /\ SplitTypeOK' /\ Len(reads') >= 1
    BY DEF ReadPays, StartAverage, SplitInv, PassInv
  <1>2. PICK read \in PossibleReads : reads' = Append(reads, read)
    BY DEF ReadPays
  <1>3. /\ Average' = Average /\ Average \in Int
        /\ PayIndex' \in [Stops -> Int] /\ PayIndex' = read
    <2>1. Average' = Average
      BY <1>1 DEF Average, PaidBefore
    <2>2. Average \in Int
      BY <1>1, AverageIsInt DEF SplitTypeOK
    <2>3. read \in [Stops -> Pays \cup Garbage] /\ reads \in Seq([Stops -> Pays \cup Garbage])
      BY <1>1, ReadsAreInts DEF SplitTypeOK
    <2>4. PayIndex' = read
      <3>1. Len(reads') = Len(reads) + 1 /\ reads'[Len(reads) + 1] = read
        BY <2>3, <1>2
      <3> QED
        BY <3>1 DEF PayIndex
    <2>5. read \in [Stops -> Int]
      BY <2>3, Constants
    <2> QED
      BY <2>1, <2>2, <2>4, <2>5
  <1>4. [tmp |-> tmp, index |-> index, inner |-> inner]' = BeforeStop(PayIndex, avg)'[stop']
    <2>1. BeforeStop(PayIndex, avg)' = BeforeStop(PayIndex', avg')
      BY DEF BeforeStop, TakeNext, Taken
    <2>2. BeforeStop(PayIndex', avg')[0] = NothingOpen
      BY <1>1, <1>3, PassIsDetermined
    <2> QED
      BY <2>1, <2>2, <1>1 DEF StartPass, NothingOpen
  <1>5. avg' = AvgAt(turn)'
    <2>1. AvgAt(turn)' = Trial(PayIndex', Average)[0]
      BY <1>1, <1>3 DEF AvgAt, Trial, Move, MovedAverage, AtEnd, BeforeStop, TakeNext, Taken, Last
    <2> QED
      BY <2>1, <1>1, <1>3, TrialIsDetermined
  <1>6. ASSUME SameReads', Len(reads') > 1, NEW t \in 0 .. Turns - 1
        PROVE  ~ Fits(PayIndex, AvgAt(t))'
    <2>1. /\ reads \in Seq([Stops -> Pays \cup Garbage]) /\ Len(reads) \in Nat
          /\ Len(reads') = Len(reads) + 1 /\ DOMAIN reads = 1 .. Len(reads)
          /\ DOMAIN reads' = 1 .. Len(reads) + 1
          /\ \A c \in 1 .. Len(reads) : reads'[c] = reads[c]
          /\ reads'[Len(reads) + 1] = read
      BY <1>1, <1>2 DEF SplitTypeOK
    <2>2. Len(reads) >= 1 /\ 1 \in 1 .. Len(reads) /\ Len(reads) \in 1 .. Len(reads)
      BY <2>1, <1>6
    <2>3. \A c \in 1 .. Len(reads) + 1 : reads'[c] = reads'[1]
      BY <2>1, <1>6 DEF SameReads
    <2>4. \A c \in 1 .. Len(reads) : c \in 1 .. Len(reads) + 1
      BY <2>1
    <2>5. SameReads
      BY <2>1, <2>2, <2>3, <2>4 DEF SameReads
    <2>6. PayIndex' = PayIndex
      BY <2>1, <2>2, <2>3, <2>4, <1>3 DEF PayIndex
    <2>7. ~ Fits(PayIndex, AvgAt(t))
      BY <2>2, <2>5, <1>1 DEF Retraced
    <2>8. AvgAt(t)' = AvgAt(t)
      BY <2>6, <1>3
      DEF AvgAt, Trial, Move, MovedAverage, AtEnd, BeforeStop, TakeNext, Taken, Last
    <2> QED
      BY <2>6, <2>7, <2>8 DEF Fits, AtEnd, BeforeStop, TakeNext, Taken, Last
  <1>7. \A t \in 0 .. turn' - 1 : FALSE
    BY <1>1
  <1> QED
    BY <1>1, <1>4, <1>5, <1>6, <1>7 DEF Retraced

\* The pass has found the sections: in a later call only because of what was
\* left over, or in the last turn, in vain.
LEMMA FitsRetraced ==
    ASSUME SplitInv, Retraced, SectionsFit
    PROVE  Retraced' /\ RecallNeedsOtherReads'
  <1>1. /\ spc = "pass" /\ stop = NumStops /\ index = Last /\ pay[Last] # 0
        /\ SplitTypeOK /\ OpenSection /\ SectionsPaid /\ Len(reads) >= 1
        /\ (NotReached => LeftOver(2)) /\ turn \in 0 .. Turns /\ inner \in Nat
    <2>1. index = Last /\ index \in Slots
      BY Constants DEF SectionsFit, Last
    <2> QED
      BY <2>1 DEF SectionsFit, PassEnded, LastSectionPaid, Last, SplitInv, PassInv, SplitTypeOK
  <1>2. /\ reads' = reads /\ orderPay' = orderPay /\ flg' = flg /\ spc' \in {"found", "read"}
        /\ spc' = "found" => turn < Turns
    BY DEF SectionsFit, BeforeLastTurn
  <1>3. Turns \in Nat /\ Last \in Nat /\ NumStops \in Nat
    BY Constants
  <1>4. CASE spc' = "read"
    <2>1. turn = Turns
      BY <1>1, <1>3, <1>4 DEF SectionsFit, BeforeLastTurn
    <2>2. ASSUME SameReads', NEW t \in 0 .. Turns - 1 PROVE ~ Fits(PayIndex, AvgAt(t))'
      <3>1. SameReads
        BY <2>2, <1>2, SameCall
      <3>2. t \in 0 .. turn - 1 /\ t \in Nat
        BY <2>1
      <3> QED
        BY <3>1, <3>2, <1>1, <1>2, SameCall DEF Retraced
    <2> QED
      BY <1>4, <2>2 DEF Retraced, RecallNeedsOtherReads
  <1>5. CASE spc' = "found"
    <2>1. ASSUME Len(reads) > 1, SameReads PROVE Section(Last)' = {}
      <3>1. /\ avg = AvgAt(turn) /\ turn \in 0 .. Turns - 1
            /\ \A t \in 0 .. Turns - 1 : ~ Fits(PayIndex, AvgAt(t))
        BY <2>1, <1>1, <1>2, <1>3, <1>5 DEF Retraced
      <3>2. /\ AtEnd(PayIndex, avg).index = index /\ AtEnd(PayIndex, avg).inner = inner
            /\ AtEnd(PayIndex, avg).tmp = tmp
        BY <1>1 DEF Retraced, AtEnd
      <3>3. inner = 0
        <4>1. inner > 0 => tmp # 0
          BY <1>1 DEF SectionsPaid
        <4> QED
          BY <4>1, <3>1, <3>2, <1>1 DEF Fits
      <3>4. First(Last) \in Int
        BY <1>1, <1>3, FirstIsAStop, Constants
      <3>5. First(Last) = NumStops
        BY <3>3, <3>4, <1>1, <1>3 DEF OpenSection
      <3>6. flg[Last] = NumStops - 1
        BY <3>3, <1>1 DEF NotReached, LeftOver
      <3>7. Section(Last)' = First(Last) .. flg[Last]
        BY <1>2 DEF Section, First, Last
      <3> QED
        BY <3>5, <3>6, <3>7, <1>3
    <2>2. ASSUME ~ SameReads PROVE \E call \in DOMAIN reads : reads[call] # reads[1]
      BY <2>2 DEF SameReads
    <2> QED
      BY <2>1, <2>2, <1>2, <1>5 DEF Retraced, RecallNeedsOtherReads, Last
  <1> QED
    BY <1>2, <1>4, <1>5

RecallInv == SplitInv /\ Retraced /\ RecallNeedsOtherReads

LEMMA RecallInvStep == RecallInv /\ [SplitNext]_splitVars => RecallInv'
  <1> SUFFICES ASSUME RecallInv, [SplitNext]_splitVars PROVE Retraced' /\ RecallNeedsOtherReads'
    BY SplitInvStep DEF RecallInv
  <1>0. SplitInv /\ SplitInv' /\ Retraced /\ RecallNeedsOtherReads
    BY SplitInvStep DEF RecallInv
  <1>1. CASE ReadPays
    BY <1>0, <1>1, CallRetraced DEF ReadPays, RecallNeedsOtherReads
  <1>2. CASE ReadFails \/ ReadCrashes \/ ArraysOverrun
    BY <1>2 DEF ReadFails, ReadCrashes, ArraysOverrun, Retraced, RecallNeedsOtherReads
  <1>3. CASE NextStop
    BY <1>0, <1>3, StopRetraced DEF NextStop, RecallNeedsOtherReads
  <1>4. CASE TooManySections
    BY <1>0, <1>4, TurnInVain DEF TooManySections, PassEnded, Last
  <1>5. CASE TooFewSections
    BY <1>0, <1>5, TurnInVain DEF TooFewSections, PassEnded, Last
  <1>6. CASE LastSectionEmpty
    BY <1>0, <1>6, TurnInVain DEF LastSectionEmpty, PassEnded, Last
  <1>7. CASE SectionsFit
    BY <1>0, <1>7, FitsRetraced
  <1>8. CASE UNCHANGED splitVars
    <2>1. RecallNeedsOtherReads'
      BY <1>0, <1>8 DEF splitVars, passVars, RecallNeedsOtherReads, Section, First
    <2>2. Retraced'
      <3>1. /\ reads' = reads /\ orderPay' = orderPay /\ spc' = spc /\ avg' = avg /\ turn' = turn
            /\ stop' = stop /\ tmp' = tmp /\ index' = index /\ inner' = inner
        BY <1>8 DEF splitVars, passVars
      <3>2. turn \in Nat /\ \A t \in 0 .. turn - 1 : t \in Nat
        BY <1>0 DEF SplitInv, SplitTypeOK
      <3>3. \A t \in 0 .. Turns - 1 : t \in Nat
        OBVIOUS
      <3>4. BeforeStop(PayIndex, avg)' = BeforeStop(PayIndex, avg)
        BY <3>1, SameCall DEF BeforeStop, TakeNext, Taken
      <3>5. AvgAt(turn)' = AvgAt(turn)
        BY <3>1, <3>2, SameCall DEF AvgAt
      <3> HIDE <1>8
      <3>6. CASE spc = "pass"
        BY <3>1, <3>2, <3>3, <3>4, <3>5, <3>6, <1>0, SameCall DEF Retraced
      <3>7. CASE spc # "pass"
        BY <3>1, <3>3, <3>7, <1>0, SameCall DEF Retraced
      <3> QED
        BY <3>6, <3>7
    <2> QED
      BY <2>1, <2>2
  <1> QED
    BY <1>1, <1>2, <1>3, <1>4, <1>5, <1>6, <1>7, <1>8 DEF SplitNext

(***************************************************************************)
(* Step05 calls itself although nothing has changed: a later call that has *)
(* read the same can only end with a split that has a vehicle without      *)
(* stops.                                                                  *)
(***************************************************************************)
THEOREM RecallInVain == SplitSpec => []RecallNeedsOtherReads
  <1>1. SplitInit => RecallInv
    <2>1. SplitInit => SplitInv
      BY SplitInvInit
    <2>2. SplitInit => Retraced /\ RecallNeedsOtherReads
      BY DEF SplitInit, Retraced, RecallNeedsOtherReads
    <2> QED
      BY <2>1, <2>2 DEF RecallInv
  <1>2. RecallInv => RecallNeedsOtherReads
    BY DEF RecallInv
  <1> QED
    BY <1>1, <1>2, RecallInvStep, PTL DEF SplitSpec
=============================================================================
