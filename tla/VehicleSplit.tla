----------------------------- MODULE VehicleSplit -----------------------------
(***************************************************************************)
(* Step05, TSPView::OnCalcDeliveryData: the route found for all stops is   *)
(* cut into one section per vehicle.  A pass over the stops closes a       *)
(* section when its pay exceeds the average or it has MaxInner + 1 stops;  *)
(* while the number of sections is not the number of vehicles the average  *)
(* is moved and the pass repeated; after too many turns the function calls *)
(* itself, although nothing has changed.                                   *)
(*                                                                         *)
(* The pay of a stop is read from a result row that was freed before:      *)
(* where the next query is given its row at the same address that is the   *)
(* stop's own sum, else whatever is there, or nothing can be read and the  *)
(* process dies.  The sections are kept in arrays of a fixed size, and a   *)
(* section behind their end is written where nobody reads it, if the       *)
(* process survives that.  t_function has the call commented out.          *)
(* Definitions marked "Mutant" are no part of the model.                   *)
(***************************************************************************)
EXTENDS Integers, Sequences

CONSTANTS
    NumVehicles,    \* nVehicleNumber
    NumStops,       \* _bestChromosomeCopy.size(); stop 0 is the depot
    MaxInner,       \* 10: a section has at most MaxInner + 1 stops
    Turns,          \* 130: turns of the loop before the function calls itself
    AccuPay,        \* nAccuPay, 2000: by how much the average is moved
    Pays,           \* what SUM(ve_pay) of a stop can be
    Garbage,        \* what else a freed row can hold
    ArraySize,      \* 512: ints in each of the two arrays of sections
    MaxCalls        \* bound: depth of the recursion

Stops == 0 .. NumStops - 1
Vehicles == 0 .. NumVehicles - 1
Slots == 0 .. ArraySize - 1

ASSUME VehiclesAssumption == NumVehicles \in Nat \ {0}
ASSUME StopsAssumption == NumStops \in Nat \ {0}
ASSUME LimitsAssumption == MaxInner \in Nat \ {0} /\ Turns \in Nat /\ MaxCalls \in Nat
ASSUME ArraysAssumption == ArraySize \in Nat /\ NumVehicles <= ArraySize
ASSUME PaysAssumption == AccuPay \in Nat /\ Pays \subseteq Nat /\ Garbage \subseteq Int

VARIABLES
    spc,        \* where Step05 is
    orderPay,   \* paySum of each stop in the database
    reads,      \* nVehiclePayIndex as each call in turn has filled it
    avg,        \* nAvg
    flg,        \* nVehicleFlg: last stop of each section
    pay,        \* nVehiclePay: sum of each section
    stop,       \* i, the next stop of the pass
    tmp,        \* nTmp, the sum of the open section
    index,      \* nIndex, the open section
    inner,      \* nInnerIndex, stops in the open section
    turn        \* nLoopCnt

passVars == <<stop, tmp, index, inner>>
splitVars == <<spc, orderPay, reads, avg, flg, pay, passVars, turn>>

Blank == [k \in Slots |-> 0]

SplitInit ==
    /\ spc = "read"
    /\ orderPay \in [Stops -> Pays]
    /\ reads = <<>>
    /\ avg = 0 /\ flg = Blank /\ pay = Blank
    /\ stop = 0 /\ tmp = 0 /\ index = 0 /\ inner = 0 /\ turn = 0

-----------------------------------------------------------------------------
StartPass == stop' = 0 /\ tmp' = 0 /\ index' = 0 /\ inner' = 0

PayIndex == reads[Len(reads)]
PossibleReads == {read \in [Stops -> Pays \cup Garbage] :
                    \A s \in Stops : read[s] \in {orderPay[s]} \cup Garbage}

\* The sum of the pays of the first n stops, for each n.
PaidBefore(read) ==
    LET sum[n \in 0 .. NumStops] == IF n = 0 THEN 0 ELSE sum[n - 1] + read[n - 1]
    IN  sum

\* The average is taken over the stops' own sums, not over what was stored.
Average == ((PaidBefore(orderPay)[NumStops] \div NumVehicles) * 9) \div 10

\* Mutant: a call goes on with the average of the call before.
KeepAverage == avg' = IF reads = <<>> THEN Average ELSE avg
StartAverage == avg' = Average

ReadPays ==
    /\ spc = "read" /\ Len(reads) < MaxCalls
    /\ \E read \in PossibleReads : reads' = Append(reads, read)
    /\ StartAverage
    /\ turn' = 0
    /\ StartPass
    /\ spc' = "pass"
    /\ UNCHANGED <<orderPay, flg, pay>>

\* No connection or a failing query: 500 is returned, or ignored if it was
\* the function that called itself.  The sections stay as they are.
ReadFails ==
    /\ spc = "read"
    /\ spc' = "ended"
    /\ UNCHANGED <<orderPay, reads, avg, flg, pay, passVars, turn>>

\* The freed row is no longer there, or was given to something without a value.
ReadCrashes ==
    /\ spc = "read"
    /\ spc' = "dead"
    /\ UNCHANGED <<orderPay, reads, avg, flg, pay, passVars, turn>>

\* A write to an array at the open section; behind its end nothing is stored.
Put(array, value) == [k \in Slots |-> IF k = index THEN value ELSE array[k]]

\* Mutant: the stops of a section are counted from 1.
ClosesLate(sum) == inner > MaxInner \/ sum > avg
Closes(sum) == inner >= MaxInner \/ sum > avg

\* Mutant: the pay of the stop itself is left out.
StoreBefore(sum) == pay' = Put(pay, tmp)
StorePay(sum) == pay' = Put(pay, sum)

CloseSection == tmp' = 0 /\ index' = index + 1 /\ inner' = 0

NextStop ==
    /\ spc = "pass" /\ stop < NumStops
    /\ LET sum == tmp + PayIndex[stop]
       IN  /\ flg' = Put(flg, stop)
           /\ StorePay(sum)
           /\ IF Closes(sum)
              THEN CloseSection
              ELSE tmp' = sum /\ inner' = inner + 1 /\ UNCHANGED index
    /\ stop' = stop + 1
    /\ UNCHANGED <<spc, orderPay, reads, avg, turn>>

\* There are more sections than the arrays have room for.
ArraysOverrun ==
    /\ spc = "pass" /\ stop < NumStops
    /\ index \notin Slots
    /\ spc' = "dead"
    /\ UNCHANGED <<orderPay, reads, avg, flg, pay, passVars, turn>>

PassEnded == spc = "pass" /\ stop = NumStops
ClearSections == flg' = Blank /\ pay' = Blank

\* The end of a turn that did not find the sections.
NextTurn ==
    /\ IF turn >= Turns
       THEN spc' = "read" /\ UNCHANGED <<passVars, turn>>
       ELSE StartPass /\ turn' = turn + 1 /\ UNCHANGED spc
    /\ UNCHANGED <<orderPay, reads>>

TooManySections ==
    /\ PassEnded /\ index > NumVehicles - 1
    /\ avg' = avg + AccuPay
    /\ ClearSections
    /\ NextTurn

TooFewSections ==
    /\ PassEnded /\ index < NumVehicles - 1
    /\ avg' = avg - AccuPay
    /\ ClearSections
    /\ NextTurn

\* The last vehicle has nothing; the arrays are kept.
LastSectionEmpty ==
    /\ PassEnded /\ index = NumVehicles - 1
    /\ pay[index] = 0
    /\ avg' = avg - AccuPay
    /\ UNCHANGED <<flg, pay>>
    /\ NextTurn

\* The sections are accepted, except in the last turn: the test after the loop
\* looks only at the number of turns.
BeforeLastTurn == turn < Turns

\* Mutant: the pay of the last vehicle is not looked at.
AnyPay == TRUE
LastSectionPaid == pay[index] # 0

SectionsFit ==
    /\ PassEnded /\ index = NumVehicles - 1
    /\ LastSectionPaid
    /\ spc' = IF BeforeLastTurn THEN "found" ELSE "read"
    /\ UNCHANGED <<orderPay, reads, avg, flg, pay, passVars, turn>>

SplitNext ==
    \/ ReadPays \/ ReadFails \/ ReadCrashes \/ NextStop \/ ArraysOverrun
    \/ TooManySections \/ TooFewSections \/ LastSectionEmpty \/ SectionsFit

SplitSpec == SplitInit /\ [][SplitNext]_splitVars

-----------------------------------------------------------------------------
SplitTypeOK ==
    /\ spc \in {"read", "pass", "found", "ended", "dead"}
    /\ orderPay \in [Stops -> Pays]
    /\ reads \in Seq([Stops -> Pays \cup Garbage]) /\ Len(reads) <= MaxCalls
    /\ avg \in Int /\ tmp \in Int
    /\ flg \in [Slots -> Stops] /\ pay \in [Slots -> Int]
    /\ stop \in 0 .. NumStops /\ index \in 0 .. stop
    /\ inner \in 0 .. MaxInner /\ turn \in 0 .. Turns

First(k) == IF k = 0 THEN 0 ELSE flg[k - 1] + 1
Section(k) == First(k) .. flg[k]

(***************************************************************************)
(* The sections Step05 ends with cover the stops in order, none has more   *)
(* stops than a vehicle may carry, and only the last can be empty: when    *)
(* the function has called itself, a pay left over from the last turn of   *)
(* the call before may pass for that of the last vehicle.                  *)
(***************************************************************************)
SectionsCoverStops ==
    spc = "found" =>
        /\ flg[NumVehicles - 1] = NumStops - 1
        /\ \A k \in Vehicles :
            /\ flg[k] < First(k) + MaxInner + 1
            /\ flg[k] < First(k) => k = NumVehicles - 1 /\ Len(reads) > 1

(***************************************************************************)
(* The pay of a section is the sum of the pays that were read for its      *)
(* stops, whatever was in the arrays before.                               *)
(***************************************************************************)
PayOfSection(k) == PaidBefore(PayIndex)[flg[k] + 1] - PaidBefore(PayIndex)[First(k)]

PaysAddUp ==
    spc = "found" => \A k \in Vehicles : Section(k) # {} => pay[k] = PayOfSection(k)

(***************************************************************************)
(* Calling itself does not help: unless the reads differ from call to      *)
(* call, only left over sections can make a later call end with a split.   *)
(***************************************************************************)
RecallNeedsOtherReads ==
    spc = "found" /\ Len(reads) > 1 =>
        \/ \E call \in DOMAIN reads : reads[call] # reads[1]
        \/ Section(NumVehicles - 1) = {}
=============================================================================
