---------------------------- MODULE DeliveryLedger ----------------------------
(***************************************************************************)
(* What the owner of the table vehicleAllocateResult expects of a run of   *)
(* the program for a vehicle: the deliveries of the vehicle are replaced   *)
(* by the same deliveries in a better order.  They are taken off the       *)
(* ledger, entered again a few at a time, and the run is over only when    *)
(* each is back.  Once a run of the vehicle has been spoilt nothing is     *)
(* promised about the vehicle any more.                                    *)
(***************************************************************************)
CONSTANTS
    LVehicle,
    Due         \* Due[v]: the deliveries allocated to vehicle v

VARIABLES
    entered,    \* entered[v]: the deliveries of v that are on the ledger
    phase       \* phase[v]: "kept", "rewriting" or "spoilt"

lvars == <<entered, phase>>

Init ==
    /\ entered = Due
    /\ phase = [v \in LVehicle |-> "kept"]

\* A rewriting begins, perhaps within another one.
TakeOff(v) ==
    /\ phase[v] # "spoilt"
    /\ phase' = [phase EXCEPT ![v] = "rewriting"]
    /\ entered' = [entered EXCEPT ![v] = {}]

Enter(v) ==
    /\ phase[v] = "rewriting"
    /\ \E d \in Due[v] \ entered[v] : entered' = [entered EXCEPT ![v] = @ \cup {d}]
    /\ UNCHANGED phase

Close(v) ==
    /\ phase[v] = "rewriting"
    /\ entered[v] = Due[v]
    /\ phase' = [phase EXCEPT ![v] = "kept"]
    /\ UNCHANGED entered

Spoil(v) ==
    /\ phase' = [phase EXCEPT ![v] = "spoilt"]
    /\ \E d \in SUBSET Due[v] : entered' = [entered EXCEPT ![v] = d]

Next == \E v \in LVehicle : TakeOff(v) \/ Enter(v) \/ Close(v) \/ Spoil(v)

Spec == Init /\ [][Next]_lvars
=============================================================================
