---------------------------------- MODULE Link ----------------------------------
(* What lies between Home Assistant and the thing it reads, the broker or   *)
(* the gateway: a WiFi link that drops and returns; and the bound on        *)
(* everything that can go wrong.                                            *)
EXTENDS Naturals

CONSTANTS
    FaultKinds,     \* of the kinds named where Fault is used
    MaxFaults       \* bound: faults and owner's acts in a behaviour

ASSUME LinkAssumption == MaxFaults \in Nat \ {0}

VARIABLES
    link,           \* packets get through
    faults          \* how much has gone wrong so far

Fault(kind) ==
    /\ kind \in FaultKinds /\ faults < MaxFaults
    /\ faults' = faults + 1

=============================================================================
