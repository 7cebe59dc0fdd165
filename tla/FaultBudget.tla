---------------------------- MODULE FaultBudget ----------------------------
(***************************************************************************)
(* A bound on what goes wrong in one behaviour, of whatever kind, shared   *)
(* by the components whose faults are counted together.                    *)
(***************************************************************************)
EXTENDS Naturals

CONSTANT MaxFaults       \* bound: faults of any kind
VARIABLE faults          \* how many there have been

ASSUME MaxFaultsAssumption == MaxFaults \in Nat

Fault == faults < MaxFaults /\ faults' = faults + 1
=============================================================================
