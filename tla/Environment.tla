----------------------------- MODULE Environment -----------------------------
(***************************************************************************)
(* What may go wrong around a component: calls that fail, copies that      *)
(* break, processes that die.  A behaviour has a budget of such faults and *)
(* remembers their kinds, so that a property can say which of them it      *)
(* tolerates.                                                              *)
(***************************************************************************)
EXTENDS Naturals

CONSTANTS
  Env,          \* the kinds of faults that may happen
  MaxFaults     \* BOUND: how many faults happen in a behaviour

ASSUME EnvironmentAssumption == MaxFaults \in Nat

VARIABLE faults \* how many faults happened so far, and of which kinds

FaultsOK == faults \in [count : Nat, kinds : SUBSET Env]

NoFaults == faults = [count |-> 0, kinds |-> {}]

Fault(kind) ==
  /\ kind \in Env
  /\ faults.count < MaxFaults
  /\ faults' = [count |-> faults.count + 1, kinds |-> faults.kinds \cup {kind}]

Happened(kind) == kind \in faults.kinds
=============================================================================
