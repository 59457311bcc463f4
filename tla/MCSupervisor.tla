---------------------------- MODULE MCSupervisor ----------------------------
(* Finite instances of Supervisor. *)
EXTENDS Supervisor, TLC

CONSTANTS x1, x2

Symmetry == Permutations(Process)
Repairs == <<x1, x2>>
TrackOf == [k \in Case |-> "external_repair"]
Budget == [t \in {"skill", "model", "external_repair"} |-> 1]
=============================================================================
