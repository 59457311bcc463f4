------------------------- MODULE MCChampionLifecycle -------------------------
(* Finite instances of ChampionLifecycle: promotions s0 -> s1, s0 -> s2,    *)
(* and a decision against another run of s1.                                *)
EXTENDS ChampionLifecycle, TLC

CONSTANTS s0, s1, s2, d01, d12, d02, a1, a2, a3

AllSnapshots == {s0, s1, s2}
AllDecisions == {d01, d12, d02}
OneDecision == {d01}
Pairs == Snapshot \X Snapshot
AllActors == {a1, a2, a3}

baseOf == [d \in Decision |-> IF d = d12 THEN s1 ELSE s0]
selOf == [d \in Decision |-> IF d = d01 THEN s1 ELSE s2]
makerOf == [d \in Decision |-> a1]

Symmetry == Permutations(CampaignId) \cup Permutations(Worker)
              \cup Permutations({a2, a3})
=============================================================================
