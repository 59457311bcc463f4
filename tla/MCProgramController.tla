------------------------- MODULE MCProgramController -------------------------
(* Finite instances of ProgramPackage: prod, attr and dec are producer,  *)
(* attributor and planner, x1 evaluates, x2, x3 and x4 approve or operate. *)
EXTENDS ProgramPackage, TLC

CONSTANTS prod, attr, dec, x1, x2, x3, x4, vague

AllActors == {prod, attr, dec, x1, x2, x3, x4}
AllIndexes == Index
AttributorOf == [r \in ReceiptId |-> attr]
ConclusiveOf == [r \in ReceiptId |-> r # vague]
DeciderOf == [d \in DecisionId |-> dec]
OneEvaluator == {x1}
Planner == {dec}
OneIngestor == {x2}

Symmetry == Permutations(CampaignId) \cup Permutations(Worker) \cup Permutations(SignalId)
              \cup Permutations(DecisionId) \cup Permutations({x3, x4})
SymmetryStaff == Symmetry \cup Permutations({x2, x3, x4})
=============================================================================
