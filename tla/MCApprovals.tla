------------------------------ MODULE MCApprovals ------------------------------
(* The program of MCProgramController and, beside it, the diagnosis of a run  *)
(* that failed, from which the signals of a program come.  They share no     *)
(* state, so TLC moves one of them in each behaviour.                        *)
EXTENDS MCProgramController

(* The diagnosis: every scenario of at most two faults, and local runs with *)
(* an unsafe skill, with one that does not verify, and with limits that a   *)
(* safe one needs more than.                                                *)

MatrixOf(faults) ==
  [runner |-> "matrix", faults |-> faults, skill |-> {}, expected |-> "completed",
   steps |-> 6, calls |-> 4]
LocalOf(skill, expected, most, most2) ==
  [runner |-> "local", faults |-> {}, skill |-> skill, expected |-> expected,
   steps |-> most, calls |-> most2]
Layers == {"skill", "router", "tool", "context", "verifier", "environment", "model"}
Scenarios ==
  {MatrixOf({l, also}) : l \in Layers, also \in Layers} \cup
  {LocalOf({"verify"}, "blocked", 6, 4), LocalOf({"verify"}, "completed", 6, 4),
   LocalOf({"inspect"}, "completed", 6, 4), LocalOf({"inspect", "verify"}, "completed", 3, 4),
   LocalOf({"inspect", "verify"}, "completed", 6, 2)}
PriorsOf(f, tested) == {[layer |-> l, prior |-> f[l]] : l \in tested}
Alike == [l \in Layers |-> 100]
Priors ==
  {PriorsOf(Alike, Layers), PriorsOf(Alike, Layers \ {"tool"}),
   PriorsOf([Alike EXCEPT !["router"] = 90, !["skill"] = 96, !["tool"] = 50], Layers)}

VARIABLES scenario, hypotheses, at, rpc, initial, doc, attempted, history, steps, limit, output,
          trace, report
diagnosisVars ==
  <<scenario, hypotheses, at, rpc, initial, doc, attempted, history, steps, limit, output, trace,
    report>>
Diag == INSTANCE ToolRuntime WITH
  pc <- rpc, Scenario <- Scenarios, Hypotheses <- Priors, MinConfidence <- 60,
  ConflictMargin <- 5, MaxCut <- 2

ASSUME RuntimeAssumption == Diag!RuntimeAssumption

-----------------------------------------------------------------------------
VARIABLE which
SumInit ==
  /\ which \in {"program", "diagnosis"}
  /\ Init /\ Diag!Init
  /\ which = "diagnosis" \/ (scenario = MatrixOf({"model"}) /\ hypotheses = PriorsOf(Alike, Layers))
SumNext ==
  /\ UNCHANGED which
  /\ \/ which = "program" /\ Next /\ UNCHANGED diagnosisVars
     \/ which = "diagnosis" /\ Diag!Next /\ UNCHANGED vars
SumSpec == SumInit /\ [][SumNext]_<<which, vars, diagnosisVars>>

(* ToolRuntime: a run that passed kept its limits and left its document as  *)
(* its task wants it, no layer is blamed in vain, a single fault is found,  *)
(* and a model is trained only when nothing else helped.                    *)
DiagnosesAreCausal ==
  which = "diagnosis" =>
    /\ Diag!PassedIsWithinLimits /\ Diag!NobodyIsBlamedInVain
    /\ Diag!FaultsAreFound /\ Diag!TrainingIsTheLastResort
=============================================================================
