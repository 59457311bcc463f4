--------------------------- MODULE MCCoordinators ---------------------------
(* The integrated run and, beside it, a supervisor with a batch of a case   *)
(* of each kind, the registry of benchmark evidence, the gate that reads    *)
(* its packages, and the scientific seed.  They share nothing but the names *)
(* of their processes, so TLC moves one of them in each behaviour.          *)
EXTENDS MultiTrack, TLC

(* The run: one failed skill case and two failed policy cases as in the     *)
(* controlled run, and one case of other people.                            *)

CONSTANTS k, q1, q2, other

TrackOfCase == [c \in Case |-> CASE c \in {k, other} -> "skill" [] OTHER -> "policy"]

Symmetry == Permutations(Process) \cup Permutations({q1, q2})

(* The supervisor *)

CONSTANTS s1, s2, m1, e1, x1, Nowhere

Batched == <<s1, e1, s2, m1, x1>>
BatchCases == {s1, s2, m1, e1, x1}
RouteOf == [c \in BatchCases |->
  CASE c \in {s1, s2} -> "skill" [] c = m1 -> "model" [] c = e1 -> "escalation"
    [] OTHER -> "quarantine"]
OneEach == [t \in {"skill", "model", "external_repair"} |-> 1]
Executable == {"skill", "model"}

VARIABLES which, srun, scases, sjob, executions
supervisorVars == <<srun, scases, sjob, executions>>

Sup == INSTANCE Supervisor WITH
  run <- srun, cases <- scases, job <- sjob,
  Case <- BatchCases, Batch <- Batched, route <- RouteOf, MaxRounds <- 8,
  budget <- OneEach, automatic <- Executable, equipped <- Executable, StopOnQuarantine <- TRUE

-----------------------------------------------------------------------------
(* The evidence: a baseline, an evolved round of which there are two result *)
(* files, and another agent.  One file is unfinished, one declares totals   *)
(* that it does not have, one is another agent's.                           *)

Two == {"t1", "t2"}
Use(tokens, cost) == [m \in {"tokens", "cost"} |-> IF m = "tokens" THEN tokens ELSE cost]
TrialOf(name, task, agent, error, reward, steps) ==
  [name |-> name, task |-> task, by |-> agent, error |-> error, reward |-> reward,
   steps |-> steps]
FileOf(file, agent, error, r1, r2, steps) ==
  [file |-> file, total |-> 2, completed |-> 2, cancelled |-> 0,
   errored |-> IF error = "none" THEN 0 ELSE 1,
   trials |-> <<TrialOf("x", "t1", agent, error, r1, steps),
                TrialOf("y", "t2", agent, "none", r2, <<Use(1, 1)>>)>>,
   declared |-> Use(Nowhere, Nowhere)]
First == FileOf("first", "evo", "none", 1, 0, <<Use(1, 1), Use(0, 1)>>)
Files ==
  {First, FileOf("again", "evo", "failed", 1, 2, <<Use(1, Nowhere)>>),
   FileOf("other", "rival", "none", 1, 1, <<Use(2, 2)>>),
   [First EXCEPT !.file = "unfinished", !.total = 3],
   [First EXCEPT !.file = "misdeclared", !.declared = Use(7, 3)],
   [First EXCEPT !.file = "doubled", !.trials[2].task = "t1"]}

ContractOf(role, agent, family, snapshot, above, n) ==
  [role |-> role, by |-> agent, family |-> family, snapshot |-> snapshot, parent |-> above,
   round |-> n, frozen |-> "suite", attested |-> IF n = 0 THEN {"pinned"} ELSE {}]
Evaluations == {"A0", "A1", "rival"}
Contracts == [r \in Evaluations |->
  CASE r = "A0" -> ContractOf("baseline", "evo", "evo", "S0", Nowhere, 0)
    [] r = "A1" -> ContractOf("evolved", "evo", "evo", "S1", "S0", 1)
    [] OTHER -> ContractOf("comparator", "rival", "rival", "R", Nowhere, 0)]
Alphabet == [r \in Evaluations |-> CASE r = "A0" -> 1 [] r = "A1" -> 2 [] OTHER -> 3]
RequestOf(id, mode, ids, anchor) == [id |-> id, mode |-> mode, ids |-> ids, anchor |-> anchor]
Comparisons ==
  {RequestOf("long", "longitudinal", {"A0", "A1"}, "A0"),
   RequestOf("long", "same_model", {"A0", "A1"}, "A0"),
   RequestOf("same", "same_model", {"A1", "rival"}, "A1"),
   RequestOf("all", "same_model", Evaluations, "A1"),
   RequestOf("all", "longitudinal", Evaluations, "A0")}

VARIABLES parsed, runs, reports, log, package
benchmarkVars == <<parsed, runs, reports, log, package>>
Bench == INSTANCE BenchmarkEvidence WITH
  Run <- Evaluations, contract <- Contracts, order <- Alphabet, Task <- Two, PerTask <- 1,
  Metric <- {"tokens", "cost"}, Missing <- Nowhere, Job <- Files, Request <- Comparisons,
  Checks <- {"pinned", "public"}, Absent <- Nowhere

(* The gate: two evolved rounds.                                            *)

Measured(x, y, errors, tokens, cost) ==
  [score |-> [t \in Two |-> IF t = "t1" THEN x ELSE y], errors |-> errors,
   use |-> Use(tokens, cost)]
Baselines == {Measured(1, 1, 1, 2, 2), Measured(1, 1, 1, 2, 0)}
Evolved2 ==
  {Measured(2, 1, 1, 2, 2), Measured(2, 2, 0, 3, 2), Measured(2, 2, 0, 4, 0),
   Measured(2, 2, 0, Nowhere, 2), Measured(2, 2, 0, 2, Nowhere),
   Measured(3, 0, 1, 2, 2), Measured(3, 0, 1, 2, 0), Measured(3, 0, 2, 2, 2),
   Measured(2, 0, 2, 2, 2)}
Rivals == {[rank |-> 2, delta |-> 0, losses |-> 0, pairs |-> 1],
           [rank |-> 1, delta |-> 0, losses |-> 0, pairs |-> 1],
           [rank |-> 1, delta |-> 0, losses |-> 0, pairs |-> 2]}

VARIABLES gpc, base, round, lower, against, status, decision
gateVars == <<gpc, base, round, lower, against, status, decision>>
Gate == INSTANCE ChampionGate WITH
  pc <- gpc, Task <- Two, Rounds <- 2, BaselineEvidence <- Baselines, RoundEvidence <- Evolved2,
  Comparator <- Rivals, Metric <- {"tokens", "cost"}, Cost <- "cost", Missing <- Nowhere,
  MinGain <- 1, MinLower <- 0, MaxRegressed <- 1, MaxRegressedPct <- 50, MaxErrors <- 0,
  MaxGrowthPct <- 50, Required <- {"tokens"}, AllowNonFinal <- TRUE, Patience <- 1,
  RequireComparator <- TRUE, MaxRank <- 1, MinPairDelta <- 0, MaxLosses <- 1

(* The seed: a run whose requester may have approved it, answers that cost  *)
(* their price or nothing, but for one within the cap or beyond it.         *)

Teams == {[requester |-> "ann", approvers |-> <<"bob", "cat">>],
          [requester |-> "ann", approvers |-> <<"bob", "ann">>]}

VARIABLES steam, spc, sround, stask, shistory, soutput, stime, sledger, sown, sprovider,
          sresults, sreports, sfile, sreceipt
seedVars == <<steam, spc, sround, stask, shistory, soutput, stime, sledger, sown, sprovider,
              sresults, sreports, sfile, sreceipt>>
Seed == INSTANCE ScientificSeed WITH
  team <- steam, pc <- spc, round <- sround, task <- stask, history <- shistory,
  output <- soutput, time <- stime, ledger <- sledger, own <- sown, provider <- sprovider,
  results <- sresults, reports <- sreports, file <- sfile, receipt <- sreceipt,
  Team <- Teams, Price <- 1, Dear <- {70, 250}, MaxRequests <- 180, MaxCost <- 200,
  MaxEpisode <- 3, MaxSteps <- 8, MaxCalls <- 5, MaxReportCalls <- 36,
  Eventful <- {7, 12}, NoFile <- Nowhere

ASSUME SupervisorAssumption == Sup!SupervisorAssumption
ASSUME SeedIsAffordable == Seed!SeedAssumption
ASSUME DryRunPasses == Seed!DryRunHolds
ASSUME BenchmarkAssumption == Bench!EvidenceAssumption
ASSUME ChampionGateAssumption == Gate!GateAssumption

-----------------------------------------------------------------------------
(* The policy moves once and the skill twice; once other people admitted    *)
(* their case, the skill moves once only.                                   *)
OutsiderBounds ==
  /\ live'["policy"].rev <= 1 /\ live'["skill"].rev <= 2
  /\ cases'[other] = "absent" \/ live'["skill"].rev <= 1

(* Of the cases with an executor the model's alone is escalated or           *)
(* quarantined, where something comes after it.                              *)
SupervisorBounds ==
  LET skills == {s1, s2}  unusual == {"escalated", "quarantined"} IN
  /\ \A c \in skills : scases'[c].status \notin unusual
  /\ \A p \in Process :
       sjob'[p].pc = "finalize" /\ Batched[sjob'[p].at] \in skills =>
         sjob'[p].outcome.status \notin unusual

(* What cannot move stays where it starts.                                  *)
SumInit ==
  /\ which \in {"integrated", "supervisor", "benchmark", "gate", "seed"}
  /\ Init /\ Sup!Init /\ Bench!Init /\ Gate!Init /\ Seed!Init
  /\ which = "gate" \/ base = Measured(1, 1, 1, 2, 2)
  /\ which = "seed" \/ steam.approvers = <<"bob", "cat">>
  /\ which = "seed" \/ sprovider.price = 1
SumNext ==
  /\ UNCHANGED which
  /\ \/ /\ which = "integrated" /\ Next /\ OutsiderBounds
        /\ UNCHANGED <<supervisorVars, benchmarkVars, gateVars, seedVars>>
     \/ /\ which = "supervisor" /\ Sup!Next /\ SupervisorBounds
        /\ UNCHANGED <<vars, benchmarkVars, gateVars, seedVars>>
     \/ /\ which = "benchmark" /\ Bench!Next
        /\ UNCHANGED <<vars, supervisorVars, gateVars, seedVars>>
     \/ /\ which = "gate" /\ Gate!Next
        /\ UNCHANGED <<vars, supervisorVars, benchmarkVars, seedVars>>
     \/ /\ which = "seed" /\ Seed!Next
        /\ UNCHANGED <<vars, supervisorVars, benchmarkVars, gateVars>>
SumSpec == SumInit /\ [][SumNext]_<<which, vars, supervisorVars, benchmarkVars, gateVars, seedVars>>

(* The run alone and under its fairness, of which RunIsPackaged is asked.   *)
PackagingSpec ==
  /\ SumInit /\ which = "integrated"
  /\ [][Next /\ UNCHANGED <<which, supervisorVars, benchmarkVars, gateVars, seedVars>>]_
       <<which, vars, supervisorVars, benchmarkVars, gateVars, seedVars>>
  /\ Fairness

(* The properties of Supervisor.                                            *)
(* No case is executed twice, and no track more often than its budget says, *)
(* and a run that has ended has no unfinished case and the status that it   *)
(* derives.                                                                 *)
BatchesAreBounded ==
  which = "supervisor" => Sup!ExecutionsAreBounded /\ Sup!EndedRunVerifies

(* BenchmarkEvidence: a package tells the truth about the registry, and a   *)
(* registry that holds one comparison of each kind, both of its own         *)
(* evidence, can be packed.  ScientificSeed: no request escapes the ledger, *)
(* a run as it was planned can be imported, and whatever is imported passed.*)
PackagesAreDerived ==
  /\ which = "benchmark" => Bench!PackagesAreDerived /\ Bench!HonestRegistryIsPackaged
  /\ which = "seed" =>
       Seed!EveryRequestIsAccounted /\ Seed!CompletedIsImported /\ Seed!ReceiptsTellTheTruth

(* ChampionGate: no better round is passed over, to do better does not      *)
(* hurt, and what grew from nothing or was not measured is not promoted.    *)
SelectionIsEarned ==
  which = "gate" => Gate!SelectionIsEarned /\ Gate!NothingIsHidden
=============================================================================
