------------------------------ MODULE MCRecovery ------------------------------
(* What repeating the calls recovers, checked under the fairness of each     *)
(* system: the two restart windows of the local-policy lifecycle, a process  *)
(* of the integrated run that is stopped, a recommended rollback of a        *)
(* release, a submission and a completion of the program controller, and the *)
(* scripted laboratories, started again after they have stopped.            *)
(* The systems share nothing; which says the one that moves, and with its    *)
(* own fairness, while the others stay in their initial states.              *)
EXTENDS Integers, FiniteSets

CONSTANTS None, made, judge1, judge2, judge3, judge4, a1, a2, a3, a4, b1, b2, b3, b4,
          p0, p1, e1, e2, c1, c2, c3, w1, k, q1, q2,
          up0, back1, plan, observer, r1, r2, s1, d1, cert1

VARIABLES which,
          lcamp, lvotes, laudit, lpol, lhead, llog, lat, lclock, ljob,
               lreused, lovertook,
          mlive, msnapshots, mevaluations, mdecisions, mrun, mcases, mresults,
          mjob, mstops, mpackaged, mlab, mpairs,
          rcamp, rvotes, raudit, rhead, rdecs, rjob, rcut,
          gcamp, gvotes, gaudit, ghead, ggens, gsignals, greceipts, gdecisions, gjob, gtrail,
          atop, aroot, arun, astops

policyVars == <<lcamp, lvotes, laudit, lpol, lhead, llog, lat, lclock, ljob,
               lreused, lovertook>>
runVars == <<mlive, msnapshots, mevaluations, mdecisions, mrun, mcases, mresults,
             mjob, mstops, mpackaged, mlab, mpairs>>
releaseVars == <<rcamp, rvotes, raudit, rhead, rdecs, rjob, rcut>>
programVars == <<gcamp, gvotes, gaudit, ghead, ggens, gsignals, greceipts, gdecisions,
                 gjob, gtrail>>
labVars == <<atop, aroot, arun, astops>>
allVars == <<which, policyVars, runVars, releaseVars, programVars, labVars>>

One == {c1}
Two == {c1, c2}
Three == {c1, c2, c3}
Workers == {w1}

-----------------------------------------------------------------------------
(* Local policies: p1 is promoted over p0 for e1 and rolled back for e2,    *)
(* while operators may close a promotion.                                   *)

Policies == {p0, p1}
Evidences == {e1, e2}
BaseOf == [p \in Policies |-> IF p = p0 THEN None ELSE p0]
OnlyP1 == {p1}
KindsOf == {"promotion", "rollback"}
PolicyCases == [kind : KindsOf, p : Policies, ev : Evidences]
PolicyTargets == KindsOf \X Policies
PolicyActors ==
  {made, judge1, judge2, judge3, judge4, a1, a2, a3, a4, b1, b2, b3, b4}
TeamOf == [p \in Policies |-> {}]
CreatorOf == [p \in Policies |-> made]
FirstJudge == [e \in Evidences |-> IF e = e1 THEN judge1 ELSE judge3]
SecondJudge == [e \in Evidences |-> IF e = e1 THEN judge2 ELSE judge4]
ApproverOf == [x \in KindsOf |-> IF x = "promotion" THEN {a1, a2, judge1} ELSE {b1, b2, a4}]
AuthorizerOf == [x \in KindsOf |-> IF x = "promotion" THEN {a3} ELSE {b3, a3}]
ExecutorOf == [x \in KindsOf |-> IF x = "promotion" THEN {a4, a3} ELSE {b4}]
AllAtOnce == [e \in Evidences |-> 0]
EvidenceOf == [x \in KindsOf |-> IF x = "promotion" THEN e1 ELSE e2]
SomeCases == {[kind |-> x, p |-> p1, ev |-> EvidenceOf[x]] : x \in KindsOf}

Policy == INSTANCE LocalPolicyLifecycle WITH
  camp <- lcamp, approvals <- lvotes, audit <- laudit,
  pol <- lpol, head <- lhead, log <- llog, job <- ljob, reused <- lreused,
  at <- lat, clock <- lclock, overtook <- lovertook, MaxClock <- 0,
  askedAt <- AllAtOnce, judgedAt <- AllAtOnce,
  CampaignId <- Two, Target <- PolicyTargets, Fingerprint <- PolicyCases,
  Actor <- PolicyActors, Candidate <- PolicyCases, NoCandidate <- None,
  Policy <- Policies, NoPolicy <- None, base <- BaseOf, promotable <- OnlyP1,
  Evidence <- Evidences, NoEvidence <- None, NoCampaign <- None, Nobody <- None,
  Worker <- Workers, team <- TeamOf, creator <- CreatorOf,
  judgeA <- FirstJudge, judgeB <- SecondJudge, approverOf <- ApproverOf,
  authorizerOf <- AuthorizerOf, executorOf <- ExecutorOf,
  Submitted <- SomeCases, closable <- {"promotion"}

-----------------------------------------------------------------------------
(* The integrated run of the controlled laboratory, stopped up to twice.    *)

RunCases == {k, q1, q2}
TrackOf == [c \in RunCases |-> IF c = k THEN "skill" ELSE "policy"]
Versions == {"base", "evolved"}
GoodVersions == {"evolved"}

Run == INSTANCE MultiTrack WITH
  live <- mlive, snapshots <- msnapshots, evaluations <- mevaluations,
  decisions <- mdecisions, run <- mrun, cases <- mcases, results <- mresults,
  job <- mjob, stops <- mstops, packaged <- mpackaged, lab <- mlab, pairs <- mpairs,
  Case <- RunCases, track <- TrackOf, Failed <- RunCases, MaxCases <- 8,
  MinPolicyCases <- 2, MaxExecutions <- 1, MaxRunRounds <- 3, MaxRounds <- 3,
  Version <- Versions, Base <- "base", Evolved <- "evolved", Good <- GoodVersions,
  Process <- Workers, Outsiders <- FALSE, MaxStops <- 2, Unbounded <- None, MaxRev <- 2

-----------------------------------------------------------------------------
(* A release that is advanced once and then to be rolled back.              *)

Subjects == {up0, back1, plan}
ReleaseDecisions == {up0, back1}
Stages == 0..2
StageTargets == Stages \cup {None}
TrafficOf == [i \in Stages |-> 10 * i]
StageOf == [d \in ReleaseDecisions |-> IF d = up0 THEN 0 ELSE 1]
ActionOf == [d \in ReleaseDecisions |-> IF d = up0 THEN "advance" ELSE "rollback"]
MakerOf == [x \in Subjects |-> made]
ProducerOf == [d \in ReleaseDecisions |-> observer]
ReleaseActors == {made, observer, r1, r2}

Release == INSTANCE ReleaseLifecycle WITH
  camp <- rcamp, approvals <- rvotes, audit <- raudit,
  head <- rhead, decs <- rdecs, job <- rjob, cut <- rcut,
  CampaignId <- Three, Target <- StageTargets, Fingerprint <- Subjects,
  Actor <- ReleaseActors, Candidate <- Subjects, NoCandidate <- None,
  LastStage <- 2, traffic <- TrafficOf, NoStage <- None, NoHead <- None,
  NoCampaign <- None, Decision <- ReleaseDecisions, stageOf <- StageOf,
  action <- ActionOf, Plan <- plan, Worker <- Workers, maker <- MakerOf,
  producer <- ProducerOf, Crashes <- TRUE, closable <- {back1}

-----------------------------------------------------------------------------
(* A program of two generations, whose worker stops anywhere.               *)

Indexes == 0..1
Receipts == {cert1}
ProgramDecisions == {d1}
Attributor == [r \in Receipts |-> judge2]
Conclusive == [r \in Receipts |-> TRUE]
Decider == [d \in ProgramDecisions |-> judge3]
ProgramActors == {judge1, judge2, judge3, a1, a2, a3, a4}
OneEvaluator == {a1}
Planner == {judge3}
OnePair == {1}
OneSignal == {s1}

Program == INSTANCE ProgramController WITH
  camp <- gcamp, approvals <- gvotes, audit <- gaudit,
  head <- ghead, gens <- ggens, signals <- gsignals, receipts <- greceipts,
  decisions <- gdecisions, job <- gjob, trail <- gtrail,
  CampaignId <- One, Target <- Indexes, Fingerprint <- Indexes,
  Actor <- ProgramActors, Candidate <- Indexes, NoCandidate <- None,
  NoHead <- None, NoCampaign <- None, NoDecision <- None, NoSignal <- None,
  NoReceipt <- None, SignalId <- OneSignal, ReceiptId <- Receipts,
  DecisionId <- ProgramDecisions, producer <- judge1, attributor <- Attributor,
  conclusive <- Conclusive, decider <- Decider, MaxGenerations <- 2,
  MaxRollbacks <- 2, MaxHolds <- 2, MaxCampaigns <- 1, MaxPairs <- 2,
  MaxNonImproving <- 1, StopOnReady <- TRUE, Worker <- Workers,
  Evaluators <- OneEvaluator, Ingestors <- Planner, Budgets <- OnePair,
  InitialPairs <- OnePair, Generic <- FALSE

-----------------------------------------------------------------------------
(* The laboratories that call others, and the two that start at the clock,  *)
(* stopped up to twice, or once when it is the program's, the longest.      *)

Started == {"reference", "program", "supervisor", "local_policy", "unified"}

Lab == INSTANCE Laboratories WITH
  top <- atop, root <- aroot, run <- arun, stops <- astops,
  Top <- Started, MaxStops <- 2
LabBounds == atop = "program" => astops' <= 1

-----------------------------------------------------------------------------
AllInit ==
  /\ which \in {"policy", "run", "release", "program", "laboratory"}
  /\ Policy!Init /\ Run!Init /\ Release!Init /\ Program!Init /\ Lab!Init
  /\ which # "laboratory" => atop = "reference"

(* Campaigns take their IDs in order, since no definition tells IDs apart.  *)
InOrder(table) ==
  {c \in DOMAIN table : table[c].state # "absent"} \in {{}, One, Two, Three}

AllNext ==
  /\ UNCHANGED which
  /\ \/ /\ which = "policy" /\ Policy!Next /\ InOrder(lcamp')
        /\ UNCHANGED <<runVars, releaseVars, programVars, labVars>>
     \/ /\ which = "run" /\ Run!Next
        /\ UNCHANGED <<policyVars, releaseVars, programVars, labVars>>
     \/ /\ which = "release" /\ Release!Next /\ InOrder(rcamp')
        /\ UNCHANGED <<policyVars, runVars, programVars, labVars>>
     \/ /\ which = "program" /\ (Program!Next \/ Program!Stops)
        /\ UNCHANGED <<policyVars, runVars, releaseVars, labVars>>
     \/ /\ which = "laboratory" /\ Lab!Next /\ LabBounds
        /\ UNCHANGED <<policyVars, runVars, releaseVars, programVars>>

AllSpec == AllInit /\ [][AllNext]_allVars

FairSpec ==
  /\ AllSpec
  /\ \/ which = "policy" /\ Policy!Fairness
     \/ which = "run" /\ Run!Fairness
     \/ which = "release" /\ Release!Fairness
     \/ which = "program" /\ Program!Fairness
     \/ which = "laboratory" /\ Lab!Fairness

-----------------------------------------------------------------------------
(* LocalPolicyLifecycle: stored evidence reaches the approvers, and a       *)
(* pointer that has moved completes its campaign.                           *)
PolicyCallsAreRecovered == Policy!SubmissionIsRecovered /\ Policy!MoveIsRecovered
(* ReleaseLifecycle: a recommended rollback is carried out, and nothing     *)
(* else becomes of it.                                                      *)
RecommendedIsRolledBack == Release!RecommendedIsRolledBack /\ Release!NoWayBack
(* ProgramController: a generation that is planned gets authorized, and one *)
(* that is done has its campaign completed.                                 *)
ProgramCallsAreRecovered == Program!SubmissionIsRecovered /\ Program!CompletionIsRecovered
(* Laboratories: whoever starts one again and again gets its package, but   *)
(* for the places that are named, and what is packaged stays.               *)
LaboratoriesAreRepeatable ==
  (which = "laboratory" => Lab!EndsInAPackage) /\ Lab!PackagesStay
=============================================================================
