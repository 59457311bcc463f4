----------------------------- MODULE MCCampaigns -----------------------------
(* One finite instance of each of the systems that live on a campaign       *)
(* database: the campaigns themselves, with their workers and clocks; the   *)
(* Champion; the activation of models; the evolution cycle.  They do not    *)
(* share a database, so TLC starts in any of them (which) and stays there.  *)
(* Each has the variables of its module, and the others' are Absent.        *)
EXTENDS CampaignGovernance, TLC

VARIABLES which,
          crow, cvotes, caudit,   \* camp, approvals and audit of the other three
          head, job, snap, decs,
          model, active, events, reused,
          stored, skills, evidence
dbVars == <<crow, cvotes, caudit>>
championVars == <<head, snap, decs>>
modelVars == <<model, active, events, reused>>
cycleVars == <<stored, skills, evidence>>
allVars == <<vars, which, dbVars, championVars, modelVars, cycleVars, job>>

CONSTANTS a1, a2, a3, c1, c2, c3, w1, w2, Absent

CallerTargets == ClosedStates
TwoCampaigns == {c1, c2}
Workers == {w1, w2}

-----------------------------------------------------------------------------
(* The campaigns: three people decide on one campaign, or two of them have  *)
(* three campaigns on one target succeed one another.  What no definition   *)
(* tells apart comes in order: a1 reserves first, c1 before c2 before c3,   *)
(* and a campaign gets h1 unless it has a candidate already.                *)

CONSTANTS h1, h2

OneCampaign ==
  /\ now = 0 /\ camp[c2] = NoRow /\ camp[c3] = NoRow
  /\ Exists(c1) => camp[c1].cool = 0
Succession ==
  /\ \E a \in {a2, a3} : view[a] = NoView /\ since[a] = 0
  /\ \A c \in CampaignId : Exists(c) => camp[c].cand = NoCandidate /\ camp[c].need = 1
CampaignBounds ==
  /\ OneCampaign' \/ Succession'
  /\ Exists(c1)' => camp'[c1].gen = a1
  /\ (Exists(c2)' => Exists(c1)') /\ (Exists(c3)' => Exists(c2)')
  /\ \A c \in CampaignId :
       Exists(c) /\ camp[c].cand = NoCandidate => camp'[c].cand # h2

(* The Champion: promotions s0 -> s1 and s0 -> s2, and a decision against  *)
(* another run of s1, which is refused once s1 is Champion.                 *)

CONSTANTS s0, s1, s2, d01, d12, d02
Snapshots == {s0, s1, s2}
Promotions == {d01, d12, d02}
SnapshotPairs == Snapshots \X Snapshots
BaseOf == [d \in Promotions |-> IF d = d12 THEN s1 ELSE s0]
SelectedOf == [d \in Promotions |-> IF d = d01 THEN s1 ELSE s2]
MakerOf == [d \in Promotions |-> a1]
People == {a1, a2, a3}
Champion == INSTANCE ChampionLifecycle WITH
  camp <- crow, approvals <- cvotes, audit <- caudit,
  CampaignId <- TwoCampaigns, Actor <- People, Worker <- Workers,
  Snapshot <- Snapshots, Decision <- Promotions,
  Target <- SnapshotPairs, Fingerprint <- Promotions, Candidate <- Promotions,
  NoCandidate <- Absent, NoDecision <- Absent, NoSnapshot <- Absent, NoCampaign <- Absent,
  base <- BaseOf, sel <- SelectedOf, maker <- MakerOf, OperatorsClose <- TRUE

(* The models: m1 is trained from m0, and m2 from m1, trained by teacher  *)
(* and judged by judge, who tries to approve like the others.  Once m2 is   *)
(* there, calls come one at a time.                                         *)

CONSTANTS m0, m1, m2, teacher, judge
Family == {m0, m1, m2}
Trained == {m1, m2}
ParentOf == [m \in Family |-> CASE m = m0 -> Absent [] m = m1 -> m0 [] OTHER -> m1]
TrainerOf == [m \in Family |-> teacher]
JudgesOf == [m \in Family |-> {judge}]
Approvers3 == {judge, a2, a3}
Staff == {teacher, judge, a2, a3}
Models == INSTANCE ModelActivation WITH
  camp <- crow, approvals <- cvotes, audit <- caudit,
  CampaignId <- TwoCampaigns, Actor <- Staff, Worker <- Workers,
  Model <- Family, Target <- Family, Fingerprint <- Family, Candidate <- Family,
  NoCandidate <- Absent, NoModel <- Absent, NoCampaign <- Absent,
  parent <- ParentOf, passing <- Trained, trainer <- TrainerOf, judges <- JudgesOf,
  Approver <- Approvers3, CampaignsAreMixedUp <- TRUE
ModelBounds ==
  Models!Known(m2)' => \E w \in Workers : job'[w] = Models!Idle

(* The evolution cycle: two failures of a skill, for which different        *)
(* patches are proposed, and one that is not to be trusted; or three of a   *)
(* model, two of them of one task, and one of a tool.                       *)

CONSTANTS k1, k2, u1, n1, n2, n3, x1, cycle
SkillTraces == {k1, k2, u1}
OtherTraces == {n1, n2, n3, x1}
LayerOf == [tr \in SkillTraces \cup OtherTraces |->
  CASE tr \in {k1, k2} -> "skill" [] tr \in {n1, n2, n3} -> "model" [] tr = x1 -> "tool"
    [] OTHER -> "untrusted"]
TaskOf == [tr \in SkillTraces \cup OtherTraces |-> IF tr \in {n1, n2} THEN "one" ELSE "other"]
PatchOf == [tr \in SkillTraces \cup OtherTraces |-> IF tr = k2 THEN "second" ELSE "first"]
Cyclists == {a2, cycle}
OneReviewer == {a2}
Prints == {"first", "second", "settings"}
Targets == [kind : {"skill"}, version : 0..2] \cup [kind : {"model", "tool"}]
Artifacts ==
  [kind : {"skill"}, version : 0..2, spec : [parent : 0..2, patch : {"first", "second"}]]
    \cup [kind : {"model"}, traces : SUBSET (SkillTraces \cup OtherTraces)]
    \cup [kind : {"tool"}]
Skills == INSTANCE EvolutionCycle WITH
  camp <- crow, approvals <- cvotes, audit <- caudit,
  CampaignId <- TwoCampaigns, Actor <- Cyclists, Process <- Workers,
  Target <- Targets, Fingerprint <- Prints, Candidate <- Artifacts, NoCandidate <- Absent,
  Trace <- SkillTraces, layer <- LayerOf, task <- TaskOf, patch <- PatchOf,
  Reviewer <- OneReviewer, Cycle <- cycle, MinTraces <- 2, MinTasks <- 2,
  MaxVersion <- 2, MaxMoves <- 2
Tickets == INSTANCE EvolutionCycle WITH
  camp <- crow, approvals <- cvotes, audit <- caudit,
  CampaignId <- TwoCampaigns, Actor <- Cyclists, Process <- Workers,
  Target <- Targets, Fingerprint <- Prints, Candidate <- Artifacts, NoCandidate <- Absent,
  Trace <- OtherTraces, layer <- LayerOf, task <- TaskOf, patch <- PatchOf,
  Reviewer <- OneReviewer, Cycle <- cycle, MinTraces <- 2, MinTasks <- 2,
  MaxVersion <- 0, MaxMoves <- 2

ASSUME ChampionAssumption == Champion!RegistryAssumption /\ Champion!LifecycleAssumption
ASSUME ModelsAssumption == Models!ModelAssumption
ASSUME CyclesAssumption == Skills!CycleAssumption /\ Tickets!CycleAssumption

-----------------------------------------------------------------------------
NoCampaignsRun == Init
NoDatabase == crow = Absent /\ cvotes = Absent /\ caudit = Absent
NoChampion == snap = Absent /\ decs = Absent
NoModels == model = Absent /\ active = Absent /\ events = Absent /\ reused = Absent
NoCycle == stored = Absent /\ skills = Absent /\ evidence = Absent

SumInit ==
  \/ /\ which = "campaigns" /\ Init
     /\ NoDatabase /\ NoChampion /\ NoModels /\ NoCycle /\ job = Absent /\ head = Absent
  \/ /\ which = "champion" /\ Champion!Init
     /\ NoCampaignsRun /\ NoModels /\ NoCycle
  \/ /\ which = "models" /\ Models!Init
     /\ NoCampaignsRun /\ NoChampion /\ NoCycle /\ head = Absent
  \/ /\ which = "skills" /\ Skills!Init
     /\ NoCampaignsRun /\ NoChampion /\ NoModels
  \/ /\ which = "tickets" /\ Tickets!Init
     /\ NoCampaignsRun /\ NoChampion /\ NoModels

SumNext ==
  /\ UNCHANGED which
  /\ \/ /\ which = "campaigns" /\ Next /\ CampaignBounds
        /\ UNCHANGED <<dbVars, championVars, modelVars, cycleVars, job>>
     \/ /\ which = "champion" /\ Champion!Next
        /\ UNCHANGED <<vars, modelVars, cycleVars>>
     \/ /\ which = "models" /\ Models!Next /\ ModelBounds
        /\ UNCHANGED <<vars, championVars, cycleVars>>
     \/ /\ which = "skills" /\ Skills!Next
        /\ UNCHANGED <<vars, snap, decs, modelVars>>
     \/ /\ which = "tickets" /\ Tickets!Next
        /\ UNCHANGED <<vars, snap, decs, modelVars>>

SumSpec == SumInit /\ [][SumNext]_allVars

(* Interchangeable in each of the systems: no definition tells them apart.  *)
Symmetry == Permutations({c1, c2}) \cup Permutations({a2, a3}) \cup Permutations({w1, w2})

-----------------------------------------------------------------------------
(* The properties of the modules, each of its own system; those of the      *)
(* campaigns are checked everywhere, and the other systems have none.       *)

(* ChampionLifecycle: the registry verifies, rollback has where to go, a    *)
(* completed campaign has moved the pointer, and whatever was authorized    *)
(* has an approved campaign.                                                *)
ChampionIsSound ==
  which = "champion" =>
    /\ Champion!RegistryVerifies /\ Champion!CompletedMeansActivated
    /\ Champion!ActiveWasApproved
(* ChampionLifecycle: the pointer follows the lineage, never back to what   *)
(* was rolled back, and a rollback undoes the Champion its operator saw.    *)
LineageIsFollowed ==
  [][which = "champion" => Champion!FollowsLineage /\ Champion!UndoesWhatItSaw]_allVars

(* ModelActivation: the family implements GovernedChange.                   *)
ModelsAreGoverned ==
  /\ which = "models" => Models!Governed!Init
  /\ [][which = "models" => [Models!Governed!Next]_(Models!Governed!vars)]_allVars
(* ModelActivation: what the calls leave verifies, and can be packaged.     *)
LifecycleIsPackageable == which = "models" => Models!LifecycleIsPackageable

(* EvolutionCycle: every version has its campaign, who was active was       *)
(* approved, and a model ticket rests on enough stored traces.              *)
CyclesAreGoverned ==
  /\ which = "skills" => Skills!SkillsAreGoverned
  /\ which = "tickets" => Tickets!ModelTicketsHaveEvidence
=============================================================================
