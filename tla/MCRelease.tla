------------------------------- MODULE MCRelease -------------------------------
(* Finite instances of ReleaseLifecycle and, beside it, of ReleaseGate: a   *)
(* shadow stage and two canaries, decisions of every action; judge made the *)
(* plan and the decisions, on evidence of observer, r1 and r2 review.       *)
EXTENDS ReleaseLifecycle, TLC

CONSTANTS up0, up1, hold1, back2, done2,
          judge, observer, r1, r2

AllActors == {judge, observer, r1, r2}
AllDecisions == {up0, up1, hold1, back2, done2}
AllTargets == Stage \cup {NoStage}

TrafficOf == [i \in Stage |-> 10 * i]
StageOf == [d \in Decision |-> CASE d = up0 -> 0
                                 [] d \in {up1, hold1} -> 1
                                 [] OTHER -> 2]
ActionOf == [d \in Decision |-> CASE d \in {up0, up1} -> "advance"
                                  [] d = hold1 -> "hold"
                                  [] d = done2 -> "ready"
                                  [] OTHER -> "rollback"]
MakerOf == [x \in Decision \cup {Plan} |-> judge]
ProducerOf == [d \in Decision |-> observer]

AllSubjects == Decision \cup {Plan}

-----------------------------------------------------------------------------
(* Beside the release, its gate: two segments, the first one protected, and *)
(* the observations that make every reason of the gate appear.  They share  *)
(* nothing, so TLC moves one of them in each behaviour.                     *)

CONSTANTS s1, s2, Missing, MaxPairs

Obs(outcome, latency, cost) ==
  [success |-> outcome = "success", error |-> outcome = "error",
   unsafe |-> outcome = "unsafe",
   use |-> [m \in {"latency", "cost"} |-> IF m = "latency" THEN latency ELSE cost]]
Segments == {s1, s2}
ProtectedSegments == {s1}
Usages == {"latency", "cost"}
RequiredUsages == {"cost"}
OfIncumbent ==
  {Obs("success", 1, 1), Obs("success", 1, 0), Obs("failure", 1, 1)}
OfChallenger ==
  {Obs("success", 1, 0), Obs("success", 1, 1), Obs("success", 2, 2), Obs("success", 1, Missing),
   Obs("error", 1, 1), Obs("unsafe", 1, 0)}

VARIABLES which, pc, stage, batch, lowerOk, status, verdict
gateVars == <<pc, stage, batch, lowerOk, status, verdict>>

Gate == INSTANCE ReleaseGate WITH
  action <- verdict,
  Segment <- Segments, Protected <- ProtectedSegments,
  IncObservation <- OfIncumbent, ChObservation <- OfChallenger,
  Metric <- Usages, Latency <- "latency", Required <- RequiredUsages,
  MinPairs <- 2, MinSegmentPairs <- 1, MaxUnsafe <- 0, MaxRegressed <- 1,
  MaxRegressedPct <- 50, MinDeltaPct <- -20, MinLowerPct <- -25,
  MaxErrorPct <- 2, MaxGrowthPct <- 50

ASSUME ReleaseGateAssumption == Gate!GateAssumption

(* The gate sums over a batch, so that its order tells nothing: the pairs   *)
(* of the first segment come first.                                         *)
GateBounds ==
  \A i, j \in DOMAIN batch' : i < j /\ batch'[j].seg = s1 => batch'[i].seg = s1

BothInit == which \in {"release", "gate"} /\ Init /\ Gate!Init
BothNext ==
  /\ UNCHANGED which
  /\ \/ which = "release" /\ Next /\ UNCHANGED gateVars
     \/ which = "gate" /\ Gate!Next /\ GateBounds /\ UNCHANGED vars
BothSpec == BothInit /\ [][BothNext]_<<which, vars, gateVars>>

(* ReleaseGate: a failure of safety or of a protected segment is never      *)
(* overridden, who goes on has evidence from every segment, and a better    *)
(* challenger is not decided on more severely.                              *)
VerdictsAreEarned ==
  which = "gate" =>
    /\ Gate!TypeOK /\ Gate!FailuresAreNotOverridden /\ Gate!EverySegmentIsHeard
    /\ Gate!BetterIsNotPunished

Symmetry == Permutations(CampaignId) \cup Permutations(Worker) \cup Permutations({r1, r2})
=============================================================================
