--------------------------- MODULE CompositeLineage ---------------------------
(***************************************************************************)
(* The composite agent: a skill and a local policy that are versioned      *)
(* apart and bound together by snapshots.  SQLiteCompositeSnapshotRegistry *)
(* (src/evoagent/composite/repository.py) keeps the snapshots of a lineage,*)
(* SQLiteCompositeEvaluationRepository (evaluation_repository.py) their    *)
(* evaluations and the decisions to go on or to stop.  A transaction is an *)
(* operator, which is not enabled when the method raises.                  *)
(*                                                                         *)
(* live.skill and live.policy are the heads of the two component           *)
(* registries, files of their own that nothing here locks.                 *)
(***************************************************************************)
EXTENDS Integers, Sequences, FiniteSets

CONSTANTS Version,   \* the versions of either component
          Base,      \* the version that both begin with
          Good,      \* the versions with which the tasks of a track pass
          MaxRounds  \* max_rounds of the stop policy

VARIABLES live,        \* the two active versions and their revisions
          snapshots,   \* the manifests by round, the last of them active
          evaluations, \* by round: which tracks passed
          decisions    \* by round: the action and its actionable cases
lineageVars == <<snapshots, evaluations, decisions>>

Binding == [v: Version, rev: Nat]
Manifest == [round: Nat, skill: Binding, policy: Binding]
Actions == {"stop", "escalate", "continue"}

LineageTypeOK ==
  /\ live \in [skill: Binding, policy: Binding]
  /\ snapshots \in Seq(Manifest)
  /\ evaluations \in Seq([skill: BOOLEAN, policy: BOOLEAN])
  /\ \A i \in DOMAIN decisions : decisions[i].action \in Actions

LineageInit ==
  /\ live = [skill |-> [v |-> Base, rev |-> 0], policy |-> [v |-> Base, rev |-> 0]]
  /\ snapshots = <<>> /\ evaluations = <<>> /\ decisions = <<>>

Active == snapshots[Len(snapshots)]
Revision == Len(snapshots) - 1

Follows_AnyRevision(b, a) == b.v # a.v
Follows(b, a) == b.rev = a.rev + 1 /\ b.v # a.v

(* changed_component: one component moved by one revision, and one only.    *)
Changed(parent, child, component) ==
  /\ child.round = parent.round + 1
  /\ component = "skill" => Follows(child.skill, parent.skill) /\ child.policy = parent.policy
  /\ component = "policy" => Follows(child.policy, parent.policy) /\ child.skill = parent.skill

RegisterInitial(m) ==
  /\ m.round = 0
  /\ snapshots = <<>>
  /\ snapshots' = <<m>>

Commit(m, rev) ==
  /\ m.round > 0
  /\ snapshots # <<>> /\ Revision = rev
  /\ \E component \in {"skill", "policy"} : Changed(Active, m, component)
  /\ snapshots' = Append(snapshots, m)

(* _validate_next_evaluation, after the first: the round before it was      *)
(* decided on, and the decision was to go on.                               *)
MayFollow(round) ==
  Len(decisions) = round /\ decisions[round].action = "continue"

RecordEvaluation(round, outcome) ==
  /\ round = Len(evaluations)
  /\ round > 0 => MayFollow(round)
  /\ evaluations' = Append(evaluations, outcome)

(* build_composite_stop_decision; the callers never say that a budget was   *)
(* exhausted.                                                               *)
StopRule(round, outcome, cases) ==
  IF outcome.skill /\ outcome.policy /\ cases = {} THEN "stop"
  ELSE IF round + 1 >= MaxRounds THEN "escalate" ELSE "continue"

RecordDecision(round, cases) ==
  /\ round < Len(evaluations)
  /\ round = Len(decisions)
  /\ decisions' = Append(decisions,
       [action |-> StopRule(round, evaluations[round + 1], cases), cases |-> cases])

(* verify_state of the registry of snapshots, ...                           *)
SnapshotsVerify == \A i \in DOMAIN snapshots : snapshots[i].round = i - 1
(* ... of the repository of evaluations and decisions, ...                  *)
EvaluationsVerify ==
  /\ Len(decisions) \in {Len(evaluations) - 1, Len(evaluations)} \cup {0}
  /\ \A i \in DOMAIN decisions :
       decisions[i].action # "continue" => i = Len(evaluations)
(* ... and of the service above both.                                       *)
LineageVerifies ==
  SnapshotsVerify /\ EvaluationsVerify /\ Len(evaluations) <= Len(snapshots)
=============================================================================
