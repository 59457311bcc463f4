----------------------------- MODULE IntegratedRun -----------------------------
(***************************************************************************)
(* The queue of attributed cases and the rounds of execution over it:      *)
(* SQLiteIntegratedEvolutionRepository (src/evoagent/integrated/           *)
(* repository.py with the overrides of repository_hardened.py), and the    *)
(* plans that IntegratedSupervisorService makes of it (service.py).  An    *)
(* operator is a transaction, or a call that at most reads before it.      *)
(***************************************************************************)
EXTENDS Integers, FiniteSets

CONSTANTS Case, track,   \* "skill" or "policy", or "escalation" (not automatic)
          MaxCases, MinPolicyCases, MaxExecutions, MaxRunRounds \* IntegratedRunPolicy

VARIABLES run,     \* the integrated_runs row, or NoRun
          cases,   \* the status of each case, or "absent"
          results  \* integrated_track_results: track, cases and component version
runVars == <<run, cases, results>>

NoRun == [status |-> "absent"]
Open == {"open", "running"}
Statuses == Open \cup {"stopped", "escalated"}
CaseStatuses == {"absent", "pending", "claimed", "completed", "escalated"}
Tracks == {"skill", "policy"}

RunTypeOK(version) ==
  /\ run = NoRun \/ run \in [status: Statuses, rev: Nat, round: Nat]
  /\ cases \in [Case -> CaseStatuses]
  /\ results \subseteq [track: Tracks, cases: SUBSET Case, v: version]

RunInit == run = NoRun /\ cases = [k \in Case |-> "absent"] /\ results = {}

Mutable == run.status \in Open
Claimed == {k \in Case : cases[k] = "claimed"}
Pending(tracks) == {k \in Case : cases[k] = "pending" /\ track[k] \in tracks}
Executions(t) == Cardinality({r \in results : r.track = t})
Mark(ks, status) == cases' = [k \in Case |-> IF k \in ks THEN status ELSE cases[k]]

CreateRun ==
  /\ run' = IF run = NoRun THEN [status |-> "open", rev |-> 0, round |-> 0] ELSE run
  /\ UNCHANGED <<cases, results>>

AdmitCase_Again(k) ==
  /\ Mutable
  /\ Mark({k}, IF track[k] \in Tracks THEN "pending" ELSE "escalated")
  /\ UNCHANGED <<run, results>>
(* A case that is there already is returned, but not by a terminal run.  An *)
(* admission does not count as a revision of the run.                       *)
AdmitCase(k) ==
  /\ Mutable
  /\ IF cases[k] # "absent" THEN UNCHANGED cases
     ELSE /\ Cardinality({j \in Case : cases[j] # "absent"}) < MaxCases
          /\ Mark({k}, IF track[k] \in Tracks THEN "pending" ELSE "escalated")
  /\ UNCHANGED <<run, results>>

(* plan_next: the batch that is claimed, or the next to be claimed.         *)
Plans ==
  IF ~Mutable THEN {}
  ELSE IF Claimed # {} THEN {[cases |-> Claimed, rev |-> run.rev - 1]}
  ELSE IF Pending({"skill"}) # {}
       THEN {[cases |-> {k}, rev |-> run.rev] :
               k \in IF Executions("skill") < MaxExecutions THEN Pending({"skill"}) ELSE {}}
  ELSE IF Executions("policy") < MaxExecutions /\ Cardinality(Pending({"policy"})) >= MinPolicyCases
       THEN {[cases |-> Pending({"policy"}), rev |-> run.rev]}
  ELSE {}

TrackOf(ks) == IF \A k \in ks : track[k] = "skill" THEN "skill" ELSE "policy"

(* claim_cases of the base class.                                           *)
Claim(ks, rev) ==
  /\ Mutable /\ run.rev = rev
  /\ Claimed = {}
  /\ ks # {} /\ \A k \in ks : cases[k] = "pending"
  /\ TrackOf(ks) = "skill" => Cardinality(ks) = 1
  /\ TrackOf(ks) = "policy" => ks = Pending({"policy"}) /\ Cardinality(ks) >= MinPolicyCases
  /\ Executions(TrackOf(ks)) < MaxExecutions
  /\ Mark(ks, "claimed")
  /\ run' = [run EXCEPT !.status = "running", !.rev = @ + 1]
  /\ UNCHANGED results

(* claim_cases: the claim that is there already is returned again.          *)
ClaimOrResume(ks, rev) ==
  \/ /\ Claimed = ks /\ ks # {}
     /\ run.status = "running" /\ run.rev = rev + 1
     /\ UNCHANGED runVars
  \/ Claim(ks, rev)

RecordNew(r, rev) ==
  /\ run.status = "running" /\ run.rev = rev
  /\ r.cases = Claimed
  /\ \A k \in r.cases : track[k] = r.track
  /\ Executions(r.track) < MaxExecutions /\ run.round < MaxRunRounds
  /\ results' = results \cup {r}
  /\ Mark(r.cases, "completed")
  /\ run' = [run EXCEPT !.status = "open", !.rev = @ + 1, !.round = @ + 1]

(* record_result: the ID of a result is made of its run and track.          *)
RecordResult(r, rev) ==
  \/ /\ r \in results /\ run.rev = rev + 1
     /\ \A k \in r.cases : cases[k] = "completed"
     /\ UNCHANGED runVars
  \/ /\ \A s \in results : s.track # r.track
     /\ RecordNew(r, rev)

StatusAfter(action) == IF action = "stop" THEN "stopped" ELSE "escalated"
CompleteNew_TrustsDecision(action, rev) ==
  /\ Mutable /\ run.rev = rev
  /\ Claimed = {}
  /\ run' = [run EXCEPT !.status = StatusAfter(action), !.rev = @ + 1]
  /\ UNCHANGED <<cases, results>>
CompleteNew(action, rev) ==
  /\ Mutable /\ run.rev = rev
  /\ Claimed = {}
  /\ action = "stop" => Pending(Tracks) = {}
  /\ run' = [run EXCEPT !.status = StatusAfter(action), !.rev = @ + 1]
  /\ UNCHANGED <<cases, results>>

(* complete_run: the same decision, of which a lineage has but one that is  *)
(* terminal, completes the same revision again.                             *)
CompleteRun(action, rev) ==
  /\ action # "continue"
  /\ \/ /\ run # NoRun /\ run.status = StatusAfter(action) /\ run.rev = rev + 1
        /\ UNCHANGED runVars
     \/ CompleteNew(action, rev)

(* What _verify_semantic_events replays: each claim and each result is one  *)
(* revision of the run, and completes the cases that it claimed.            *)
EventsVerify ==
  /\ run.rev = 2 * Cardinality(results) + (IF Claimed # {} THEN 1 ELSE 0)
                 + (IF Mutable THEN 0 ELSE 1)
  /\ {k \in Case : cases[k] = "completed"} = UNION {r.cases : r \in results}

(* verify_state.                                                            *)
RunVerifies ==
  run # NoRun =>
    /\ run.round = Cardinality(results)
    /\ run.status = "running" <=> Claimed # {}
    /\ \A r \in results : /\ \A k \in r.cases : track[k] = r.track
                          /\ \A s \in results : s = r \/ s.cases \cap r.cases = {}
    /\ EventsVerify
=============================================================================
