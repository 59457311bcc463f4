------------------------------ MODULE MultiTrack ------------------------------
(***************************************************************************)
(* The integrated loop A0 -> A1 -> A2: IntegratedMultiTrackEvolutionLab    *)
(* (src/evoagent/lab/integrated_multitrack.py), which evaluates an agent,  *)
(* lets one of its components be evolved by its executor, commits what is  *)
(* live as the next snapshot, and goes on until the stop rule or its       *)
(* policy ends the run.  It works over five files without a transaction    *)
(* over two of them, can be stopped anywhere and is then called again:     *)
(* every stage looks for what was done of it before.                       *)
(*                                                                         *)
(* job[w] is one process in run(); it has the stage (pc), the round, and   *)
(* what it has read and not used yet.  Other people move the components    *)
(* and admit cases.                                                        *)
(***************************************************************************)
EXTENDS CompositeLineage, IntegratedRun

CONSTANTS Process,
          Failed,    \* the cases of the tasks that the first snapshot fails
          Evolved,   \* the version that either executor promotes
          Outsiders, \* whether other people act
          MaxStops,  \* bound: how often a process stops, or Unbounded
          Unbounded,
          MaxRev     \* bound: the moves of both components

(* The tasks of a track pass with the version that its executor promotes.   *)
ASSUME MultiTrackAssumption ==
  Base \in Version /\ Evolved \in Version /\ Evolved \in Good

VARIABLES job, stops, packaged,
          lab,   \* for each track, how far its executor's laboratory has come
          pairs  \* history: the pairs of bindings that were live at one time
vars == <<live, lineageVars, runVars, job, stops, packaged, lab, pairs>>

Idle == [pc |-> "idle"]
NoManifest == [round |-> 0]

TypeOK == LineageTypeOK /\ RunTypeOK(Version)

Init ==
  /\ LineageInit /\ RunInit
  /\ job = [p \in Process |-> Idle]
  /\ stops = MaxStops
  /\ packaged = FALSE
  /\ lab = [t \in Tracks |-> 0]
  /\ pairs = {live}

GotoRound(p, pc, round) == job' = [job EXCEPT ![p] = [pc |-> pc, round |-> round]]
Goto(p, pc) == GotoRound(p, pc, job[p].round)
Done(p) == job' = [job EXCEPT ![p] = Idle]
SameFiles == UNCHANGED <<live, lineageVars, runVars, packaged>>
SameWorld == UNCHANGED <<stops, lab, pairs>>

Component(round) == IF round = 1 THEN "skill" ELSE "policy"

-----------------------------------------------------------------------------
(* Reading the live components: version and revision of each are four reads *)

BeginReading(p, pc, man) ==
  job' = [job EXCEPT ![p] = [pc |-> "read", next |-> pc, round |-> @.round, man |-> man,
                             reads |-> <<>>]]

Read(p) ==
  /\ job[p].pc = "read"
  /\ LET now == <<live.skill.v, live.skill.rev, live.policy.v, live.policy.rev>>
         i == Len(job[p].reads) + 1
     IN job' = [job EXCEPT ![p].reads = Append(@, now[i]),
                           ![p].pc = IF i = 4 THEN job[p].next ELSE "read"]
  /\ SameFiles /\ SameWorld

Bound(p, round) ==
  LET r == job[p].reads
  IN [round |-> round, skill |-> [v |-> r[1], rev |-> r[2]],
      policy |-> [v |-> r[3], rev |-> r[4]]]

-----------------------------------------------------------------------------
(* _context and _ensure_run_and_initial_snapshot *)

Start(p) ==
  /\ job[p] = Idle /\ ~packaged
  /\ snapshots = <<>> => live.skill = [v |-> Base, rev |-> 0]
  /\ GotoRound(p, "create", 0)
  /\ SameFiles /\ SameWorld

Create(p) ==
  /\ job[p].pc = "create"
  /\ CreateRun
  /\ IF snapshots = <<>> THEN BeginReading(p, "register", NoManifest) ELSE Goto(p, "evaluate")
  /\ UNCHANGED <<live, lineageVars, packaged>> /\ SameWorld

Register(p) ==
  /\ job[p].pc = "register"
  /\ RegisterInitial(Bound(p, 0))
  /\ GotoRound(p, "evaluate", 0)
  /\ UNCHANGED <<live, evaluations, decisions, runVars, packaged>> /\ SameWorld

-----------------------------------------------------------------------------
(* The evaluation of a round, and the decision on it *)

Scores(round) == [skill |-> round >= 1, policy |-> round >= 2]

AfterEvaluation(p) == IF job[p].round = 0 THEN "admit" ELSE "decide"

EvaluateSkip(p) ==
  /\ job[p].pc = "evaluate" /\ Len(evaluations) > job[p].round
  /\ evaluations[job[p].round + 1] = Scores(job[p].round)
  /\ Goto(p, AfterEvaluation(p))
  /\ SameFiles /\ SameWorld

(* _validate_component_bindings: the checkpoint of the round is given.      *)
RuntimeMatches(m, round) ==
  /\ m.skill.v = live.skill.v
  /\ m.policy.v = IF round = 2 THEN Evolved ELSE Base

Outcome(m) == [skill |-> m.skill.v \in Good, policy |-> m.policy.v \in Good]

(* The time of the evaluation is read here: it must not lie before the      *)
(* creation of the manifest it is recorded for.                             *)
EvaluateDerive(p) ==
  /\ job[p].pc = "evaluate" /\ Len(evaluations) = job[p].round
  /\ RuntimeMatches(Active, job[p].round)
  /\ job' = [job EXCEPT ![p] =
       [pc |-> "record_evaluation", round |-> @.round, outcome |-> Outcome(Active),
        created |-> {snapshots[i] : i \in DOMAIN snapshots}
                      \cup {job[q].man : q \in {q \in Process : job[q].pc \in {"read", "commit"}}}]]
  /\ SameFiles /\ SameWorld

(* evaluate_active finds the active snapshot again.                         *)
EvaluateRecord(p) ==
  /\ job[p].pc = "record_evaluation"
  /\ Active \in job[p].created
  /\ Revision > 0 => Len(evaluations) = Revision
  /\ RecordEvaluation(Revision, job[p].outcome)
  /\ IF Outcome(Active) = job[p].outcome /\ job[p].outcome = Scores(job[p].round)
       THEN Goto(p, AfterEvaluation(p)) ELSE Done(p)
  /\ UNCHANGED <<live, snapshots, decisions, runVars, packaged>> /\ SameWorld

Admit(p) ==
  /\ job[p].pc = "admit"
  /\ \E k \in Failed : AdmitCase(k)
  /\ UNCHANGED <<live, lineageVars, job, packaged>> /\ SameWorld

AdmitDone(p) ==
  /\ job[p].pc = "admit"
  /\ \A k \in Failed : cases[k] # "absent"
  /\ IF Mutable THEN Goto(p, "decide") ELSE Done(p)
  /\ SameFiles /\ SameWorld

AfterDecision(p) == IF job[p].round = 2 THEN "complete" ELSE "intervene"
NextRound(p) == IF job[p].round = 2 THEN 2 ELSE job[p].round + 1

DecideSkip(p) ==
  /\ job[p].pc = "decide" /\ Len(decisions) > job[p].round
  /\ GotoRound(p, AfterDecision(p), NextRound(p))
  /\ SameFiles /\ SameWorld

DecideRead(p) ==
  /\ job[p].pc = "decide" /\ Len(decisions) = job[p].round
  /\ LET pending == Pending(IF job[p].round = 1 THEN {"policy"} ELSE Tracks)
     IN /\ job[p].round = 2 => pending = {}
        /\ job' = [job EXCEPT ![p] = [pc |-> "record_decision", round |-> @.round,
                                      pending |-> pending]]
  /\ SameFiles /\ SameWorld

DecideRecord(p) ==
  /\ job[p].pc = "record_decision"
  /\ RecordDecision(Revision, job[p].pending)
  /\ IF decisions'[Len(decisions')].action = (IF job[p].round = 2 THEN "stop" ELSE "continue")
       THEN GotoRound(p, AfterDecision(p), NextRound(p)) ELSE Done(p)
  /\ UNCHANGED <<live, snapshots, evaluations, runVars, packaged>> /\ SameWorld

-----------------------------------------------------------------------------
(* The intervention of a round: its executor works on the batch it claimed, *)
(* then what is live becomes the next snapshot                              *)

InterveneSkip(p) ==
  /\ job[p].pc = "intervene" /\ Executions(Component(job[p].round)) > 0
  /\ Goto(p, "build")
  /\ SameFiles /\ SameWorld

IntervenePlan(p) ==
  /\ job[p].pc = "intervene" /\ Executions(Component(job[p].round)) = 0
  /\ \E plan \in Plans :
       /\ TrackOf(plan.cases) = Component(job[p].round)
       /\ job' = [job EXCEPT ![p] = [pc |-> "claim", round |-> @.round, plan |-> plan,
                                     rev |-> run.rev]]
  /\ SameFiles /\ SameWorld

InterveneClaim(p) ==
  /\ job[p].pc = "claim" /\ run.rev = job[p].rev
  /\ ClaimOrResume(job[p].plan.cases, job[p].plan.rev)
  /\ job' = [job EXCEPT ![p] = [pc |-> "execute", round |-> @.round, cases |-> @.plan.cases,
                                mine |-> 0]]
  /\ UNCHANGED <<live, lineageVars, packaged>> /\ SameWorld

(* The executor runs the laboratories of its track, which leave durable     *)
(* steps in databases of their own: one agent-skill campaign; or a program, *)
(* a training, their acceptance, and the promotion of the trained policy.   *)
(* The campaign that is open, the program that is bound, the training that  *)
(* is registered, the promotion that has begun: only who left them so can   *)
(* go on from there (the other steps are found and passed over).  What the  *)
(* Laboratories module says of each of their steps is summed up here.       *)
Script(t) ==
  IF t = "skill"
  THEN <<"open", "candidate ready", "evaluation pending", "submitted", "promoted", "completed">>
  ELSE <<"bound", "program", "training", "accepted", "begun", "activated", "packed">>
Unrepeatable == {"open", "evaluation pending", "bound", "training", "begun", "activated"}

Torn(t) == lab[t] # 0 /\ Script(t)[lab[t]] \in Unrepeatable

Promoted(t) == live[t].v = Evolved

(* One step, which a process makes after its own or finds the laboratory at.*)
InterveneExecute(p) ==
  /\ job[p].pc = "execute"
  /\ LET t == Component(job[p].round) IN
     /\ lab[t] < Len(Script(t))
     /\ Torn(t) => lab[t] = job[p].mine
     /\ lab' = [lab EXCEPT ![t] = @ + 1]
     /\ job' = [job EXCEPT ![p].mine = lab'[t]]
     /\ IF Script(t)[lab'[t]] \in {"promoted", "activated"}
          THEN \/ live[t].rev = 0 /\ live' = [live EXCEPT ![t] = [v |-> Evolved, rev |-> 1]]
               \/ t = "skill" /\ Promoted(t) /\ UNCHANGED live
          ELSE UNCHANGED live
  /\ pairs' = pairs \cup {live'}
  /\ UNCHANGED <<lineageVars, runVars, packaged, stops>>

(* The laboratories have returned, and the executor looks at what is active.*)
InterveneExecuted(p) ==
  /\ job[p].pc = "execute"
  /\ LET t == Component(job[p].round) IN
     /\ lab[t] = Len(Script(t))
     /\ Promoted(t)
     /\ t = "policy" => live[t].rev = 1
  /\ job' = [job EXCEPT ![p] = [pc |-> "executed", round |-> @.round, cases |-> @.cases]]
  /\ SameFiles /\ SameWorld

InterveneLook(p) ==
  /\ job[p].pc = "executed"
  /\ job' = [job EXCEPT ![p] = [pc |-> "record", round |-> @.round, rev |-> run.rev,
       result |-> [track |-> Component(@.round), cases |-> @.cases, v |-> Evolved]]]
  /\ SameFiles /\ SameWorld

InterveneRecord(p) ==
  /\ job[p].pc = "record"
  /\ RecordResult(job[p].result, job[p].rev)
  /\ Goto(p, "build")
  /\ UNCHANGED <<live, lineageVars, packaged>> /\ SameWorld

BuildSkip(p) ==
  /\ job[p].pc = "build" /\ Executions(Component(job[p].round)) = 1
  /\ Revision # job[p].round - 1
  /\ Goto(p, "evaluate")
  /\ SameFiles /\ SameWorld

BuildStart(p) ==
  /\ job[p].pc = "build" /\ Executions(Component(job[p].round)) = 1
  /\ Revision = job[p].round - 1
  /\ BeginReading(p, "child", NoManifest)
  /\ SameFiles /\ SameWorld

(* build_child_from_components; commit then reads the live components again.*)
BuildChild(p) ==
  /\ job[p].pc = "child"
  /\ LET m == Bound(p, Active.round + 1) IN
     /\ Changed(Active, m, Component(job[p].round))
     /\ BeginReading(p, "commit", m)
  /\ SameFiles /\ SameWorld

StillLive(p) == Bound(p, job[p].man.round) = job[p].man

CommitChild(p) ==
  /\ job[p].pc = "commit"
  /\ StillLive(p)
  /\ Commit(job[p].man, job[p].round - 1)
  /\ Goto(p, "evaluate")
  /\ UNCHANGED <<live, evaluations, decisions, runVars, packaged>> /\ SameWorld

-----------------------------------------------------------------------------
(* _ensure_integrated_completion and the package *)

CompleteSkip(p) ==
  /\ job[p].pc = "complete" /\ ~Mutable
  /\ IF run.status = "stopped" THEN Goto(p, "package") ELSE Done(p)
  /\ SameFiles /\ SameWorld

RoundsAgree(d) == run.round = Revision /\ Len(decisions) = run.round + 1

(* complete_from_latest_decision of service_hardened.py                     *)
CompleteCheck(p) ==
  /\ job[p].pc = "complete" /\ Mutable
  /\ LET d == decisions[Len(decisions)] IN
     /\ Len(decisions) = Len(snapshots)
     /\ d.cases = Pending(Tracks)
     /\ RoundsAgree(d)
     /\ d.action # "continue"
     /\ job' = [job EXCEPT ![p] = [pc |-> "complete_run", round |-> @.round,
                                   action |-> d.action, rev |-> run.rev]]
  /\ SameFiles /\ SameWorld

Complete(p) ==
  /\ job[p].pc = "complete_run"
  /\ CompleteRun(job[p].action, job[p].rev)
  /\ IF run'.status = "stopped" THEN Goto(p, "package") ELSE Done(p)
  /\ UNCHANGED <<live, lineageVars, packaged>> /\ SameWorld

Package(p) ==
  /\ job[p].pc = "package"
  /\ packaged' = TRUE
  /\ Done(p)
  /\ UNCHANGED <<live, lineageVars, runVars>> /\ SameWorld

-----------------------------------------------------------------------------
(* A call raises and returns, or its process is stopped, wherever it is.    *)
Stop(p) ==
  /\ job[p] # Idle
  /\ stops # 0
  /\ stops' = IF stops = Unbounded THEN stops ELSE stops - 1
  /\ Done(p)
  /\ SameFiles /\ UNCHANGED <<lab, pairs>>

(* Other people promote or roll back a component, or admit a case.          *)
Move(t) ==
  /\ Outsiders /\ live.skill.rev + live.policy.rev < MaxRev
  /\ \E v \in Version \ {live[t].v} :
       live' = [live EXCEPT ![t] = [v |-> v, rev |-> @.rev + 1]]
  /\ pairs' = pairs \cup {live'}
  /\ UNCHANGED <<lineageVars, runVars, job, stops, packaged, lab>>

AdmitOther(k) ==
  /\ Outsiders /\ k \notin Failed
  /\ AdmitCase(k)
  /\ UNCHANGED <<live, lineageVars, job, packaged>> /\ SameWorld

Step(p) ==
  \/ Start(p) \/ Create(p) \/ Read(p) \/ Register(p)
  \/ EvaluateSkip(p) \/ EvaluateDerive(p) \/ EvaluateRecord(p)
  \/ Admit(p) \/ AdmitDone(p) \/ DecideSkip(p) \/ DecideRead(p) \/ DecideRecord(p)
  \/ InterveneSkip(p) \/ IntervenePlan(p) \/ InterveneClaim(p) \/ InterveneExecute(p)
  \/ InterveneExecuted(p) \/ InterveneLook(p) \/ InterveneRecord(p)
  \/ BuildSkip(p) \/ BuildStart(p) \/ BuildChild(p) \/ CommitChild(p)
  \/ CompleteSkip(p) \/ CompleteCheck(p) \/ Complete(p) \/ Package(p)

Next ==
  \/ \E p \in Process : Step(p) \/ Stop(p)
  \/ \E t \in {"skill", "policy"} : Move(t)
  \/ \E k \in Case : AdmitOther(k)

Spec == Init /\ [][Next]_vars

(* Whoever is stopped is started again, and stopped finitely often.         *)
Fairness == \A p \in Process : WF_vars(Step(p))
FairSpec == Spec /\ Fairness

-----------------------------------------------------------------------------
(* Properties *)

(* Components are read at four times and never locked, and other people may *)
(* move them meanwhile; yet a committed child binds versions that were live *)
(* together, and the one that moved is the one that the executor of its     *)
(* round was recorded with.  (Nothing reads the components of the first     *)
(* snapshot again.)                                                         *)
SnapshotsAreEarned ==
  \A i \in DOMAIN snapshots :
    i > 1 =>
      /\ [skill |-> snapshots[i].skill, policy |-> snapshots[i].policy] \in pairs
      /\ \E r \in results : r.track = Component(i - 1) /\ r.v = snapshots[i][r.track].v

(* docs/30: "terminal decision round must equal both the integrated         *)
(* execution round and active composite round" -- and stays so, with the    *)
(* decision taken on what is active; a stopped run left no case behind, and *)
(* both components of the agent it ends with pass their tasks.              *)
TerminalRoundsAgree ==
  run # NoRun /\ ~Mutable =>
    LET d == decisions[Len(decisions)] IN
    /\ run.round + 1 = Len(snapshots) /\ Len(decisions) = Len(snapshots)
    /\ (d.action = "stop") = (run.status = "stopped")
    /\ run.status = "stopped" =>
         /\ Pending(Tracks) = {}
         /\ Outcome(Active) = [skill |-> TRUE, policy |-> TRUE]

(* verify_state of each file, which raises for ever once it does, holds     *)
(* whatever two processes do at the same time.                              *)
EverythingVerifies == TypeOK /\ LineageVerifies /\ RunVerifies

(* A stop tears the laboratory of an executor when no process is in it that *)
(* could go on; the batch of cases stays claimed.                           *)
LeftTorn(t) ==
  /\ Torn(t)
  /\ \A p \in Process :
       ~(job[p].pc = "execute" /\ Component(job[p].round) = t /\ job[p].mine = lab[t])
ALaboratoryIsTorn == \E t \in Tracks : LeftTorn(t)
(* ... and should leave the evidence package behind.                        *)
RunIsPackaged == <>(packaged \/ ALaboratoryIsTorn)
=============================================================================
