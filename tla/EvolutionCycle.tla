--------------------------- MODULE EvolutionCycle ---------------------------
(***************************************************************************)
(* The governed evolution cycle (campaigns/cycle.py over cycles/service.py)*)
(* with the databases it writes: the trace store, the skill registry       *)
(* (skills/sqlite_registry.py), the model evidence and the campaigns; and  *)
(* the lab that promotes what the cycle proposes (lab/                     *)
(* automatic_local_tool.py).  Versions of the one skill are the numbers    *)
(* 0.., in the order of their minor version.                               *)
(*                                                                         *)
(* A job processes one trace: it stores it, diagnoses it and, as its layer *)
(* says, proposes a skill, a model ticket or a repair ticket in a campaign *)
(* of its own.  Every step is one transaction or one read; jobs interleave *)
(* and stop anywhere, leaving what they wrote.                             *)
(***************************************************************************)
EXTENDS Campaigns

CONSTANTS Trace,
          layer,    \* what each trace is found to show
          task,     \* the task each trace is an execution of
          patch,    \* the patch that the skill backend makes of it
          Process, Reviewer, Cycle,
          MinTraces, MinTasks,
          MaxVersion, \* bound: the skills that are proposed
          MaxMoves    \* bound: the promotions and rollbacks

VARIABLES stored,    \* the traces in the trace store, with the version that ran
          skills,    \* the rows of the skill registry
          head,      \* its head: the active version and the revision
          evidence,  \* the rows of model_evidence, by trace
          job
skillVars == <<skills, head>>
vars == <<campaignVars, stored, skillVars, evidence, job>>

Layers == {"passed", "untrusted", "unclear", "skill", "model", "tool"}
Version == 0..MaxVersion
NoSpec == [parent |-> -1, patch |-> "none"]
NoSkill == [status |-> "absent", spec |-> NoSpec]
Idle == [pc |-> "idle"]

SkillCandidate(v, spec) == [kind |-> "skill", version |-> v, spec |-> spec]
ModelTicket(traces) == [kind |-> "model", traces |-> traces]
RepairTicket == [kind |-> "tool"]

(* The target of the campaign of a trace that ran on version v.             *)
TargetOf(tr, v) ==
  IF layer[tr] = "skill" THEN [kind |-> "skill", version |-> v] ELSE [kind |-> layer[tr]]
(* What the fingerprint is made of, beside the target.                      *)
FingerprintOf(tr) == IF layer[tr] = "skill" THEN patch[tr] ELSE "settings"
RequiredApprovals(tr) == IF layer[tr] = "model" THEN 2 ELSE 1

CycleAssumption ==
  /\ MaxVersion \in Nat
  /\ Cycle \in Actor /\ Reviewer \subseteq Actor
  /\ \A tr \in Trace, v \in Version :
       /\ layer[tr] \in {"skill", "model", "tool"} =>
            TargetOf(tr, v) \in Target /\ FingerprintOf(tr) \in Fingerprint
       /\ \A w \in Version :
            SkillCandidate(w, [parent |-> v, patch |-> patch[tr]]) \in Candidate
  /\ \A traces \in SUBSET Trace : ModelTicket(traces) \in Candidate
  /\ RepairTicket \in Candidate

Existing == {v \in Version : skills[v] # NoSkill}
WasActive == {v \in Version : skills[v].status \in {"active", "superseded"}}

Init ==
  /\ CampaignsInit
  /\ stored = {}
  /\ skills = [v \in Version |-> IF v = 0 THEN [status |-> "active", spec |-> NoSpec] ELSE NoSkill]
  /\ head = [active |-> 0, rev |-> 0]
  /\ evidence = {}
  /\ job = [p \in Process |-> Idle]

Continue(p, new) == job' = [job EXCEPT ![p] = new]
Leave(p) == Continue(p, Idle)
At(p, pc) == job[p].pc = pc

-----------------------------------------------------------------------------
(* The transactions of the skill registry; register_initial is in Init.     *)

AddCandidate(v, spec) ==
  /\ skills[v] = NoSkill
  /\ spec.parent \in Existing
  /\ skills' = [skills EXCEPT ![v] = [status |-> "candidate", spec |-> spec]]
  /\ UNCHANGED head

MoveHead(v, rev) ==
  /\ head.rev = rev
  /\ rev < MaxMoves
  /\ skills' = [skills EXCEPT ![head.active].status = "superseded", ![v].status = "active"]
  /\ head' = [active |-> v, rev |-> rev + 1]

PromoteSkill(v, base, rev) ==
  /\ skills[v].status = "candidate"
  /\ head.active = base /\ skills[v].spec.parent = base
  /\ MoveHead(v, rev)

RejectSkill(v) ==
  /\ skills[v].status = "candidate"
  /\ skills' = [skills EXCEPT ![v].status = "rejected"]
  /\ UNCHANGED head

RollbackSkill(v) ==
  /\ v # head.active
  /\ v \in WasActive
  /\ MoveHead(v, head.rev)

-----------------------------------------------------------------------------
(* process *)

(* The store of the lab takes a trace a second time, if it is the same,     *)
(* without storing it again; v is the version that was executed.            *)
Observe(p, tr, v) ==
  /\ job[p] = Idle
  /\ v \in WasActive
  /\ \A w \in Version : <<tr, w>> \in stored => w = v
  /\ stored' = stored \cup {<<tr, v>>}
  /\ Continue(p, CASE layer[tr] = "skill" -> [pc |-> "active", tr |-> tr, on |-> v]
                   [] layer[tr] = "model" -> [pc |-> "evidence", tr |-> tr, on |-> v]
                   [] layer[tr] = "tool" -> [pc |-> "reserve", tr |-> tr, on |-> v, show |-> {}]
                   [] OTHER -> Idle)
  /\ UNCHANGED <<campaignVars, skillVars, evidence>>

(* A trace of a version that is no longer active is not evolved from.       *)
ReadActive(p) ==
  /\ At(p, "active")
  /\ IF head.active # job[p].on THEN Leave(p)
     ELSE Continue(p, [pc |-> "reserve", tr |-> job[p].tr, on |-> job[p].on, show |-> {}])
  /\ UNCHANGED <<campaignVars, stored, skillVars, evidence>>

Ready(traces) ==
  /\ Cardinality(traces) >= MinTraces
  /\ Cardinality({task[tr] : tr \in traces}) >= MinTasks

AddModelEvidence(p) ==
  /\ At(p, "evidence")
  /\ evidence' = evidence \cup {job[p].tr}
  /\ IF Ready(evidence')
       THEN Continue(p, [pc |-> "reserve", tr |-> job[p].tr, on |-> job[p].on, show |-> evidence'])
       ELSE Leave(p)
  /\ UNCHANGED <<campaignVars, stored, skillVars>>

(* A campaign that is reused has, or will have, its candidate already; a    *)
(* conflict escalates the trace.                                            *)
Reserve(p) ==
  /\ At(p, "reserve")
  /\ LET j == job[p]
         g == TargetOf(j.tr, j.on)
     IN \/ \E c \in CampaignId :
             /\ InsertCampaign(c, g, FingerprintOf(j.tr), Cycle, RequiredApprovals(j.tr), "open", 0)
             /\ Continue(p, [pc |-> IF layer[j.tr] = "skill" THEN "version" ELSE "attach",
                            tr |-> j.tr, on |-> j.on, show |-> j.show, c |-> c, v |-> 0])
        \/ /\ OpenOn(g) # {}
           /\ Leave(p)
           /\ UNCHANGED campaignVars
  /\ UNCHANGED <<stored, skillVars, evidence>>

NextVersion_AddsFirst(p) ==
  /\ At(p, "version")
  /\ Continue(p, [job[p] EXCEPT !.pc = "add", !.v = 1 + CHOOSE v \in Existing : \A w \in Existing : w <= v])
  /\ UNCHANGED <<campaignVars, stored, skillVars, evidence>>
(* The next minor version after the versions there are now.                 *)
NextVersion(p) ==
  /\ At(p, "version")
  /\ Continue(p, [job[p] EXCEPT !.pc = "attach", !.v = 1 + CHOOSE v \in Existing : \A w \in Existing : w <= v])
  /\ UNCHANGED <<campaignVars, stored, skillVars, evidence>>

SpecOf(j) == [parent |-> j.on, patch |-> patch[j.tr]]
ArtifactOf(j) ==
  CASE layer[j.tr] = "skill" -> SkillCandidate(j.v, SpecOf(j))
    [] layer[j.tr] = "model" -> ModelTicket(j.show)
    [] OTHER -> RepairTicket

(* The revision passed is the one the reservation returned.                 *)
Attach(p) ==
  /\ At(p, "attach")
  /\ job[p].v \in Version
  /\ AttachCandidate(job[p].c, ArtifactOf(job[p]), 0, 0)
  /\ IF layer[job[p].tr] = "skill" THEN Continue(p, [job[p] EXCEPT !.pc = "add"]) ELSE Leave(p)
  /\ UNCHANGED <<stored, skillVars, evidence>>

(* A model ticket that cannot be planned cancels its campaign, if that is   *)
(* as it was when it is read again.                                         *)
CancelModel(p) ==
  /\ At(p, "attach") /\ layer[job[p].tr] = "model"
  /\ Transition(job[p].c, "cancelled", camp[job[p].c].rev, 0, 0)
  /\ camp[job[p].c].state \in InitialStates
  /\ Leave(p)
  /\ UNCHANGED <<stored, skillVars, evidence>>

Add(p) ==
  /\ At(p, "add")
  /\ job[p].v \in Version
  /\ AddCandidate(job[p].v, SpecOf(job[p]))
  /\ Leave(p)
  /\ UNCHANGED <<campaignVars, stored, evidence>>

-----------------------------------------------------------------------------
(* The lab *)

(* A campaign that is the only one its target ever had, with a skill.       *)
LabCampaign(c) ==
  /\ camp[c].state \notin {"absent", "open"} /\ camp[c].target.kind = "skill"
  /\ camp[c].cand # NoCandidate
  /\ \A d \in CampaignId : Exists(d) /\ camp[d].target = camp[c].target => d = c
Proposed(c) == camp[c].cand.version
Base(c) == camp[c].target.version
(* _candidate_record: what the registry has of that parent and patch.       *)
CandidateRecord(c) ==
  {v \in Existing : skills[v].spec = camp[c].cand.spec /\ skills[v].status # "rejected"}

(* _recover_candidate: the registry gets what its campaign holds.           *)
RecoverCandidate(c) ==
  /\ LabCampaign(c)
  /\ CandidateRecord(c) = {}
  /\ AddCandidate(Proposed(c), camp[c].cand.spec)
  /\ UNCHANGED <<campaignVars, stored, evidence, job>>

(* The steps of submit_evaluation, of the reviewers, and of an operator who *)
(* closes a campaign; each passes the revision it has just read.            *)
Evaluate(c) ==
  /\ LabCampaign(c)
  /\ CandidateRecord(c) # {}
  /\ head.active = Base(c)
  /\ \E to \in {"evaluation_pending", "approval_pending"} : Transition(c, to, camp[c].rev, 0, 0)
  /\ UNCHANGED <<stored, skillVars, evidence, job>>

Review(c, a) ==
  /\ RecordApproval(c, a, "approve", camp[c].rev, 0, 0)
  /\ UNCHANGED <<stored, skillVars, evidence, job>>

CloseCampaign(c) ==
  /\ Transition(c, "cancelled", camp[c].rev, 0, 0)
  /\ UNCHANGED <<stored, skillVars, evidence, job>>

(* validate_authorized_candidate *)
MayPromote(c) ==
  /\ camp[c].state = "authorized"
  /\ CandidateRecord(c) = {Proposed(c)}
  /\ head.active = Base(c)

(* The lab validates and reads the revision, promotes, and closes the       *)
(* campaign if the candidate is active by now, whoever promoted it.         *)
Validate(p, c) ==
  /\ job[p] = Idle
  /\ LabCampaign(c)
  /\ MayPromote(c)
  /\ Continue(p, [pc |-> "revision", c |-> c])
  /\ UNCHANGED <<campaignVars, stored, skillVars, evidence>>
ReadRevision(p) ==
  /\ At(p, "revision")
  /\ Continue(p, [pc |-> "promote", c |-> job[p].c, rev |-> head.rev])
  /\ UNCHANGED <<campaignVars, stored, skillVars, evidence>>
Promote(p) ==
  /\ At(p, "promote")
  /\ PromoteSkill(Proposed(job[p].c), Base(job[p].c), job[p].rev)
  /\ Leave(p)
  /\ UNCHANGED <<campaignVars, stored, evidence>>
Complete(c) ==
  /\ LabCampaign(c)
  /\ camp[c].state = "authorized"
  /\ head.active \in CandidateRecord(c)
  /\ Transition(c, "completed", camp[c].rev, 0, 0)
  /\ UNCHANGED <<stored, skillVars, evidence, job>>

(* Other evaluations reject candidates and roll the skill back.             *)
Reject(v) == RejectSkill(v) /\ UNCHANGED <<campaignVars, stored, evidence, job>>
Rollback(v) == RollbackSkill(v) /\ UNCHANGED <<campaignVars, stored, evidence, job>>

Stop(p) ==
  /\ job[p] # Idle
  /\ Leave(p)
  /\ UNCHANGED <<campaignVars, stored, skillVars, evidence>>

Next ==
  \/ \E p \in Process :
       \/ \E tr \in Trace, v \in Version : Observe(p, tr, v)
       \/ ReadActive(p) \/ AddModelEvidence(p) \/ Reserve(p) \/ NextVersion(p)
       \/ Attach(p) \/ CancelModel(p) \/ Add(p)
       \/ \E c \in CampaignId : Validate(p, c)
       \/ ReadRevision(p) \/ Promote(p) \/ Stop(p)
  \/ \E c \in CampaignId :
       \/ RecoverCandidate(c) \/ Evaluate(c) \/ CloseCampaign(c) \/ Complete(c)
       \/ \E a \in Reviewer : Review(c, a)
  \/ \E v \in Version : Reject(v) \/ Rollback(v)

Spec == Init /\ [][Next]_vars

-----------------------------------------------------------------------------
(* Properties *)

(* Every version that was not there from the beginning is, with its parent *)
(* and its patch, the frozen candidate of a campaign; it was never active  *)
(* unless people approved that campaign; and a campaign that is completed  *)
(* had its candidate promoted.  docs/09: candidate artifacts are attached  *)
(* before review, and the service never promotes by itself.                *)
SkillsAreGoverned ==
  /\ {v \in Version : skills[v].status = "active"} = {head.active}
  /\ \A v \in Existing \ {0} : \E c \in CampaignId :
       /\ Exists(c) /\ camp[c].cand = SkillCandidate(v, skills[v].spec)
       /\ v \in WasActive => Cardinality(Approvers(c)) >= camp[c].need
  /\ \A c \in CampaignId : camp[c].state = "completed" => Proposed(c) \in WasActive

(* Model evidence is gathered by all jobs, is not lost when one stops, and *)
(* never counts a trace twice or one that does not qualify: every model    *)
(* ticket that a campaign holds rests on enough stored traces of enough    *)
(* different tasks.                                                        *)
ModelTicketsHaveEvidence ==
  \A c \in CampaignId :
    Exists(c) /\ camp[c].cand # NoCandidate /\ camp[c].target.kind = "model" =>
      LET traces == camp[c].cand.traces
      IN /\ \A tr \in traces : layer[tr] = "model" /\ \E v \in Version : <<tr, v>> \in stored
         /\ Cardinality(traces) >= MinTraces
         /\ Cardinality({task[tr] : tr \in traces}) >= MinTasks
=============================================================================
