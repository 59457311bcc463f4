--------------------------- MODULE ReleaseLifecycle ---------------------------
(***************************************************************************)
(* ReleaseLifecycleService (src/evoagent/release/lifecycle.py): a governed *)
(* campaign lets the release start, decisions of the stage gate move it    *)
(* through its stages, and a second campaign takes the candidate's traffic *)
(* away again.  Campaigns and release registry are two databases, so that  *)
(* other callers, or a crash, may come between the steps of a call.        *)
(*                                                                         *)
(* What a campaign is for is its subject: the plan, or the rollback        *)
(* decision.  It stands for fingerprint and candidate.                     *)
(***************************************************************************)
EXTENDS ReleaseRegistry

CONSTANTS Plan, Worker,
          maker,     \* who created the plan, who took the decision
          producer,  \* who produced the evidence of a decision
          Crashes,   \* whether processes stop within a call
          closable   \* whose campaigns operators reject and cancel

Subject == Decision \cup {Plan}

ASSUME LifecycleAssumption ==
  /\ Plan \notin Decision
  /\ Fingerprint = Subject /\ Candidate = Subject
  /\ Target = Stage \cup {NoStage}
  /\ maker \in [Subject -> Actor] /\ producer \in [Decision -> Actor]
  /\ Crashes \in BOOLEAN /\ closable \subseteq Subject

VARIABLES job,
          cut  \* the subjects whose submission was cut short by a stop
vars == <<campaignVars, registryVars, job, cut>>

Idle == [pc |-> "idle"]
Down == [pc |-> "down"]
SubmitPcs == {"reserve", "attach", "bind", "submit", "finish"}
OperatorPcs == {"advance", "hold", "ready"}

(* rev is the revision that a call will pass, of the head or, at "finish",  *)
(* of the campaign.                                                         *)
Jobs == [pc: {"reserve"}, x: Subject, c: {NoCampaign}, rev: Nat]
          \cup [pc: (SubmitPcs \ {"reserve"}) \cup {"complete"},
                x: Subject, c: CampaignId, rev: Nat]
          \cup [pc: {"mark", "shadow"}, x: {Plan}, c: CampaignId, rev: Nat]
          \cup [pc: {"rollback"}, x: Decision, c: CampaignId, rev: Nat]
          \cup [pc: OperatorPcs, d: Decision, rev: Nat]

TypeOK ==
  /\ CampaignsTypeOK
  /\ RegistryTypeOK
  /\ job \in [Worker -> Jobs \cup {Idle, Down}]
  /\ cut \subseteq Subject

Init ==
  /\ CampaignsInit
  /\ RegistryInit
  /\ job = [w \in Worker |-> Idle]
  /\ cut = {}

-----------------------------------------------------------------------------
(* Checks against the campaign record *)

TargetOf(x) == IF x = Plan THEN NoStage ELSE stageOf[x]

Forbidden(x) == {maker[x]} \cup IF x = Plan THEN {} ELSE {producer[x]}

(* _validate_release_campaign and _validate_rollback_campaign: the latter   *)
(* compares the traffic at the reservation with that of the head now.       *)
CampaignMatches(c, x) ==
  /\ Exists(c)
  /\ camp[c].need = 2 /\ camp[c].gen = maker[x]
  /\ camp[c].target = TargetOf(x) /\ camp[c].fp = x /\ camp[c].cand = x
  /\ x # Plan => head.alloc = traffic[stageOf[x]]

ApprovalsAreValid(c, x) ==
  /\ Cardinality({a \in Actor : approvals[c][a] # "none"}) = 2
  /\ Cardinality(Approvers(c)) = 2
  /\ Approvers(c) \cap Forbidden(x) = {}

Authorized_NotChecked(c, x) == CampaignMatches(c, x)
Authorized(c, x) ==
  /\ camp[c].state = "authorized"
  /\ CampaignMatches(c, x)
  /\ ApprovalsAreValid(c, x)

CallIs(w, j) == job' = [job EXCEPT ![w] = j] /\ UNCHANGED cut
Goto(w, pc) == CallIs(w, [job[w] EXCEPT !.pc = pc])
Done(w) == CallIs(w, Idle)

-----------------------------------------------------------------------------
(* submit_plan and submit_rollback: after their first transaction both      *)
(* reserve, attach, bind and submit the campaign in the same way.           *)

BeginSubmission(w, x) ==
  /\ job[w] = Idle
  /\ CallIs(w, [pc |-> "reserve", x |-> x, c |-> NoCampaign, rev |-> 0])
  /\ UNCHANGED campaignVars

SubmitPlan(w) ==
  /\ RegisterPlan
  /\ BeginSubmission(w, Plan)

SubmitRollback(w, d) ==
  /\ head # NoHead
  /\ d \in decs
  /\ RecommendRollback(d, head.rev)
  /\ BeginSubmission(w, d)

SubmitReserve(w) ==
  /\ job[w].pc = "reserve"
  /\ \E c \in CampaignId, x \in {job[w].x} :
       \/ /\ ReuseCampaign(c, TargetOf(x), x)
          /\ CampaignMatches(c, x)
          /\ CallIs(w, [job[w] EXCEPT !.pc = "bind", !.c = c])
       \/ /\ InsertCampaign(c, TargetOf(x), x, maker[x], 2, "open", 0)
          /\ CallIs(w, [job[w] EXCEPT !.pc = "attach", !.c = c])
  /\ UNCHANGED registryVars

SubmitAttach(w) ==
  /\ job[w].pc = "attach"
  /\ AttachCandidate(job[w].c, job[w].x, 0, 0)
  /\ Goto(w, "bind")
  /\ UNCHANGED registryVars

(* The rollback campaign is bound with the head that recommend_rollback     *)
(* returned; nothing but this step can follow it.                           *)
SubmitBind(w) ==
  /\ job[w].pc = "bind"
  /\ LET c == job[w].c IN
     IF job[w].x = Plan
     THEN \/ head.rel = NoCampaign /\ BindRelease(c, head.rev)
          \/ head.rel = c /\ UNCHANGED registryVars
     ELSE head.rb = NoCampaign /\ BindRollback(c, head.rev)
  /\ Goto(w, "submit")
  /\ UNCHANGED campaignVars

SubmitToApproval(w) ==
  /\ job[w].pc = "submit"
  /\ LET c == job[w].c IN
     \/ /\ camp[c].state = "candidate_ready"
        /\ Transition(c, "evaluation_pending", camp[c].rev, 0, 0)
        /\ CallIs(w, [job[w] EXCEPT !.pc = "finish", !.rev = camp[c].rev + 1])
     \/ /\ camp[c].state # "candidate_ready"
        /\ Done(w)
        /\ UNCHANGED campaignVars
  /\ UNCHANGED registryVars

SubmitFinish(w) ==
  /\ job[w].pc = "finish"
  /\ Transition(job[w].c, "approval_pending", job[w].rev, 0, 0)
  /\ Done(w)
  /\ UNCHANGED registryVars

-----------------------------------------------------------------------------
(* Votes.  approve_release and approve_rollback refuse some people before   *)
(* they call the governance; whoever calls it without them, or calls        *)
(* approve_release for the campaign of a rollback, passes by these checks.  *)

Approve(a, c) ==
  /\ RecordApproval(c, a, "approve", camp[c].rev, 0, 0)
  /\ UNCHANGED <<registryVars, job, cut>>

Reject(a, c) ==
  /\ Exists(c) /\ camp[c].fp \in closable
  /\ RecordApproval(c, a, "reject", camp[c].rev, 0, 0)
  /\ UNCHANGED <<registryVars, job, cut>>

Cancel(c) ==
  /\ Exists(c) /\ camp[c].fp \in closable
  /\ Transition(c, "cancelled", camp[c].rev, 0, 0)
  /\ UNCHANGED <<registryVars, job, cut>>

-----------------------------------------------------------------------------
(* synchronize_release_authorization, start_shadow, execute_rollback: each  *)
(* checks the campaign first and moves the head in a later transaction.     *)

Begin(w, pc, x, c) ==
  /\ job[w] = Idle
  /\ head # NoHead
  /\ Authorized(c, x)
  /\ CallIs(w, [pc |-> pc, x |-> x, c |-> c, rev |-> head.rev])
  /\ UNCHANGED <<campaignVars, registryVars>>

SynchronizeCheck(w, c) == Begin(w, "mark", Plan, c)

StartShadowCheck(w, c) == Begin(w, "shadow", Plan, c)

ExecuteRollbackCheck(w, d, c) == d \in decs /\ Begin(w, "rollback", d, c)

(* The head is read after the check, and its revision is passed along.      *)
SynchronizeMark(w) ==
  /\ job[w].pc = "mark"
  /\ MarkAuthorized(job[w].c, head.rev)
  /\ Done(w)
  /\ UNCHANGED campaignVars

StartShadowMove(w) ==
  /\ job[w].pc = "shadow"
  /\ StartShadow(job[w].rev)
  /\ Goto(w, "complete")
  /\ UNCHANGED campaignVars

ExecuteRollbackMove(w) ==
  /\ job[w].pc = "rollback"
  /\ Rollback(job[w].x, job[w].c, job[w].rev)
  /\ Goto(w, "complete")
  /\ UNCHANGED campaignVars

MayComplete_BeforeMove(w) == job[w].pc \in {"shadow", "rollback", "complete"}
MayComplete(w) == job[w].pc = "complete"

Complete(w) ==
  /\ MayComplete(w)
  /\ camp[job[w].c].state = "authorized"
  /\ Transition(job[w].c, "completed", camp[job[w].c].rev, 0, 0)
  /\ Done(w)
  /\ UNCHANGED registryVars

-----------------------------------------------------------------------------
(* evaluate_stage takes the evidence of any stage at any time; advance,     *)
(* record_hold and mark_ready apply a stored decision to the head at the    *)
(* revision that the operator saw.                                          *)

EvaluateStage(d) ==
  /\ d \notin decs
  /\ StoreDecision(d)
  /\ UNCHANGED <<campaignVars, job, cut>>

OperatorLooks(w, d, pc) ==
  /\ job[w] = Idle
  /\ head # NoHead
  /\ d \in decs /\ action[d] = pc
  /\ CallIs(w, [pc |-> pc, d |-> d, rev |-> head.rev])
  /\ UNCHANGED <<campaignVars, registryVars>>

OperatorMoves(w) ==
  /\ \/ job[w].pc = "advance" /\ Advance(job[w].d, job[w].rev)
     \/ job[w].pc = "hold" /\ RecordHold(job[w].d, job[w].rev)
     \/ job[w].pc = "ready" /\ MarkReady(job[w].d, job[w].rev)
  /\ Done(w)
  /\ UNCHANGED campaignVars

-----------------------------------------------------------------------------

Progress(w) ==
  \/ SubmitReserve(w) \/ SubmitAttach(w) \/ SubmitBind(w)
  \/ SubmitToApproval(w) \/ SubmitFinish(w)
  \/ SynchronizeMark(w) \/ StartShadowMove(w) \/ ExecuteRollbackMove(w) \/ Complete(w)
  \/ OperatorMoves(w)

(* The next step of the call raises.                                        *)
Fail(w) ==
  /\ job[w] \notin {Idle, Down} /\ ~ ENABLED Progress(w)
  /\ Done(w)
  /\ UNCHANGED <<campaignVars, registryVars>>

(* The process stops within a call, and forgets it.                         *)
Crash(w) ==
  /\ Crashes
  /\ job[w] \notin {Idle, Down}
  /\ job' = [job EXCEPT ![w] = Down]
  /\ cut' = IF job[w].pc \in SubmitPcs THEN cut \cup {job[w].x} ELSE cut
  /\ UNCHANGED <<campaignVars, registryVars>>

Restart(w) ==
  /\ job[w] = Down
  /\ Done(w)
  /\ UNCHANGED <<campaignVars, registryVars>>

Call(w) ==
  \/ SubmitPlan(w)
  \/ \E d \in Decision : SubmitRollback(w, d)
  \/ \E c \in CampaignId : SynchronizeCheck(w, c) \/ StartShadowCheck(w, c)
  \/ \E d \in Decision, c \in CampaignId : ExecuteRollbackCheck(w, d, c)
  \/ \E d \in Decision, pc \in OperatorPcs : OperatorLooks(w, d, pc)

Next ==
  \/ \E w \in Worker : Call(w) \/ Progress(w) \/ Fail(w) \/ Crash(w) \/ Restart(w)
  \/ \E a \in Actor, c \in CampaignId : Approve(a, c) \/ Reject(a, c)
  \/ \E c \in CampaignId : Cancel(c)
  \/ \E d \in Decision : EvaluateStage(d)

Spec == Init /\ [][Next]_vars

(* Callers repeat every call that its first checks let begin, a call goes   *)
(* on to its end, approvers approve, and processes stop finitely often.     *)
Fairness ==
  /\ \A w \in Worker :
       /\ WF_vars(Progress(w)) /\ WF_vars(Fail(w)) /\ WF_vars(Restart(w))
       /\ SF_vars(SubmitPlan(w))
       /\ SF_vars(\E d \in Decision : SubmitRollback(w, d))
       /\ SF_vars(\E c \in CampaignId : SynchronizeCheck(w, c))
       /\ SF_vars(\E c \in CampaignId : StartShadowCheck(w, c))
       /\ SF_vars(\E d \in Decision, c \in CampaignId : ExecuteRollbackCheck(w, d, c))
  /\ WF_vars(\E a \in Actor, c \in CampaignId : Approve(a, c))
  /\ <>[](\A w \in Worker : job[w] # Down)

FairSpec == Spec /\ Fairness

-----------------------------------------------------------------------------
(* Properties *)

Reviewers(x) == {a \in Actor : a # maker[x] /\ (x # Plan => a # producer[x])}

WasApproved(c, x) ==
  /\ c # NoCampaign /\ Exists(c)
  /\ camp[c].cand = x
  /\ Cardinality(Approvers(c) \cap Reviewers(x)) >= 2

(* docs/22, Governance: nothing moves before two independent actors have    *)
(* approved exactly this plan, and the head keeps the campaign that shows   *)
(* it, whatever became of the campaign since.  The same of a rollback;      *)
(* neither who took the decision nor who produced its evidence is one of    *)
(* the two.                                                                 *)
MovesWereApproved ==
  head # NoHead =>
    /\ head.state # "planned" => WasApproved(head.rel, Plan)
    /\ head.state = "rolled_back" =>
         \E d \in decs : action[d] = "rollback" /\ WasApproved(head.rb, d)

(* docs/22: stage evidence, stage decision and stage advance are separate.  *)
(* Every stage the candidate has left was left on a stored decision of that *)
(* very stage, though decisions of any stage may be stored at any time.     *)
StagesWereEarned ==
  head # NoHead /\ head.stage # NoStage =>
    /\ \A i \in 0 .. head.stage - 1 :
         \E d \in decs : action[d] = "advance" /\ stageOf[d] = i
    /\ head.state = "ready" => \E d \in decs : action[d] = "ready"

(* A completed campaign has moved the head.                                 *)
CompletedMeansMoved ==
  \A c \in CampaignId : camp[c].state = "completed" =>
    IF camp[c].cand = Plan THEN head.state \notin {"planned", "authorized"}
    ELSE head.state = "rolled_back"

(* The two databases agree: the rows are well formed, and a completed       *)
(* campaign has moved the head, wherever processes stopped in between.      *)
DatabasesAgree == TypeOK /\ CompletedMeansMoved

(* docs/22: stages are entered one at a time, from shadow, and left with    *)
(* their traffic; a recommended rollback goes on to nothing but itself, and *)
(* READY and ROLLED_BACK to nothing, whatever an operator who looked at the *)
(* head earlier, or a repeated call, does.  A head that moved is told from  *)
(* the one before it by its revision.                                       *)
HeadGoesForward ==
  head # NoHead /\ head' # head =>
    /\ head'.rev = head.rev + 1 /\ head.state \notin {"ready", "rolled_back"}
    /\ head.state = "rollback_recommended" =>
         \/ head'.state = "rolled_back" /\ head'.alloc = 0
         \/ head' = [head EXCEPT !.rb = head'.rb, !.rev = head'.rev]
    /\ head'.state # "rolled_back" =>
         \/ head'.stage = head.stage /\ head'.alloc = head.alloc
         \/ head.stage = NoStage /\ head'.stage = 0 /\ head'.alloc = 0
         \/ head.stage # NoStage /\ head'.stage = head.stage + 1 /\ head'.alloc = traffic[head'.stage]
NoWayBack == [][HeadGoesForward]_vars

(* docs/22, Governance: a recommended rollback is carried out once it is    *)
(* approved, wherever processes stop, but for three ways to lose it, after  *)
(* which no call helps: a stop cut its submission short, its campaign was   *)
(* closed, or somebody voted whom execute_rollback does not accept.         *)
HeadIs(state) == head # NoHead /\ head.state = state
LosesItsCampaign(d) ==
  \E c \in CampaignId :
    /\ Exists(c) /\ camp[c].fp = d
    /\ \/ camp[c].state \in {"rejected", "cancelled"}
       \/ camp[c].state = "authorized" /\ Approvers(c) \cap Forbidden(d) # {}
RecommendedIsRolledBack ==
  HeadIs("rollback_recommended") ~>
    (HeadIs("rolled_back") \/ \E d \in Decision : d \in cut \/ LosesItsCampaign(d))
=============================================================================
