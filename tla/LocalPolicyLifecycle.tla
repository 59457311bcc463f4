------------------------- MODULE LocalPolicyLifecycle -------------------------
(***************************************************************************)
(* LocalPolicyPromotionLifecycleService                                    *)
(* (src/evoagent/local_policy/lifecycle_recovery_final.py over             *)
(* lifecycle_hardened.py and lifecycle.py): promotions and rollbacks of    *)
(* numeric policies, each governed by a campaign of its own with two       *)
(* approvals, between a campaign database and the policy registry.         *)
(*                                                                         *)
(* A call is a sequence of transactions; job[w] is what it remembers       *)
(* between them, with the campaign record it holds in row.  Other calls    *)
(* and crashes (Abort) come in between, and an interrupted submission is   *)
(* resumed from the evidence the registry keeps.                           *)
(*                                                                         *)
(* One clock dates the calls.  authorize, activate and rollback read it    *)
(* before they check and write with that time, job[w].t; evidence, and a   *)
(* candidate's creation, carry times that their caller states.             *)
(***************************************************************************)
EXTENDS LocalPolicyRegistry

CONSTANTS Worker,
          team,          \* governed_actor_ids and created_by of a candidate
          creator,       \* created_by of a candidate
          judgeA, judgeB,\* evaluator and decider, or requester and evaluator
          approverOf, authorizerOf, executorOf, \* who tries what, by kind
          Submitted,     \* the cases that callers submit
          closable,      \* the kinds of campaigns that operators reject and cancel
          MaxClock

Case == [kind: Kinds, p: Policy, ev: Evidence]

ASSUME LifecycleAssumption ==
  /\ Fingerprint = Case /\ Candidate = Case /\ NoCandidate \notin Case
  /\ Target = Kinds \X Policy
  /\ team \in [Policy -> SUBSET Actor] /\ creator \in [Policy -> Actor]
  /\ judgeA \in [Evidence -> Actor] /\ judgeB \in [Evidence -> Actor]
  /\ \A f \in {approverOf, authorizerOf, executorOf} : f \in [Kinds -> SUBSET Actor]
  /\ Submitted \subseteq Case
  /\ closable \subseteq Kinds
  /\ MaxClock \in Nat

VARIABLES job, clock,
          reused,  \* the campaigns whose audit log tells of a second reservation
          overtook \* the kinds and policies whose move was checked before it was authorized
times == <<at, clock>>
history == <<reused, overtook>>
vars == <<campaignVars, registryVars, job, times, history>>

Idle == [pc |-> "idle"]
SubmitPcs == {"find", "reserve", "record", "attach", "start", "finish", "resume"}
Jobs == [pc: {"find", "reserve"}, case: Case, c: {NoCampaign}, row: {NoRow}]
          \cup [pc: {"record", "attach", "start", "finish"}, case: Case, c: CampaignId,
                row: RowBy(Actor)]
          \cup [pc: {"resume"}, case: Case, c: CampaignId, row: {NoRow}]
          \cup [pc: {"mark"}, k: Kinds, p: Policy, c: CampaignId, a: Actor, t: Nat]
          \cup [pc: {"move", "complete"}, k: Kinds, p: Policy, c: CampaignId, a: Actor,
                rev: Nat, t: Nat, saw: {"nothing", "authorized", "applied"}]

TypeOK ==
  /\ CampaignsTypeOK
  /\ RegistryTypeOK
  /\ job \in [Worker -> Jobs \cup {Idle}]
  /\ at \in EventTimes /\ clock \in 0..MaxClock
  /\ reused \subseteq CampaignId /\ overtook \subseteq Kinds \X Policy

Init ==
  /\ CampaignsInit
  /\ RegistryInit
  /\ job = [w \in Worker |-> Idle]
  /\ clock = 0
  /\ reused = {} /\ overtook = {}

Goto(w, pc) == job' = [job EXCEPT ![w].pc = pc]
Done(w) == job' = [job EXCEPT ![w] = Idle]

-----------------------------------------------------------------------------
(* Roles *)

Judges(ev) == {judgeA[ev], judgeB[ev]}

(* metadata["prohibited_actor_ids"] of the campaign of a case.              *)
PromotionRoles(p) == team[p] \cup {creator[p]} \cup Judges(pol[p].promotion.ev)

Prohibited(case) ==
  IF case.kind = "promotion"
  THEN team[case.p] \cup {creator[case.p]} \cup Judges(case.ev)
  ELSE PromotionRoles(case.p) \cup Approvers(pol[case.p].promotion.camp)
         \cup Judges(case.ev)

(* _forbidden of lifecycle_hardened.py.                                     *)
Forbidden(k, p) ==
  PromotionRoles(p) \cup {pol[p].promotion.auth}
    \cup (IF k = "promotion" THEN {}
          ELSE {pol[p].promotion.by, pol[p].rollback.auth} \cup Judges(pol[p].rollback.ev))

(* The builders refuse a report, decision or request by an actor of the     *)
(* stages before it.                                                        *)
PromotionEvidence(p, ev) ==
  judgeA[ev] # judgeB[ev] /\ Judges(ev) \cap (team[p] \cup {creator[p]}) = {}

RollbackEvidence(p, ev) ==
  /\ judgeA[ev] # judgeB[ev]
  /\ Judges(ev) \cap (PromotionRoles(p) \cup Approvers(pol[p].promotion.camp)) = {}

ControlsAreApart(case) ==
  Judges(case.ev) \cap {pol[case.p].promotion.auth, pol[case.p].promotion.by} = {}

CaseOf(k, p) == [kind |-> k, p |-> p, ev |-> pol[p][k].ev]
GeneratorOf(case) == IF case.kind = "promotion" THEN creator[case.p] ELSE judgeA[case.ev]
TargetOf(case) == <<case.kind, case.p>>

(* The builders refuse evidence that predates what it judges, and the       *)
(* service what lies ahead of its clock.                                    *)
Judged(k) == IF k = "promotion" THEN "candidate_admitted" ELSE "activated"
IsDated_Anytime(case) ==
  askedAt[case.ev] <= judgedAt[case.ev] /\ judgedAt[case.ev] <= clock
IsDated(case) ==
  /\ at[Judged(case.kind)][case.p] <= askedAt[case.ev]
  /\ askedAt[case.ev] <= judgedAt[case.ev]
  /\ judgedAt[case.ev] <= clock

-----------------------------------------------------------------------------
(* Checks of a campaign record *)

CampaignMatches(c, case) ==
  /\ Exists(c)
  /\ camp[c].need = 2 /\ camp[c].gen = GeneratorOf(case)
  /\ camp[c].target = TargetOf(case) /\ camp[c].fp = case

ShellMatches(c, case) ==
  /\ CampaignMatches(c, case)
  /\ camp[c].state \notin {"rejected", "cancelled", "evidence_accumulating"}
  /\ camp[c].state = "open" => camp[c].cand = NoCandidate

Bound(k, p, c) ==
  /\ Known(p) /\ pol[p][k].ev # NoEvidence /\ pol[p][k].camp = c
  /\ CampaignMatches(c, CaseOf(k, p)) /\ camp[c].cand = CaseOf(k, p)

ApprovalsAreValid_ByMetadata(k, p, c) ==
  /\ Cardinality({a \in Actor : approvals[c][a] # "none"}) = 2
  /\ Cardinality(Approvers(c)) = 2
  /\ Approvers(c) \cap Prohibited(CaseOf(k, p)) = {}
ApprovalsAreValid(k, p, c) ==
  /\ Cardinality({a \in Actor : approvals[c][a] # "none"}) = 2
  /\ Cardinality(Approvers(c)) = 2
  /\ Approvers(c) \cap (Prohibited(CaseOf(k, p)) \cup Forbidden(k, p)) = {}

(* _validated_approvals of lifecycle.py, which activate and rollback use.   *)
StillAuthorized(k, p, c) ==
  /\ camp[c].state \in {"authorized", "completed"}
  /\ Cardinality(Approvers(c)) = 2
  /\ \A a \in Actor : approvals[c][a] # "reject"
  /\ Approvers(c) \cap (Prohibited(CaseOf(k, p)) \cup {camp[c].gen}) = {}

MayApprove(k, p, c, a) ==
  /\ c # NoCampaign
  /\ a \notin Forbidden(k, p) \cup Prohibited(CaseOf(k, p)) \cup {camp[c].gen}
MayOperate(k, p, c, a) == a \notin Forbidden(k, p) \cup Prohibited(CaseOf(k, p)) \cup Approvers(c)

-----------------------------------------------------------------------------
(* submit_promotion and submit_rollback *)

Register(p) ==
  /\ RegisterInitial(p)
  /\ EventAt(clock)
  /\ UNCHANGED <<campaignVars, job, clock, history>>

Admit(p) ==
  /\ AdmitCandidate(p)
  /\ creator[p] \notin team[p]
  /\ \E t \in 0..clock : EventAt(t)
  /\ UNCHANGED <<campaignVars, job, clock, history>>

MayPromote(case) ==
  /\ Known(case.p) /\ pol[case.p].promotion.ev = NoEvidence
  /\ PromotionEvidence(case.p, case.ev)

(* The first submission of a rollback wants an active policy whose          *)
(* promotion has completed, and people of their own for request and report. *)
MayRequest(case) ==
  /\ Known(case.p) /\ pol[case.p].rollback.ev = NoEvidence
  /\ LET r == pol[case.p] IN
     /\ r.status = "active"
     /\ r.promotion.camp # NoCampaign
     /\ camp[r.promotion.camp].state = "completed"
     /\ StillAuthorized("promotion", case.p, r.promotion.camp)
     /\ RollbackEvidence(case.p, case.ev)
     /\ ControlsAreApart(case)

SubmitStart(w, case) ==
  /\ job[w] = Idle
  /\ case.p \in Trained
  /\ IF case.kind = "promotion" THEN MayPromote(case) ELSE MayRequest(case)
  /\ IsDated(case)
  /\ job' = [job EXCEPT ![w] = [pc |-> "find", case |-> case, c |-> NoCampaign, row |-> NoRow]]
  /\ UNCHANGED <<campaignVars, registryVars, times, history>>

(* The same evidence again resumes the campaign that it is bound to; other  *)
(* evidence is refused.                                                     *)
SubmitAgain(w, case) ==
  /\ job[w] = Idle
  /\ case.p \in Trained /\ Known(case.p)
  /\ LET b == pol[case.p][case.kind] IN
     /\ b.ev = case.ev
     /\ job' = [job EXCEPT ![w] = [pc |-> "resume", case |-> case, c |-> b.camp, row |-> NoRow]]
  /\ UNCHANGED <<campaignVars, registryVars, times, history>>

Remember(w, pc, c) == job' = [job EXCEPT ![w].pc = pc, ![w].c = c, ![w].row = camp'[c]]

(* reserve of the governance adapter: it looks for an open campaign of the  *)
(* target itself and takes it, without an audit event, if it is the same    *)
(* case; otherwise the repository decides in a second transaction.          *)
SubmitFind(w) ==
  /\ job[w].pc = "find"
  /\ UNCHANGED <<campaignVars, registryVars, times, history>>
  /\ LET case == job[w].case  open == OpenOn(TargetOf(case)) IN
     \/ /\ open = {}
        /\ Goto(w, "reserve")
     \/ \E c \in open :
          /\ CampaignMatches(c, case)
          /\ Remember(w, "record", c)

SubmitReserve(w) ==
  /\ job[w].pc = "reserve"
  /\ \E c \in CampaignId, case \in {job[w].case} :
       /\ \/ /\ InsertCampaign(c, TargetOf(case), case, GeneratorOf(case), 2, "open",
                              askedAt[case.ev])
             /\ UNCHANGED reused
          \/ /\ ReuseCampaign(c, TargetOf(case), case)
             /\ reused' = reused \cup {c}
       /\ Remember(w, "record", c)
  /\ UNCHANGED <<registryVars, times, overtook>>

RowStep(row) == CASE row.state = "open" -> "attach"
                  [] row.state = "candidate_ready" -> "start"
                  [] row.state = "evaluation_pending" -> "finish"
                  [] OTHER -> "idle"
Continue(w, row) ==
  IF RowStep(row) = "idle" THEN Done(w)
  ELSE job' = [job EXCEPT ![w].pc = RowStep(row), ![w].row = row]

SubmitRecord(w) ==
  /\ job[w].pc = "record"
  /\ LET case == job[w].case IN
     IF case.kind = "promotion" THEN RecordPromotion(case.p, case.ev, job[w].c)
                                ELSE RecordRollback(case.p, case.ev, job[w].c)
  /\ EventAt(judgedAt[job[w].case.ev])
  /\ Continue(w, job[w].row)
  /\ UNCHANGED <<campaignVars, clock, history>>

ResumesFrom_Attached(c, case) == ShellMatches(c, case) /\ camp[c].cand = case
ResumesFrom(c, case) == ShellMatches(c, case)

SubmitResume(w) ==
  /\ job[w].pc = "resume"
  /\ ResumesFrom(job[w].c, job[w].case)
  /\ Continue(w, camp[job[w].c])
  /\ UNCHANGED <<campaignVars, registryVars, times, history>>

SubmitAttach(w) ==
  /\ job[w].pc = "attach"
  /\ AttachCandidate(job[w].c, job[w].case, job[w].row.rev, clock)
  /\ Continue(w, camp'[job[w].c])
  /\ UNCHANGED <<registryVars, times, history>>

Passed(case) == case.kind = "rollback" \/ case.p \in promotable

(* _finish_evaluation: one or two transitions.                              *)
SubmitEvaluate(w) ==
  /\ job[w].pc \in {"start", "finish"}
  /\ LET to == IF job[w].pc = "start" THEN "evaluation_pending"
               ELSE IF Passed(job[w].case) THEN "approval_pending" ELSE "rejected"
     IN Transition(job[w].c, to, job[w].row.rev, 0, clock)
  /\ Continue(w, camp'[job[w].c])
  /\ UNCHANGED <<registryVars, times, history>>

-----------------------------------------------------------------------------
(* Approvals, and what operators do to a campaign around the service *)

Approve(k, p, a) ==
  /\ Known(p)
  /\ LET c == pol[p][k].camp IN
     /\ MayApprove(k, p, c, a)
     /\ RecordApproval(c, a, "approve", camp[c].rev, 0, clock)
  /\ UNCHANGED <<registryVars, job, times, history>>

ApproveDirectly(c, a) ==
  /\ RecordApproval(c, a, "approve", camp[c].rev, 0, clock)
  /\ UNCHANGED <<registryVars, job, times, history>>

Close(c, a) ==
  /\ Exists(c) /\ camp[c].target[1] \in closable
  /\ \/ RecordApproval(c, a, "reject", camp[c].rev, 0, clock)
     \/ Transition(c, "cancelled", camp[c].rev, 0, clock)
  /\ UNCHANGED <<registryVars, job, times, history>>

-----------------------------------------------------------------------------
(* synchronize_..._authorization, activate, rollback *)

SynchronizeStart(w, k, p, a) ==
  /\ job[w] = Idle
  /\ Known(p)
  /\ LET c == pol[p][k].camp IN
     /\ c # NoCampaign
     /\ camp[c].state \in {"authorized", "completed"}
     /\ Bound(k, p, c)
     /\ ApprovalsAreValid(k, p, c)
     /\ pol[p][k].auth = Nobody /\ MayOperate(k, p, c, a)
     /\ job' = [job EXCEPT ![w] = [pc |-> "mark", k |-> k, p |-> p, c |-> c, a |-> a,
                                   t |-> clock]]
  /\ UNCHANGED <<campaignVars, registryVars, times, history>>

SynchronizeMark(w) ==
  /\ job[w].pc = "mark"
  /\ IF job[w].k = "promotion"
     THEN MarkPromotionAuthorized(job[w].p, job[w].c, job[w].a)
     ELSE MarkRollbackAuthorized(job[w].p, job[w].c, job[w].a)
  /\ EventAt(job[w].t)
  /\ Done(w)
  /\ UNCHANGED <<campaignVars, clock, history>>

PointerAgrees(k, p) == head.active = IF k = "promotion" THEN p ELSE base[p]

(* What a call that moves the pointer finds in the registry at its start.   *)
IsApplied(k, p) == IF k = "promotion" THEN Activated(p) ELSE IsRolledBack(p)
Seen(k, p) == IF IsApplied(k, p) THEN "applied"
              ELSE IF pol[p][k].auth = Nobody THEN "nothing" ELSE "authorized"

(* The caller passes the revision it read, or, when it repeats a call that  *)
(* was cut short, the one before.                                           *)
MoveStart(w, k, p, a, rev) ==
  /\ job[w] = Idle
  /\ Known(p) /\ base[p] # NoPolicy
  /\ rev \in {head.rev, head.rev - 1} \cap Nat
  /\ LET c == pol[p][k].camp IN
     /\ c # NoCampaign
     /\ Bound(k, p, c)
     /\ StillAuthorized(k, p, c)
     /\ MayOperate(k, p, c, a)
     /\ camp[c].state = "completed" => PointerAgrees(k, p)
     /\ job' = [job EXCEPT ![w] = [pc |-> "move", k |-> k, p |-> p, c |-> c, a |-> a,
                                   rev |-> rev, t |-> clock, saw |-> Seen(k, p)]]
  /\ UNCHANGED <<campaignVars, registryVars, times, history>>

MoveRegistry(w) ==
  /\ job[w].pc = "move"
  /\ LET j == job[w]  seen == j.saw = "applied" IN
     /\ IF j.k = "promotion" THEN Activate(j.p, j.c, j.rev, j.a, seen)
                             ELSE RollBack(j.p, j.c, j.rev, j.a, seen)
     /\ EventAt(j.t)
     /\ overtook' = IF j.saw = "nothing" /\ log' # log THEN overtook \cup {<<j.k, j.p>>}
                                                      ELSE overtook
  /\ Goto(w, "complete")
  /\ UNCHANGED <<campaignVars, clock, reused>>

Latest(t, u) == IF t <= u THEN u ELSE t

MoveComplete(w) ==
  /\ job[w].pc = "complete"
  /\ LET c == job[w].c IN
     \/ /\ camp[c].state = "authorized"
        /\ Transition(c, "completed", camp[c].rev, 0, Latest(job[w].t, camp[c].upd))
     \/ camp[c].state = "completed" /\ UNCHANGED campaignVars
  /\ Done(w)
  /\ UNCHANGED <<registryVars, times, history>>

Abort(w) ==
  /\ job[w] # Idle
  /\ Done(w)
  /\ UNCHANGED <<campaignVars, registryVars, times, history>>

Tick ==
  /\ clock < MaxClock
  /\ clock' = clock + 1
  /\ UNCHANGED <<campaignVars, registryVars, job, at, history>>

-----------------------------------------------------------------------------

Progress(w) ==
  \/ SubmitFind(w) \/ SubmitReserve(w) \/ SubmitRecord(w) \/ SubmitResume(w)
  \/ SubmitAttach(w) \/ SubmitEvaluate(w)
  \/ SynchronizeMark(w)
  \/ MoveRegistry(w) \/ MoveComplete(w)

Move(w, k, p) == \E a \in executorOf[k], rev \in {head.rev, head.rev - 1} : MoveStart(w, k, p, a, rev)
Synchronize(w, k, p) == \E a \in authorizerOf[k] : SynchronizeStart(w, k, p, a)

Next ==
  \/ Tick
  \/ \E p \in Policy : Register(p) \/ Admit(p)
  \/ \E w \in Worker :
       \/ \E case \in Submitted : SubmitStart(w, case) \/ SubmitAgain(w, case)
       \/ \E k \in Kinds, p \in Policy : Synchronize(w, k, p) \/ Move(w, k, p)
       \/ Progress(w)
       \/ Abort(w)
  \/ \E k \in Kinds : \E p \in Policy, a \in approverOf[k] : Approve(k, p, a)
  \/ \E c \in CampaignId, k \in Kinds : \E a \in approverOf[k] : ApproveDirectly(c, a) \/ Close(c, a)

Spec == Init /\ [][Next]_vars

(* Callers repeat a submission and a move of the pointer with the revision  *)
(* it had, as long as the first checks let them and whatever call of theirs *)
(* was cut short before, and a call that is repeated for ever is not cut    *)
(* short for ever.                                                          *)
Resubmit(w, k) == \E case \in Submitted : case.kind = k /\ SubmitAgain(w, case)
Repeat(w, k, p) == \E a \in executorOf[k] : MoveStart(w, k, p, a, head.rev - 1)
Resumes(w, k) == job[w].pc = "resume" /\ job[w].case.kind = k /\ SubmitResume(w)
MovesPointer(w, k) == job[w].pc = "move" /\ job[w].k = k /\ MoveRegistry(w)
Completes(w, k) == job[w].pc = "complete" /\ job[w].k = k /\ MoveComplete(w)
Fairness ==
  \A w \in Worker :
    /\ \A k \in Kinds :
         /\ SF_vars(Resubmit(w, k)) /\ SF_vars(Resumes(w, k))
         /\ SF_vars(MovesPointer(w, k)) /\ SF_vars(Completes(w, k))
         /\ \A p \in Trained : SF_vars(Repeat(w, k, p))
    /\ SF_vars(SubmitAttach(w) \/ SubmitEvaluate(w))
    /\ WF_vars(Abort(w))

FairSpec == Spec /\ Fairness

-----------------------------------------------------------------------------
(* The evidence package (package.py, package_semantic_final.py): what one   *)
(* campaign and the registry must look like before it is built.             *)

Lifecycle(p) ==
  <<[type |-> "registered", p |-> base[p]]>> \o
  [i \in 1..4 |-> [type |-> <<"candidate_admitted", "evaluated", "authorized",
                             "activated">>[i], p |-> p]]
RollbackEvents(p) ==
  [i \in 1..3 |-> [type |-> <<"rollback_submitted", "rollback_authorized",
                             "rolled_back">>[i], p |-> p]]

AuditIsExemplary(c) == camp[c].rev = 6 /\ c \notin reused

CampaignIsExemplary(k, p, c) ==
  /\ Bound(k, p, c)
  /\ camp[c].state = "completed"
  /\ AuditIsExemplary(c)
  /\ StillAuthorized(k, p, c)
  /\ pol[p][k].auth \notin {Nobody} \cup Prohibited(CaseOf(k, p)) \cup Approvers(c)
  /\ pol[p][k].by \notin {Nobody, pol[p][k].auth} \cup Prohibited(CaseOf(k, p)) \cup Approvers(c)

RolledBack(p) == pol[p].rollback.camp # NoCampaign

RecordsVerify(p) ==
  IF RolledBack(p)
  THEN /\ pol[base[p]].status = "active" /\ pol[p].status = "rolled_back"
       /\ head = [active |-> base[p], rev |-> 2]
  ELSE /\ pol[base[p]].status = "superseded" /\ pol[p].status = "active"
       /\ head = [active |-> p, rev |-> 1]

PromotionVerifies(p) == CampaignIsExemplary("promotion", p, pol[p].promotion.camp)

RollbackVerifies(p) ==
  RolledBack(p) =>
    /\ CampaignIsExemplary("rollback", p, pol[p].rollback.camp)
    /\ {pol[p].promotion.auth, pol[p].promotion.by} \cap
         (Judges(pol[p].rollback.ev) \cup Approvers(pol[p].rollback.camp)
            \cup {pol[p].rollback.auth, pol[p].rollback.by}) = {}

ScopeVerifies(p) ==
  \A c \in CampaignId :
    Exists(c) => c \in {pol[p].promotion.camp, pol[p].rollback.camp}

(* _verify_monotonic_times.  The events of one campaign follow the clock,   *)
(* the first alone is dated by its evidence: only the passage from the      *)
(* promotion to the rollback campaign is compared.                          *)
AtOf(event) == at[event.type][event.p]
MonotonicTimes(p) ==
  /\ \A i, j \in DOMAIN log : i < j => AtOf(log[i]) <= AtOf(log[j])
  /\ RolledBack(p) => camp[pol[p].promotion.camp].upd <= askedAt[pol[p].rollback.ev]

PackageVerifies(p) ==
  /\ RecordsVerify(p)
  /\ PromotionVerifies(p)
  /\ RollbackVerifies(p)
  /\ log = Lifecycle(p) \o (IF RolledBack(p) THEN RollbackEvents(p) ELSE <<>>)
  /\ ScopeVerifies(p)
  /\ MonotonicTimes(p)

-----------------------------------------------------------------------------
(* Properties *)

(* Records are well formed and verify_state never raises, however calls     *)
(* interleave, stop and repeat.                                             *)
RegistryVerifies == TypeOK /\ StateVerifies

Hands(p) ==
  <<PromotionRoles(p), Approvers(pol[p].promotion.camp),
    {pol[p].promotion.auth, pol[p].promotion.by}>>
    \o (IF pol[p].rollback.auth = Nobody THEN <<>>
       ELSE <<Judges(pol[p].rollback.ev), Approvers(pol[p].rollback.camp),
              {pol[p].rollback.auth, pol[p].rollback.by} \ {Nobody}>>)
StagesAreApart ==
  \A p \in Policy :
    Known(p) /\ base[p] # NoPolicy /\ pol[p].status \in {"active", "superseded", "rolled_back"}
    => LET h == Hands(p) IN
       \A i, j \in DOMAIN h : i # j => h[i] \cap h[j] = {}

ExecutorsAreApart ==
  \A k \in Kinds, p \in Policy :
    Known(p) /\ pol[p][k].by # Nobody /\ <<k, p>> \notin overtook
    => pol[p][k].by # pol[p][k].auth

(* The stages of one policy are in different hands: who made and judged it, *)
(* approved it, authorized or activated it, and who judged, approved,       *)
(* authorized or executed its rollback, whatever was approved around the    *)
(* service and however late a check was made.  The authorizer and the       *)
(* executor of one change are two people as well, unless the executor's     *)
(* call was checked before there was an authorizer.                         *)
HandsAreApart == StagesAreApart /\ ExecutorsAreApart

(* The campaigns of the only candidate have completed, no two submissions   *)
(* raced for a reservation and no move overtook its authorization.          *)
IsComplete(p) ==
  /\ Known(p) /\ base[p] # NoPolicy
  /\ {q \in Policy : Known(q)} = {p, base[p]}
  /\ reused = {} /\ overtook = {}
  /\ pol[p].promotion.camp # NoCampaign
  /\ \A c \in CampaignId : Exists(c) =>
       camp[c].state = "completed" /\ c \in {pol[p].promotion.camp, pol[p].rollback.camp}

(* Times that callers may state and the package refuses: a candidate made   *)
(* before its base was registered, a rollback requested after the           *)
(* activation and before its repetition completed the promotion campaign.   *)
MadeTooSoon(p) == at["candidate_admitted"][p] < at["registered"][base[p]]
RequestedTooSoon(p) ==
  /\ RolledBack(p)
  /\ LET asked == askedAt[pol[p].rollback.ev] IN
     at["activated"][p] <= asked /\ asked < camp[pol[p].promotion.camp].upd

(* docs/25: the lifecycle is exportable as one verified package.  Once the  *)
(* campaigns have completed, the package builder accepts what the two       *)
(* databases hold, however often calls were cut short and repeated, but for *)
(* the two kinds of times above.                                            *)
CompletedIsPackageable ==
  \A p \in Policy :
    IsComplete(p) /\ ~MadeTooSoon(p) /\ ~RequestedTooSoon(p) => PackageVerifies(p)

IsBound(k, p) == Known(p) /\ pol[p][k].camp # NoCampaign
HasReached(k, p, states) ==
  \E c \in CampaignId : Known(p) /\ pol[p][k].camp = c /\ camp[c].state \in states

(* docs/26, two restart windows.  Evidence that is stored reaches the        *)
(* approvers, or the rejection it calls for, ...                            *)
SubmissionIsRecovered ==
  \A k \in Kinds, p \in Trained :
    IsBound(k, p) ~>
      HasReached(k, p, {"approval_pending", "authorized", "completed"} \cup ClosedStates)

(* ... and a pointer that has moved completes its campaign, unless a later  *)
(* change covers it first.                                                  *)
MoveIsRecovered ==
  \A p \in Trained :
    /\ pol[p].status = "active" ~>
         (head.active # p \/ HasReached("promotion", p, ClosedStates))
    /\ pol[p].status = "rolled_back" ~>
         (head.active # base[p] \/ HasReached("rollback", p, ClosedStates))

(* A candidate is active only after its promotion, and undone only after    *)
(* its rollback, was approved by two people outside its team, one change at *)
(* a time and along the line of base policies: the registry and the         *)
(* campaigns of two kinds together implement GovernedChange.                *)
StageOf(p) ==
  CASE pol[p].status \in {"candidate", "evaluated", "rejected"} -> "proposed"
    [] pol[p].status = "authorized" -> "approved"
    [] pol[p].status \in {"active", "superseded"} -> "applied"
    [] pol[p].status = "rolled_back" -> "undone"
    [] OTHER -> "none"
VotesFor(k, p) ==
  IF ~Known(p) THEN 0
  ELSE IF pol[p][k].camp = NoCampaign THEN 0
  ELSE Cardinality(Approvers(pol[p][k].camp) \ Prohibited(CaseOf(k, p)))

Governed == INSTANCE GovernedChange WITH
  Change <- Policy, NoChange <- NoPolicy, below <- base,
  UndoNeedsVotes <- TRUE,
  stage <- [p \in Policy |-> StageOf(p)],
  votes <- [p \in Policy |-> VotesFor("promotion", p)],
  undoVotes <- [p \in Policy |-> VotesFor("rollback", p)],
  current <- head.active
ImplementsGovernedChange == Governed!Spec
=============================================================================
