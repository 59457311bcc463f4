--------------------------- MODULE ChampionLifecycle ---------------------------
(***************************************************************************)
(* ChampionLifecycleService (src/evoagent/champion/lifecycle.py): callers  *)
(* take decisions of the promotion gate through a governed campaign to the *)
(* pointer of the registry.  Campaigns and registry are two databases; a   *)
(* call is a sequence of transactions on them, and between any two of them *)
(* other callers take steps and the process may stop.                      *)
(*                                                                         *)
(* job[w] is what a call in progress remembers: where it is, its decision  *)
(* and campaign, and the revision it will pass.  An exception leaves the   *)
(* caller where a crash does, with no job and its transactions done, so    *)
(* Abort stands for both.                                                  *)
(***************************************************************************)
EXTENDS ChampionRegistry

CONSTANTS Worker, maker,
          OperatorsClose  \* whether operators reject and cancel campaigns

LifecycleAssumption ==
  /\ Fingerprint = Decision /\ Candidate = Decision
  /\ NoCandidate = NoDecision
  /\ Target = Snapshot \X Snapshot
  /\ maker \in [Decision -> Actor]
  /\ OperatorsClose \in BOOLEAN

VARIABLE job
vars == <<campaignVars, registryVars, job>>

Idle == [pc |-> "idle"]

\* where a call is, and what it remembers there
SubmitPcs == {"reserve", "attach", "admit", "evaluate", "submit", "finish"}
Jobs == [pc: SubmitPcs, d: Decision, c: CampaignId \cup {NoCampaign}, rev: Nat]
          \cup [pc: {"mark", "activate", "complete"}, s: Snapshot, c: CampaignId, rev: Nat]
          \cup [pc: {"rollback"}, s: Snapshot, seen: Snapshot, rev: Nat]

TypeOK ==
  /\ CampaignsTypeOK
  /\ RegistryTypeOK
  /\ job \in [Worker -> Jobs \cup {Idle}]

Init ==
  /\ CampaignsInit
  /\ RegistryInit
  /\ job = [w \in Worker |-> Idle]

-----------------------------------------------------------------------------
(* Checks against the campaign record *)

TargetOf(d) == <<base[d], sel[d]>>

(* _validate_campaign: everything but the state, for decision d.           *)
CampaignMatches(c, d) ==
  /\ Exists(c)
  /\ camp[c].need = 2 /\ camp[c].gen = maker[d]
  /\ camp[c].target = TargetOf(d) /\ camp[c].fp = d /\ camp[c].cand = d

(* _validate_approvals: exactly two decisions, both approve, not its maker. *)
ApprovalsAreValid(c, d) ==
  /\ camp[c].need = 2
  /\ Cardinality({a \in Actor : approvals[c][a] # "none"}) = 2
  /\ Cardinality(Approvers(c)) = 2
  /\ maker[d] \notin Approvers(c)

Authorized_NotChecked(c, s) ==
  /\ snap[s] # NoRecord /\ snap[s].dec # NoDecision
  /\ CampaignMatches(c, snap[s].dec)
Authorized(c, s) ==
  /\ snap[s] # NoRecord /\ snap[s].dec # NoDecision
  /\ camp[c].state = "authorized"
  /\ CampaignMatches(c, snap[s].dec)
  /\ ApprovalsAreValid(c, snap[s].dec)

-----------------------------------------------------------------------------
(* evaluate_and_submit *)

Goto(w, pc) == job' = [job EXCEPT ![w].pc = pc]
Done(w) == job' = [job EXCEPT ![w] = Idle]

(* The active Champion must be the baseline run of the decision's package:  *)
(* the one that was registered first.  A promoted snapshot has its record   *)
(* from an evolved run, and no decision can be taken against that.          *)
SubmitStart(w, d) ==
  /\ job[w] = Idle
  /\ head.active = base[d]
  /\ snap[head.active].dec = NoDecision
  /\ StoreDecision(d)
  /\ job' = [job EXCEPT ![w] = [pc |-> "reserve", d |-> d, c |-> NoCampaign, rev |-> 0]]
  /\ UNCHANGED campaignVars

SubmitReserve(w) ==
  /\ job[w].pc = "reserve"
  /\ \E c \in CampaignId, d \in {job[w].d} :
       \/ /\ ReuseCampaign(c, TargetOf(d), d)
          /\ CampaignMatches(c, d)
          /\ job' = [job EXCEPT ![w].pc = "admit", ![w].c = c]
       \/ /\ InsertCampaign(c, TargetOf(d), d, maker[d], 2, "open", 0)
          /\ job' = [job EXCEPT ![w].pc = "attach", ![w].c = c]
  /\ UNCHANGED registryVars

SubmitAttach(w) ==
  /\ job[w].pc = "attach"
  /\ AttachCandidate(job[w].c, job[w].d, 0, 0)
  /\ Goto(w, "admit")
  /\ UNCHANGED registryVars

SubmitAdmit(w) ==
  /\ job[w].pc = "admit"
  /\ AdmitChallenger(job[w].d, job[w].c)
  /\ Goto(w, "evaluate")
  /\ UNCHANGED campaignVars

SubmitEvaluate(w) ==
  /\ job[w].pc = "evaluate"
  /\ RecordEvaluation(job[w].d)
  /\ Goto(w, "submit")
  /\ UNCHANGED campaignVars

(* The campaign is read again: if its candidate is ready, the call starts   *)
(* the evaluation, and if it got further already, the call is done.         *)
SubmitToApproval(w) ==
  /\ job[w].pc = "submit"
  /\ LET c == job[w].c IN
     \/ /\ camp[c].state = "candidate_ready"
        /\ Transition(c, "evaluation_pending", camp[c].rev, 0, 0)
        /\ job' = [job EXCEPT ![w].pc = "finish", ![w].rev = camp[c].rev + 1]
     \/ /\ camp[c].state \in {"approval_pending", "authorized", "completed"}
        /\ Done(w)
        /\ UNCHANGED campaignVars
  /\ UNCHANGED registryVars

SubmitFinish(w) ==
  /\ job[w].pc = "finish"
  /\ Transition(job[w].c, "approval_pending", job[w].rev, 0, 0)
  /\ Done(w)
  /\ UNCHANGED registryVars

-----------------------------------------------------------------------------
(* approve, and what operators may do to a campaign through governance *)

Approve(a, c) ==
  /\ camp[c].state = "approval_pending"
  /\ a # maker[camp[c].cand]
  /\ RecordApproval(c, a, "approve", camp[c].rev, 0, 0)
  /\ UNCHANGED <<registryVars, job>>

Reject(a, c) ==
  /\ OperatorsClose
  /\ camp[c].state = "approval_pending"
  /\ RecordApproval(c, a, "reject", camp[c].rev, 0, 0)
  /\ UNCHANGED <<registryVars, job>>

Cancel(c) ==
  /\ OperatorsClose
  /\ camp[c].state \in OpenStates
  /\ Transition(c, "cancelled", camp[c].rev, 0, 0)
  /\ UNCHANGED <<registryVars, job>>

-----------------------------------------------------------------------------
(* synchronize_authorization, activate, rollback *)

RegisterFirst(s) ==
  /\ RegisterInitial(s)
  /\ UNCHANGED <<campaignVars, job>>

Begin(w, pc, s, c) ==
  /\ job' = [job EXCEPT ![w] = [pc |-> pc, s |-> s, c |-> c, rev |-> head.rev]]
  /\ UNCHANGED <<campaignVars, registryVars>>

SynchronizeStart(w, s, c) ==
  /\ job[w] = Idle
  /\ Authorized(c, s)
  /\ Begin(w, "mark", s, c)

SynchronizeMark(w) ==
  /\ job[w].pc = "mark"
  /\ MarkAuthorized(job[w].s, job[w].c)
  /\ Done(w)
  /\ UNCHANGED campaignVars

ActivateStart(w, s, c) ==
  /\ job[w] = Idle
  /\ Authorized(c, s)
  /\ snap[s].status = "authorized"
  /\ Begin(w, "activate", s, c)

ActivateRegistry(w) ==
  /\ job[w].pc = "activate"
  /\ ActivateSnapshot(job[w].s, job[w].c, job[w].rev)
  /\ Goto(w, "complete")
  /\ UNCHANGED campaignVars

MayComplete_BeforeMove(w) == job[w].pc \in {"activate", "complete"}
MayComplete(w) == job[w].pc = "complete"

ActivateComplete(w) ==
  /\ MayComplete(w)
  /\ LET c == job[w].c IN
     \/ /\ camp[c].state = "authorized"
        /\ Transition(c, "completed", camp[c].rev, 0, 0)
     \/ camp[c].state = "completed" /\ UNCHANGED campaignVars
  /\ Done(w)
  /\ UNCHANGED registryVars

(* An operator looks at the pointer and later asks for the rollback.        *)
RollbackStart(w, to) ==
  /\ job[w] = Idle
  /\ head.active # NoSnapshot
  /\ job' = [job EXCEPT ![w] = [pc |-> "rollback", s |-> to, seen |-> head.active,
                                rev |-> head.rev]]
  /\ UNCHANGED <<campaignVars, registryVars>>

RollbackCommit(w) ==
  /\ job[w].pc = "rollback"
  /\ job[w].s # head.active
  /\ RollBack(job[w].s, job[w].rev)
  /\ Done(w)
  /\ UNCHANGED campaignVars

Abort(w) ==
  /\ job[w] # Idle
  /\ Done(w)
  /\ UNCHANGED <<campaignVars, registryVars>>

Progress(w) ==
  \/ SubmitReserve(w) \/ SubmitAttach(w) \/ SubmitAdmit(w) \/ SubmitEvaluate(w)
  \/ SubmitToApproval(w) \/ SubmitFinish(w)
  \/ SynchronizeMark(w)
  \/ ActivateRegistry(w) \/ ActivateComplete(w)
  \/ RollbackCommit(w)

Call(w) ==
  \/ \E d \in Decision : SubmitStart(w, d)
  \/ \E s \in Snapshot, c \in CampaignId : SynchronizeStart(w, s, c)
  \/ \E s \in Snapshot, c \in CampaignId : ActivateStart(w, s, c)
  \/ \E to \in Snapshot : RollbackStart(w, to)

Next ==
  \/ \E s \in Snapshot : RegisterFirst(s)
  \/ \E w \in Worker : Call(w) \/ Progress(w) \/ Abort(w)
  \/ \E a \in Actor, c \in CampaignId : Approve(a, c) \/ Reject(a, c)
  \/ \E c \in CampaignId : Cancel(c)

Spec == Init /\ [][Next]_vars

(* Callers repeat a call as long as its first checks let them, a call that  *)
(* is repeated for ever is not cut short for ever, and approvers approve.   *)
Fairness ==
  /\ \A w \in Worker :
       /\ \A d \in Decision : SF_vars(SubmitStart(w, d))
       /\ \A s \in Snapshot, c \in CampaignId :
            SF_vars(SynchronizeStart(w, s, c)) /\ SF_vars(ActivateStart(w, s, c))
       /\ SF_vars(SubmitReserve(w)) /\ SF_vars(SubmitAttach(w))
       /\ SF_vars(SubmitAdmit(w)) /\ SF_vars(SubmitEvaluate(w))
       /\ SF_vars(SubmitToApproval(w)) /\ SF_vars(SubmitFinish(w))
       /\ SF_vars(SynchronizeMark(w))
       /\ SF_vars(ActivateRegistry(w)) /\ SF_vars(ActivateComplete(w))
       /\ WF_vars(Abort(w))
  /\ \A a \in Actor, c \in CampaignId : WF_vars(Approve(a, c))

FairSpec == Spec /\ Fairness

-----------------------------------------------------------------------------
(* Properties *)

(* verify_state never raises, however calls interleave or stop: one         *)
(* Champion, the one the pointer names, and no missing decision.  And       *)
(* rollback always has where to go: the ancestors of the Champion are       *)
(* retired, and a retired snapshot is the parent of one that is or was on   *)
(* the way to the Champion.                                                 *)
RegistryVerifies ==
  /\ TypeOK /\ StateVerifies
  /\ \A s \in Snapshot :
       /\ snap[s].status \in {"champion", "retired"} /\ snap[s].parent # NoSnapshot =>
            snap[snap[s].parent].status = "retired"
       /\ snap[s].status = "retired" =>
            Cardinality({t \in Snapshot : /\ snap[t].status \in {"champion", "retired"}
                                          /\ snap[t].parent = s}) = 1

(* docs/21: two independent approvals.  Whatever was authorized or ever     *)
(* became Champion has an approved campaign for exactly its decision.       *)
ActiveWasApproved ==
  \A s \in Snapshot :
    /\ snap[s].status \in {"authorized", "champion", "retired", "rolled_back"}
    /\ snap[s].dec # NoDecision
    => LET c == snap[s].camp IN
       /\ camp[c].state \in {"authorized", "completed", "cancelled"}
       /\ camp[c].cand = snap[s].dec
       /\ Cardinality(Approvers(c) \ {maker[snap[s].dec]}) >= 2

(* The two databases agree: a completed campaign has moved the pointer.     *)
CompletedMeansActivated ==
  \A c \in CampaignId : camp[c].state = "completed" =>
    \E s \in Snapshot : /\ snap[s].status \in {"champion", "retired", "rolled_back"}
                         /\ snap[s].camp = c /\ snap[s].dec = camp[c].cand

(* The pointer moves along the lineage only, to a child or to the parent,   *)
(* and a snapshot that was rolled back does not come back, by whatever late *)
(* or repeated call.                                                        *)
FollowsLineage ==
  /\ head'.active # head.active /\ head.active # NoSnapshot =>
       \/ snap[head'.active].parent = head.active
       \/ snap[head.active].parent = head'.active
  /\ \A s \in Snapshot : snap[s].status = "rolled_back" => snap'[s] = snap[s]
LineageIsFollowed == [][FollowsLineage]_vars

(* A rollback undoes the Champion that its operator saw, although the call  *)
(* names only the snapshot to return to.                                    *)
UndoesWhatItSaw ==
  \A w \in Worker :
    job[w].pc = "rollback" /\ job'[w] # job[w] /\ head' # head =>
      head.active = job[w].seen

(* docs/21: explicit activation changes the pointer and completes the       *)
(* campaign.                                                                *)
ActivationCompletesCampaign ==
  \A c \in CampaignId :
    (\E s \in Snapshot : snap[s].status = "champion" /\ snap[s].camp = c)
      ~> camp[c].state = "completed"
=============================================================================
