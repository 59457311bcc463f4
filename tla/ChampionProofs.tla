---------------------------- MODULE ChampionProofs ----------------------------
(***************************************************************************)
(* Proofs about the Champion: the registry and the campaigns are two       *)
(* databases, and calls stop or are overtaken between their transactions.  *)
(* At the end, the rule by which the gate chooses a challenger, and the    *)
(* packages of the evidence that it is given.                              *)
(***************************************************************************)
EXTENDS ChampionLifecycle, CampaignLemmas

AllAssumptions == CampaignsAssumption /\ RegistryAssumption /\ LifecycleAssumption

Stored(s) == snap[s] # NoRecord
(* The snapshot that was registered first, and not promoted.                *)
First(s) == Stored(s) /\ snap[s].dec = NoDecision
Activated(s) == snap[s].status \in {"champion", "retired", "rolled_back"}

WasApproved(c, d) ==
  /\ camp[c].state \in {"authorized", "completed", "cancelled"}
  /\ camp[c].cand = d
  /\ Cardinality(Approvers(c) \ {maker[d]}) >= 2

(* The first snapshot never leaves the way to the Champion; every other is  *)
(* admitted as its child, because decisions are only taken against it.      *)
RecordInvAt(s) ==
  /\ First(s) => /\ snap[s].parent = NoSnapshot
                 /\ snap[s].status \in {"champion", "retired"}
  /\ Stored(s) /\ snap[s].dec # NoDecision =>
       /\ snap[s].dec \in decs /\ sel[snap[s].dec] = s /\ snap[s].parent = base[snap[s].dec]
       /\ snap[s].camp \in CampaignId
       /\ snap[s].status # "retired"
       /\ snap[s].status \in {"authorized", "champion", "rolled_back"} =>
            WasApproved(snap[s].camp, snap[s].dec)
RecordInv == \A s \in Snapshot : RecordInvAt(s)

LineageInv ==
  /\ head.active = NoSnapshot => \A s \in Snapshot : ~Stored(s)
  /\ head.active # NoSnapshot =>
       \A s \in Snapshot : snap[s].status = "champion" <=> s = head.active
  /\ \A s, t \in Snapshot : First(s) /\ First(t) => s = t
  /\ \A d \in decs : First(base[d])

(* What a call relies on from the step in which it checked it.              *)
JobInvAt(w) ==
  /\ job[w].pc \in SubmitPcs => job[w].d \in decs
  /\ job[w].pc \in SubmitPcs \ {"reserve"} => job[w].c \in CampaignId
  /\ job[w].pc \in {"mark", "complete"} =>
       /\ Stored(job[w].s) /\ snap[job[w].s].dec # NoDecision
       /\ WasApproved(job[w].c, snap[job[w].s].dec)
  /\ job[w].pc = "complete" => Activated(job[w].s) /\ snap[job[w].s].camp = job[w].c
  /\ job[w].pc = "rollback" =>
       /\ head.active # NoSnapshot
       /\ job[w].rev <= head.rev
       /\ job[w].rev = head.rev => job[w].seen = head.active
JobInv == \A w \in Worker : JobInvAt(w)

IInv ==
  /\ TypeOK /\ ApprovalInv
  /\ RecordInv /\ LineageInv /\ JobInv /\ CompletedMeansActivated

(* No step takes anything back: records keep what they were admitted with,  *)
(* and a pointer that has moved has another revision.                       *)
RegistryGoesOn ==
  /\ decs \subseteq decs'
  /\ \A s \in Snapshot : Stored(s) =>
       /\ Stored(s)' /\ snap'[s].dec = snap[s].dec /\ snap'[s].parent = snap[s].parent
       /\ snap'[s].camp = snap[s].camp
       /\ Activated(s) => Activated(s)'
       /\ snap[s].status = "rolled_back" => snap'[s] = snap[s]
  /\ head.active # NoSnapshot =>
       head' = head \/ (head'.active # NoSnapshot /\ head'.rev = head.rev + 1)
ApprovalsGoOn ==
  \A c \in CampaignId, d \in Decision : WasApproved(c, d) => WasApproved(c, d)'

-----------------------------------------------------------------------------
LEMMA JobFacts ==
  ASSUME TypeOK, NEW w \in Worker
  PROVE  /\ job[w].pc \in SubmitPcs => job[w].d \in Decision /\ job[w].rev \in Nat
         /\ job[w].pc \in {"mark", "activate", "complete"} =>
              job[w].s \in Snapshot /\ job[w].c \in CampaignId /\ job[w].rev \in Nat
         /\ job[w].pc = "rollback" =>
              job[w].s \in Snapshot /\ job[w].seen \in Snapshot /\ job[w].rev \in Nat
<1>1. job[w] \in Jobs \cup {Idle}
  BY DEF TypeOK
<1> QED BY <1>1 DEF Jobs, SubmitPcs, Idle

(* A record that is there is well typed.                                    *)
LEMMA RecordFacts ==
  ASSUME RegistryTypeOK, NEW s \in Snapshot
  PROVE  /\ Stored(s) <=> snap[s] \in Record
         /\ snap[s].status \in Statuses => Stored(s)
         /\ ~Stored(s) => snap[s].status = "absent"
BY DEF RegistryTypeOK, Stored, Record, NoRecord, Statuses

LEMMA NewStatus ==
  ASSUME NEW r \in Record, NEW status \in Statuses
  PROVE  LET q == [r EXCEPT !.status = status]
         IN /\ q \in Record /\ q.status = status
            /\ q.dec = r.dec /\ q.parent = r.parent /\ q.camp = r.camp
BY DEF Record

-----------------------------------------------------------------------------
(* The actions as transactions of the campaign database *)

(* Only the last step of an activation completes a campaign.                *)
Plain(c) == Transaction(c, 0) /\ camp'[c].state # "completed"
LEMMA StepOnCampaigns ==
  ASSUME TypeOK, JobInv, AllAssumptions, [Next]_vars
  PROVE  \/ UNCHANGED campaignVars
         \/ \E c \in CampaignId : Plain(c)
         \/ \E w \in Worker :
              ActivateComplete(w) /\ job[w].c \in CampaignId /\ Transaction(job[w].c, 0)
<1> USE DEF campaignVars, Plain
<1>1. ASSUME NEW w \in Worker, SubmitReserve(w)
      PROVE  UNCHANGED campaignVars \/ \E c \in CampaignId : Plain(c)
  <2>1. PICK d \in Decision : d = job[w].d
    BY <1>1, JobFacts DEF SubmitReserve, SubmitPcs
  <2>2. PICK c \in CampaignId :
          UNCHANGED campaignVars \/ InsertCampaign(c, TargetOf(d), d, maker[d], 2, "open", 0)
    BY <1>1, <2>1 DEF SubmitReserve, ReuseCampaign
  <2>3. /\ TargetOf(d) \in Target /\ d \in Fingerprint /\ maker[d] \in Actor
        /\ "open" \in InitialStates
    BY DEF TargetOf, AllAssumptions, LifecycleAssumption, RegistryAssumption, InitialStates
  <2>4. ASSUME InsertCampaign(c, TargetOf(d), d, maker[d], 2, "open", 0)
        PROVE  Plain(c)
    <3>1. camp'[c].state = "open"
      BY <2>4, StatesWritten DEF TypeOK
    <3> QED BY <2>3, <2>4, <3>1 DEF Transaction
  <2> QED BY <2>2, <2>4
<1>2. ASSUME NEW w \in Worker, SubmitAttach(w)
      PROVE  \E c \in CampaignId : Plain(c)
  <2>1. job[w].c \in CampaignId /\ job[w].d \in Candidate
    BY <1>2, JobFacts DEF SubmitAttach, SubmitPcs, AllAssumptions, LifecycleAssumption,
                          JobInv, JobInvAt
  <2>2. AttachCandidate(job[w].c, job[w].d, camp[job[w].c].rev, 0)
    BY <1>2 DEF SubmitAttach, AttachCandidate
  <2>3. camp'[job[w].c].state = "candidate_ready"
    BY <2>1, <2>2, StatesWritten DEF TypeOK
  <2> QED BY <2>1, <2>2, <2>3 DEF Transaction
<1>3. ASSUME NEW w \in Worker, NEW to \in CallerStates \ {"completed"}, NEW rev \in Nat,
             job[w].c \in CampaignId, Transition(job[w].c, to, rev, 0, 0)
      PROVE  \E c \in CampaignId : Plain(c)
  <2>1. Transition(job[w].c, to, camp[job[w].c].rev, 0, 0)
    BY <1>3 DEF Transition
  <2>2. camp'[job[w].c].state = to
    BY <1>3, StatesWritten DEF TypeOK
  <2> QED BY <1>3, <2>1, <2>2 DEF Transaction
<1>4. ASSUME NEW w \in Worker, SubmitToApproval(w)
      PROVE  UNCHANGED campaignVars \/ \E c \in CampaignId : Plain(c)
  <2>1. job[w].c \in CampaignId
    BY <1>4 DEF SubmitToApproval, SubmitPcs, JobInv, JobInvAt
  <2>2. ASSUME Transition(job[w].c, "evaluation_pending", camp[job[w].c].rev, 0, 0)
        PROVE  Plain(job[w].c)
    <3>1. camp'[job[w].c].state = "evaluation_pending"
      BY <2>1, <2>2, StatesWritten DEF TypeOK
    <3> QED BY <2>1, <2>2, <3>1 DEF Transaction, CallerStates
  <2> QED BY <1>4, <2>1, <2>2 DEF SubmitToApproval
<1>5. ASSUME NEW w \in Worker, SubmitFinish(w)
      PROVE  \E c \in CampaignId : Plain(c)
  <2>1. job[w].c \in CampaignId /\ job[w].rev \in Nat
    BY <1>5, JobFacts DEF SubmitFinish, SubmitPcs, JobInv, JobInvAt
  <2> QED BY <1>3, <1>5, <2>1 DEF SubmitFinish, CallerStates
<1>6. ASSUME NEW w \in Worker, ActivateComplete(w)
      PROVE  \/ UNCHANGED campaignVars
             \/ job[w].c \in CampaignId /\ Transaction(job[w].c, 0)
  <2>1. job[w].c \in CampaignId
    BY <1>6, JobFacts DEF ActivateComplete, MayComplete
  <2> QED BY <1>6, <2>1 DEF ActivateComplete, Transaction, CallerStates, ClosedStates
<1>7. ASSUME NEW a \in Actor, NEW c \in CampaignId, Approve(a, c) \/ Reject(a, c)
      PROVE  Plain(c)
  <2>1. camp'[c].state # "completed"
    BY <1>7, StatesWritten DEF Approve, Reject, TypeOK
  <2> QED BY <1>7, <2>1 DEF Approve, Reject, Transaction, Decisions
<1>8. ASSUME NEW c \in CampaignId, Cancel(c)
      PROVE  Plain(c)
  <2>1. camp'[c].state # "completed"
    BY <1>8, StatesWritten DEF Cancel, TypeOK
  <2> QED BY <1>8, <2>1 DEF Cancel, Transaction, CallerStates, ClosedStates
<1>9. ASSUME NEW w \in Worker, Call(w) \/ Abort(w)
      PROVE  UNCHANGED campaignVars
  BY <1>9 DEF Call, SubmitStart, SynchronizeStart, ActivateStart, RollbackStart, Begin, Abort
<1>10. ASSUME NEW s \in Snapshot, RegisterFirst(s)
       PROVE  UNCHANGED campaignVars
  BY <1>10 DEF RegisterFirst
<1>11. ASSUME NEW w \in Worker, Progress(w)
       PROVE  \/ UNCHANGED campaignVars \/ \E c \in CampaignId : Plain(c)
              \/ ActivateComplete(w) /\ job[w].c \in CampaignId /\ Transaction(job[w].c, 0)
  <2>1. SubmitAdmit(w) \/ SubmitEvaluate(w) \/ SynchronizeMark(w) \/ ActivateRegistry(w)
          \/ RollbackCommit(w) => UNCHANGED campaignVars
    BY DEF SubmitAdmit, SubmitEvaluate, SynchronizeMark, ActivateRegistry, RollbackCommit
  <2> QED BY <1>1, <1>2, <1>4, <1>5, <1>6, <1>11, <2>1 DEF Progress
<1>12. CASE Next
  BY <1>7, <1>8, <1>9, <1>10, <1>11, <1>12 DEF Next
<1> QED BY <1>12 DEF vars

(* An approved campaign stays approved, or is closed without losing a vote. *)
LEMMA ApprovedStays ==
  ASSUME CampaignsTypeOK, ApprovalInv, NEW c \in CampaignId, Transaction(c, 0)
  PROVE  ApprovalsGoOn
<1> SUFFICES ASSUME NEW e \in CampaignId, NEW d \in Decision, WasApproved(e, d)
             PROVE  WasApproved(e, d)'
  BY DEF ApprovalsGoOn
<1>1. Exists(e) /\ Decided(e)
  BY DEF WasApproved, Exists, Decided, ClosedStates
<1>2. camp'[e].cand = camp[e].cand /\ Approvers(e)' = Approvers(e)
  BY <1>1, DecidedStays
<1>3. camp'[e].state \in {"authorized", "completed", "cancelled"}
  <2>1. CASE e # c
    BY <2>1, OthersUntouched DEF WasApproved
  <2>2. CASE e = c
    <3>1. PICK to \in CallerStates, cool \in Nat : Transition(c, to, camp[c].rev, cool, 0)
      BY <1>1, <2>2
         DEF Transaction, WasApproved, InsertCampaign, AttachCandidate, MayAttach,
             LegalTransitions, RecordApproval
    <3>2. camp'[c].state = to
      BY <3>1, StatesWritten
    <3> QED BY <2>2, <3>1, <3>2 DEF Transition, LegalTransitions, WasApproved
  <2> QED BY <2>1, <2>2
<1> QED BY <1>2, <1>3 DEF WasApproved

(* What a step does to the campaigns.                                       *)
LEMMA CampaignStep ==
  ASSUME IInv, AllAssumptions, [Next]_vars
  PROVE  CampaignsTypeOK' /\ ApprovalInv' /\ ApprovalsGoOn
<1>1. CASE UNCHANGED campaignVars
  BY <1>1 DEF IInv, TypeOK, campaignVars, CampaignsTypeOK, ApprovalInv, ApprovalInvAt, Exists,
              Approvers, ApprovalsGoOn, WasApproved
<1>2. ASSUME NEW c \in CampaignId, Transaction(c, 0)
      PROVE  CampaignsTypeOK' /\ ApprovalInv' /\ ApprovalsGoOn
  BY <1>2, TransactionType, TransactionApproval, ApprovedStays DEF IInv, TypeOK, AllAssumptions
<1> QED BY <1>1, <1>2, StepOnCampaigns DEF IInv, Plain

-----------------------------------------------------------------------------
(* The registry.  Each of its operations keeps what is said of the records  *)
(* and of the lineage, while the campaigns do not lose what was approved.   *)

RegistryInv == RegistryTypeOK /\ RecordInv /\ LineageInv

(* Only the status of one record changes, and not to or from the Champion. *)
LEMMA OneStatus ==
  ASSUME RegistryInv, AllAssumptions, ApprovalsGoOn, NEW s \in Snapshot,
         NEW status \in {"evaluated", "authorized"}, snap[s] \in Record,
         snap[s].status \in {"challenger", "evaluated"},
         status = "authorized" => WasApproved(snap[s].camp, snap[s].dec),
         snap' = [snap EXCEPT ![s].status = status], UNCHANGED <<head, decs>>
  PROVE  RegistryInv' /\ RegistryGoesOn
<1>1. PICK r \in Record : r = snap[s]
  OBVIOUS
<1>2. PICK q \in Record : /\ q = [r EXCEPT !.status = status] /\ q.status = status
                          /\ q.dec = r.dec /\ q.parent = r.parent /\ q.camp = r.camp
  <2>1. status \in Statuses
    BY DEF Statuses
  <2> QED BY <2>1, NewStatus
<1>3. snap' = [snap EXCEPT ![s] = q]
  BY <1>1, <1>2
<1>4. /\ snap'[s] = q /\ Stored(s) /\ Stored(s)'
      /\ \A t \in Snapshot \ {s} : snap'[t] = snap[t]
  BY <1>1, <1>3, RecordFacts DEF RegistryInv, RegistryTypeOK, Stored, Record, NoRecord, Statuses
<1>5. RegistryTypeOK'
  BY <1>3 DEF RegistryInv, RegistryTypeOK
<1>6. \A t \in Snapshot : First(t) <=> First(t)'
  BY <1>1, <1>2, <1>4 DEF First, Stored
<1>7. r.dec # NoDecision /\ r.dec \in Decision /\ r.camp \in CampaignId
  BY <1>1, <1>4 DEF RegistryInv, RecordInv, RecordInvAt, First, Record
<1>8. RecordInv'
  <2>1. RecordInvAt(s)'
    <3>1. PICK c \in CampaignId, d \in Decision : c = r.camp /\ d = r.dec
      BY <1>7
    <3>2. status = "authorized" => WasApproved(c, d)
      BY <1>1, <3>1 DEF WasApproved, Approvers
    <3>3. status = "authorized" => WasApproved(c, d)'
      BY <3>2 DEF ApprovalsGoOn
    <3>4. /\ snap'[s].dec = d /\ snap'[s].camp = c /\ snap'[s].parent = r.parent
          /\ snap'[s].status = status /\ d # NoDecision /\ ~First(s)
      BY <1>1, <1>2, <1>4, <1>7, <3>1 DEF First
    <3>5. d \in decs /\ sel[d] = s /\ r.parent = base[d]
      BY <1>1, <1>4, <1>7, <3>1 DEF RegistryInv, RecordInv, RecordInvAt
    <3>6. status \in {"authorized", "champion", "rolled_back"} =>
            WasApproved(snap[s].camp, snap[s].dec)'
      BY <3>3, <3>4 DEF WasApproved, Approvers
    <3> QED BY <1>4, <1>6, <3>1, <3>4, <3>5, <3>6 DEF RecordInvAt
  <2>2. ASSUME NEW t \in Snapshot \ {s}
        PROVE  RecordInvAt(t)'
    <3>1. CASE Stored(t) /\ snap[t].dec # NoDecision
      <4>1. PICK c \in CampaignId, d \in Decision : c = snap[t].camp /\ d = snap[t].dec
        BY <3>1, RecordFacts DEF RegistryInv, RecordInv, RecordInvAt, Record
      <4>2. WasApproved(c, d) => WasApproved(c, d)'
        BY DEF ApprovalsGoOn
      <4> QED BY <1>4, <3>1, <4>1, <4>2
              DEF RegistryInv, RecordInv, RecordInvAt, First, Stored, WasApproved, Approvers
    <3>2. CASE ~(Stored(t) /\ snap[t].dec # NoDecision)
      BY <1>4, <3>2 DEF RegistryInv, RecordInv, RecordInvAt, First, Stored
    <3> QED BY <3>1, <3>2
  <2> QED BY <2>1, <2>2 DEF RecordInv
<1>9. LineageInv'
  <2>1. \A t \in Snapshot : snap'[t].status = "champion" <=> snap[t].status = "champion"
    BY <1>1, <1>2, <1>4
  <2>2. \A d \in decs : base[d] \in Snapshot
    BY DEF AllAssumptions, RegistryAssumption, RegistryInv, RegistryTypeOK
  <2> QED BY <1>4, <1>6, <2>1, <2>2 DEF RegistryInv, LineageInv, Stored
<1>10. RegistryGoesOn
  BY <1>1, <1>2, <1>4 DEF RegistryGoesOn, Stored, Activated
<1> QED BY <1>5, <1>8, <1>9, <1>10 DEF RegistryInv

(* An untouched record stays as it should be.                               *)
LEMMA SameRecord ==
  ASSUME RegistryInv, ApprovalsGoOn, NEW s \in Snapshot, snap'[s] = snap[s], decs \subseteq decs'
  PROVE  RecordInvAt(s)'
<1>1. CASE Stored(s) /\ snap[s].dec # NoDecision
  <2>1. PICK c \in CampaignId, d \in Decision : c = snap[s].camp /\ d = snap[s].dec
    BY <1>1, RecordFacts DEF RegistryInv, RecordInv, RecordInvAt, Record
  <2>2. WasApproved(c, d) => WasApproved(c, d)'
    BY DEF ApprovalsGoOn
  <2> QED BY <1>1, <2>1, <2>2
          DEF RegistryInv, RecordInv, RecordInvAt, First, Stored, WasApproved, Approvers
<1>2. CASE ~(Stored(s) /\ snap[s].dec # NoDecision)
  BY <1>2 DEF RegistryInv, RecordInv, RecordInvAt, First, Stored
<1> QED BY <1>1, <1>2

LEMMA DecisionFacts ==
  ASSUME RegistryInv, AllAssumptions, NEW d \in decs
  PROVE  d \in Decision /\ base[d] \in Snapshot /\ sel[d] \in Snapshot /\ base[d] # sel[d]
BY DEF AllAssumptions, RegistryAssumption, RegistryInv, RegistryTypeOK

LEMMA SameRegistry ==
  ASSUME RegistryInv, AllAssumptions, ApprovalsGoOn, UNCHANGED registryVars
  PROVE  RegistryInv' /\ RegistryGoesOn
<1>1. RecordInv'
  BY SameRecord DEF RecordInv, registryVars
<1> QED BY <1>1 DEF RegistryInv, RegistryTypeOK, registryVars, LineageInv, First, Stored,
                    RegistryGoesOn, Activated

(* register_initial                                                         *)
LEMMA RegisterInitialStep ==
  ASSUME RegistryInv, AllAssumptions, NEW s \in Snapshot, RegisterInitial(s)
  PROVE  RegistryInv' /\ RegistryGoesOn
<1>1. PICK r \in Record : /\ snap' = [snap EXCEPT ![s] = r] /\ r.status = "champion"
                          /\ r.parent = NoSnapshot /\ r.dec = NoDecision
  <2>1. [status |-> "champion", parent |-> NoSnapshot, dec |-> NoDecision, camp |-> NoCampaign]
          \in Record
    BY DEF Record, Statuses
  <2> QED BY <2>1 DEF RegisterInitial
<1>2. /\ snap'[s] = r /\ Stored(s)' /\ \A t \in Snapshot \ {s} : snap'[t] = snap[t] /\ ~Stored(t)'
      /\ \A t \in Snapshot : ~Stored(t)
  BY <1>1 DEF RegistryInv, LineageInv, RegistryTypeOK, RegisterInitial, Stored, Record, NoRecord
<1>3. decs' = {} /\ decs = {}
  <2>1. decs = {}
    BY <1>2, DecisionFacts DEF RegistryInv, LineageInv, First
  <2> QED BY <2>1 DEF RegisterInitial
<1>4. RegistryTypeOK'
  BY <1>1, <1>3 DEF RegistryInv, RegistryTypeOK, RegisterInitial
<1>5. RecordInv'
  BY <1>1, <1>2 DEF RecordInv, RecordInvAt, First
<1>6. \A t \in Snapshot \ {s} : snap'[t].status # "champion"
  BY <1>2 DEF Stored, NoRecord
<1>7. LineageInv'
  BY <1>1, <1>2, <1>3, <1>6 DEF LineageInv, First, RegisterInitial, AllAssumptions,
                                RegistryAssumption
<1> QED BY <1>2, <1>3, <1>4, <1>5, <1>7
        DEF RegistryInv, RegistryGoesOn, RegisterInitial

(* store_decision, after the Champion was found to be the first snapshot.  *)
LEMMA StoreDecisionStep ==
  ASSUME RegistryInv, AllAssumptions, ApprovalsGoOn, NEW d \in Decision, StoreDecision(d),
         head.active = base[d], snap[head.active].dec = NoDecision
  PROVE  RegistryInv' /\ RegistryGoesOn
<1>1. snap' = snap /\ head' = head /\ decs' = decs \cup {d}
  BY DEF StoreDecision
<1>2. RecordInv'
  BY <1>1, SameRecord DEF RecordInv
<1>3. First(base[d])
  <2>1. base[d] \in Snapshot /\ base[d] # NoSnapshot
    BY DEF AllAssumptions, RegistryAssumption
  <2>2. snap[base[d]].status = "champion"
    BY <2>1 DEF RegistryInv, LineageInv
  <2> QED BY <2>1, <2>2, RecordFacts DEF RegistryInv, First, Statuses
<1> QED BY <1>1, <1>2, <1>3 DEF RegistryInv, RegistryTypeOK, LineageInv, First, Stored,
                                RegistryGoesOn, Activated

(* admit_challenger: a decision was stored for it, against the first one.   *)
LEMMA AdmitStep ==
  ASSUME RegistryInv, AllAssumptions, ApprovalsGoOn, NEW d \in decs, NEW c \in CampaignId,
         AdmitChallenger(d, c)
  PROVE  RegistryInv' /\ RegistryGoesOn
<1>1. CASE snap' = snap
  BY <1>1, SameRegistry DEF AdmitChallenger, registryVars
<1>2. CASE snap' # snap
  <2>1. PICK s \in Snapshot, b \in Snapshot : s = sel[d] /\ b = base[d] /\ s # b
    BY DecisionFacts
  <2>2. PICK r \in Record : /\ snap' = [snap EXCEPT ![s] = r] /\ r.status = "challenger"
                            /\ r.parent = b /\ r.dec = d /\ r.camp = c
    BY <1>2, <2>1, DecisionFacts DEF AdmitChallenger, Admitted, Record, Statuses
  <2>3. ~Stored(s) /\ head' = head /\ decs' = decs /\ d # NoDecision
    BY <1>2, <2>1, DecisionFacts
       DEF AdmitChallenger, Stored, AllAssumptions, RegistryAssumption
  <2>4. /\ snap'[s] = r /\ Stored(s)' /\ \A t \in Snapshot \ {s} : snap'[t] = snap[t]
        /\ snap[s].status # "champion"
    BY <2>2, <2>3 DEF RegistryInv, RegistryTypeOK, Stored, Record, NoRecord
  <2>5. RegistryTypeOK'
    BY <2>2, <2>3 DEF RegistryInv, RegistryTypeOK
  <2>6. RecordInv'
    <3>1. RecordInvAt(s)'
      BY <2>1, <2>2, <2>3, <2>4 DEF RecordInvAt, First
    <3> QED BY <2>3, <2>4, <3>1, SameRecord DEF RecordInv
  <2>7. \A t \in Snapshot : First(t) <=> First(t)'
    BY <2>2, <2>3, <2>4 DEF First, Stored
  <2>8. LineageInv'
    <3>1. \A t \in Snapshot : snap'[t].status = "champion" <=> snap[t].status = "champion"
      BY <2>2, <2>4
    <3>2. head.active # NoSnapshot
      BY <2>3, DecisionFacts DEF RegistryInv, LineageInv, First
    <3> QED BY <2>3, <2>7, <3>1, <3>2, DecisionFacts DEF RegistryInv, LineageInv
  <2>9. RegistryGoesOn
    BY <2>3, <2>4 DEF RegistryGoesOn, Stored, Activated
  <2> QED BY <2>5, <2>6, <2>8, <2>9 DEF RegistryInv
<1> QED BY <1>1, <1>2

(* record_evaluation *)
LEMMA EvaluationStep ==
  ASSUME RegistryInv, AllAssumptions, ApprovalsGoOn, NEW d \in Decision, RecordEvaluation(d)
  PROVE  RegistryInv' /\ RegistryGoesOn
<1>1. CASE snap' = snap
  BY <1>1, SameRegistry DEF RecordEvaluation, registryVars
<1>2. CASE snap' # snap
  <2>1. PICK s \in Snapshot : s = sel[d]
    BY DEF AllAssumptions, RegistryAssumption
  <2>2. /\ snap[s].status = "challenger" /\ UNCHANGED <<head, decs>>
        /\ snap' = [snap EXCEPT ![s].status = "evaluated"]
    BY <1>2, <2>1 DEF RecordEvaluation
  <2>3. snap[s] \in Record
    BY <2>2, RecordFacts DEF RegistryInv, Statuses
  <2> QED BY <2>2, <2>3, OneStatus
<1> QED BY <1>1, <1>2

(* mark_authorized, for a record whose decision its campaign approved.     *)
LEMMA MarkStep ==
  ASSUME RegistryInv, AllAssumptions, ApprovalsGoOn, NEW s \in Snapshot, NEW c \in CampaignId,
         MarkAuthorized(s, c), WasApproved(c, snap[s].dec)
  PROVE  RegistryInv' /\ RegistryGoesOn
<1>1. CASE snap' = snap
  BY <1>1, SameRegistry DEF MarkAuthorized, registryVars
<1>2. CASE snap' # snap
  <2>1. /\ snap[s].status = "evaluated" /\ UNCHANGED <<head, decs>> /\ snap[s].camp = c
        /\ snap' = [snap EXCEPT ![s].status = "authorized"]
    BY <1>2 DEF MarkAuthorized
  <2>2. snap[s] \in Record
    BY <2>1, RecordFacts DEF RegistryInv, Statuses
  <2>3. WasApproved(snap[s].camp, snap[s].dec)
    BY <2>1 DEF WasApproved, Approvers
  <2> QED BY <2>1, <2>2, <2>3, OneStatus
<1> QED BY <1>1, <1>2

(* The pointer moves from one of the first and its child to the other.      *)
LEMMA MoveStep ==
  ASSUME RegistryInv, AllAssumptions, ApprovalsGoOn,
         NEW a \in Snapshot, a = head.active, NEW s \in Snapshot, s # a,
         Stored(a), Stored(s), NEW left \in {"retired", "rolled_back"},
         snap[a].status = "champion",
         \/ /\ left = "retired" /\ First(a) /\ ~First(s)
            /\ snap[s].status = "authorized"
         \/ /\ left = "rolled_back" /\ ~First(a) /\ First(s)
            /\ snap[s].status = "retired",
         MovePointer(s, left)
  PROVE  RegistryInv' /\ RegistryGoesOn
<1>1. PICK ra \in Record, rs \in Record : ra = snap[a] /\ rs = snap[s]
  BY RecordFacts DEF RegistryInv
<1>2. PICK qa \in Record : /\ qa = [ra EXCEPT !.status = left] /\ qa.status = left
                           /\ qa.dec = ra.dec /\ qa.parent = ra.parent /\ qa.camp = ra.camp
  <2>1. left \in Statuses
    BY DEF Statuses
  <2> QED BY <2>1, NewStatus
<1>3. PICK qs \in Record : /\ qs = [rs EXCEPT !.status = "champion"] /\ qs.status = "champion"
                           /\ qs.dec = rs.dec /\ qs.parent = rs.parent /\ qs.camp = rs.camp
  <2>1. "champion" \in Statuses
    BY DEF Statuses
  <2> QED BY <2>1, NewStatus
<1>4. /\ snap' = [snap EXCEPT ![a] = qa, ![s] = qs]
      /\ head' = [active |-> s, rev |-> head.rev + 1] /\ decs' = decs
  BY <1>1, <1>2, <1>3 DEF MovePointer, RegistryInv, RegistryTypeOK
<1>5. /\ snap'[a] = qa /\ snap'[s] = qs /\ \A t \in Snapshot \ {a, s} : snap'[t] = snap[t]
      /\ head'.active = s /\ head'.rev = head.rev + 1
  BY <1>4 DEF RegistryInv, RegistryTypeOK
<1>6. /\ snap'[a].status = left /\ snap'[s].status = "champion"
      /\ \A t \in Snapshot : /\ Stored(t) <=> Stored(t)'
                             /\ snap'[t].dec = snap[t].dec /\ snap'[t].parent = snap[t].parent
                             /\ snap'[t].camp = snap[t].camp
  <2>1. qa # NoRecord /\ qs # NoRecord
    BY DEF Record, NoRecord, Statuses
  <2>2. /\ Stored(a)' /\ snap'[a].status = left
        /\ snap'[a].dec = snap[a].dec /\ snap'[a].parent = snap[a].parent
        /\ snap'[a].camp = snap[a].camp
    BY <1>1, <1>2, <1>5, <2>1 DEF Stored
  <2>3. /\ Stored(s)' /\ snap'[s].status = "champion"
        /\ snap'[s].dec = snap[s].dec /\ snap'[s].parent = snap[s].parent
        /\ snap'[s].camp = snap[s].camp
    BY <1>1, <1>3, <1>5, <2>1 DEF Stored
  <2>4. ASSUME NEW t \in Snapshot \ {a, s}
        PROVE  snap'[t] = snap[t]
    BY <1>5
  <2> QED BY <2>2, <2>3, <2>4 DEF Stored
<1>7. RegistryTypeOK'
  BY <1>4, <1>5 DEF RegistryInv, RegistryTypeOK
<1>8. \A t \in Snapshot : First(t) <=> First(t)'
  BY <1>6 DEF First
<1>9. RecordInv'
  <2>1. ASSUME NEW t \in {a, s}, First(t)
        PROVE  RecordInvAt(t)'
    <3>1. /\ snap[t].parent = NoSnapshot /\ snap[t].dec = NoDecision
          /\ snap'[t].parent = snap[t].parent /\ snap'[t].dec = snap[t].dec
          /\ snap'[t].status \in {"champion", "retired"}
      BY <1>6, <2>1 DEF RegistryInv, RecordInv, RecordInvAt, First
    <3> QED BY <3>1 DEF RecordInvAt, First
  <2>2. ASSUME NEW t \in {a, s}, ~First(t)
        PROVE  RecordInvAt(t)'
    <3>1. /\ snap'[t].parent = snap[t].parent /\ snap'[t].dec = snap[t].dec
          /\ snap'[t].camp = snap[t].camp /\ snap'[t].status \in {"champion", "rolled_back"}
          /\ snap[t].status \in {"champion", "authorized"}
          /\ snap[t].dec # NoDecision /\ Stored(t)
      BY <1>6, <2>2 DEF First
    <3>2. /\ snap[t].dec \in decs /\ sel[snap[t].dec] = t /\ snap[t].parent = base[snap[t].dec]
          /\ snap[t].camp \in CampaignId /\ WasApproved(snap[t].camp, snap[t].dec)
      BY <3>1 DEF RegistryInv, RecordInv, RecordInvAt
    <3>3. PICK c \in CampaignId, d \in Decision : c = snap[t].camp /\ d = snap[t].dec
      BY <3>2, DecisionFacts
    <3>4. WasApproved(c, d)'
      <4>1. WasApproved(c, d)
        BY <3>2, <3>3 DEF WasApproved, Approvers
      <4> QED BY <4>1 DEF ApprovalsGoOn
    <3>5. WasApproved(snap[t].camp, snap[t].dec)'
      BY <3>1, <3>3, <3>4 DEF WasApproved, Approvers
    <3> QED BY <1>4, <3>1, <3>2, <3>5 DEF RecordInvAt, First
  <2>3. ASSUME NEW t \in Snapshot \ {a, s}
        PROVE  RecordInvAt(t)'
    BY <1>4, <1>5, SameRecord
  <2> QED BY <2>1, <2>2, <2>3 DEF RecordInv
<1>10. LineageInv'
  <2>1. \A t \in Snapshot \ {a, s} : snap[t].status # "champion"
    BY DEF RegistryInv, LineageInv, AllAssumptions, RegistryAssumption
  <2>2. \A t \in Snapshot : snap'[t].status = "champion" <=> t = s
    BY <1>5, <1>6, <2>1
  <2>3. s # NoSnapshot
    BY DEF AllAssumptions, RegistryAssumption
  <2> QED BY <1>4, <1>5, <1>8, <2>2, <2>3, DecisionFacts DEF RegistryInv, LineageInv
<1>11. RegistryGoesOn
  <2>1. \A t \in Snapshot : /\ Activated(t) => Activated(t)'
                            /\ snap[t].status = "rolled_back" => snap'[t] = snap[t]
    BY <1>5, <1>6 DEF Activated
  <2>2. s # NoSnapshot
    BY DEF AllAssumptions, RegistryAssumption
  <2> QED BY <1>4, <1>5, <1>6, <2>1, <2>2 DEF RegistryGoesOn
<1> QED BY <1>7, <1>9, <1>10, <1>11 DEF RegistryInv

(* What activate_snapshot finds: only the first snapshot has children.      *)
LEMMA ActivateFacts ==
  ASSUME RegistryInv, AllAssumptions, NEW s \in Snapshot, NEW c, MayActivate(s, c)
  PROVE  /\ head.active \in Snapshot /\ head.active # s
         /\ First(head.active) /\ ~First(s) /\ Stored(s)
         /\ snap[head.active].status = "champion"
         /\ snap[s].dec \in decs /\ WasApproved(c, snap[s].dec)
<1>1. Stored(s) /\ snap[s].status = "authorized" /\ snap[s].camp = c
  BY RecordFacts DEF MayActivate, RegistryInv, Statuses
<1>2. snap[s].dec # NoDecision /\ ~First(s)
  BY <1>1 DEF RegistryInv, RecordInv, RecordInvAt, First
<1>3. PICK d \in decs : /\ d = snap[s].dec /\ sel[d] = s /\ base[d] = head.active
                        /\ WasApproved(snap[s].camp, snap[s].dec)
  BY <1>1, <1>2 DEF RegistryInv, RecordInv, RecordInvAt, MayActivate
<1>4. head.active \in Snapshot /\ head.active # s /\ head.active # NoSnapshot
  BY <1>3, DecisionFacts DEF AllAssumptions, RegistryAssumption
<1>5. First(head.active) /\ snap[head.active].status = "champion"
  BY <1>3, <1>4 DEF RegistryInv, LineageInv, First, Stored
<1>6. WasApproved(c, snap[s].dec)
  BY <1>1, <1>3 DEF WasApproved, Approvers
<1> QED BY <1>1, <1>2, <1>3, <1>4, <1>5, <1>6

LEMMA ActivateStep ==
  ASSUME RegistryInv, AllAssumptions, ApprovalsGoOn, NEW s \in Snapshot, NEW c \in CampaignId,
         NEW rev, ActivateSnapshot(s, c, rev)
  PROVE  RegistryInv' /\ RegistryGoesOn
<1>1. PICK a \in Snapshot : /\ a = head.active /\ a # s /\ First(a) /\ ~First(s) /\ Stored(s)
                            /\ snap[a].status = "champion" /\ Stored(a)
  BY ActivateFacts DEF ActivateSnapshot, First, Stored
<1> QED BY <1>1, MoveStep DEF ActivateSnapshot, MayActivate

(* What roll_back finds: only the first snapshot is ever retired.           *)
LEMMA RollBackFacts ==
  ASSUME RegistryInv, AllAssumptions, NEW s \in Snapshot, head.active # NoSnapshot,
         MayRollBack(s)
  PROVE  /\ head.active \in Snapshot /\ head.active # s
         /\ ~First(head.active) /\ First(s) /\ Stored(head.active) /\ Stored(s)
<1>1. head.active \in Snapshot
  BY DEF RegistryInv, RegistryTypeOK
<1>2. Stored(s) /\ Stored(head.active)
  BY <1>1, RecordFacts DEF MayRollBack, RegistryInv, Statuses, Stored
<1>3. First(s) /\ ~First(head.active)
  BY <1>1, <1>2 DEF MayRollBack, RegistryInv, RecordInv, RecordInvAt, First, Stored,
                    AllAssumptions, RegistryAssumption
<1>4. head.active # s
  BY <1>3
<1> QED BY <1>1, <1>2, <1>3, <1>4

LEMMA RollBackStep ==
  ASSUME RegistryInv, AllAssumptions, ApprovalsGoOn, NEW s \in Snapshot, NEW rev, RollBack(s, rev)
  PROVE  RegistryInv' /\ RegistryGoesOn
<1>1. PICK a \in Snapshot : /\ a = head.active /\ a # s /\ ~First(a) /\ First(s) /\ Stored(s)
                            /\ Stored(a) /\ snap[a].status = "champion"
  BY RollBackFacts DEF RollBack, MayRollBack, Stored
<1> QED BY <1>1, MoveStep DEF RollBack, MayRollBack

-----------------------------------------------------------------------------
(* The steps of the calls *)

(* A call moves the registry by at most one of its operations.              *)
LEMMA StepOnRegistry ==
  ASSUME IInv, AllAssumptions, [Next]_vars
  PROVE  RegistryInv' /\ RegistryGoesOn
<1>1. RegistryInv /\ ApprovalsGoOn
  BY CampaignStep DEF IInv, RegistryInv, TypeOK
<1>2. CASE UNCHANGED registryVars
  BY <1>1, <1>2, SameRegistry
<1>3. ASSUME NEW s \in Snapshot, RegisterFirst(s)
      PROVE  RegistryInv' /\ RegistryGoesOn
  BY <1>1, <1>3, RegisterInitialStep DEF RegisterFirst
<1>4. ASSUME NEW w \in Worker, Call(w)
      PROVE  RegistryInv' /\ RegistryGoesOn
  <2>1. CASE \E d \in Decision : SubmitStart(w, d)
    BY <1>1, <2>1, StoreDecisionStep DEF SubmitStart
  <2>2. CASE UNCHANGED registryVars
    BY <1>2, <2>2
  <2> QED BY <1>4, <2>1, <2>2
          DEF Call, SynchronizeStart, ActivateStart, RollbackStart, Begin
<1>5. ASSUME NEW w \in Worker, Progress(w)
      PROVE  RegistryInv' /\ RegistryGoesOn
  <2>1. CASE SubmitAdmit(w)
    <3>1. job[w].d \in decs /\ job[w].c \in CampaignId
      BY <2>1 DEF SubmitAdmit, IInv, JobInv, JobInvAt, SubmitPcs
    <3> QED BY <1>1, <2>1, <3>1, AdmitStep DEF SubmitAdmit
  <2>2. CASE SubmitEvaluate(w)
    <3>1. job[w].d \in Decision
      BY <2>2, JobFacts DEF SubmitEvaluate, SubmitPcs, IInv
    <3> QED BY <1>1, <2>2, <3>1, EvaluationStep DEF SubmitEvaluate
  <2>3. CASE SynchronizeMark(w)
    <3>1. PICK s \in Snapshot, c \in CampaignId : s = job[w].s /\ c = job[w].c
      BY <2>3, JobFacts DEF SynchronizeMark, IInv
    <3>2. WasApproved(c, snap[s].dec) /\ MarkAuthorized(s, c)
      BY <2>3, <3>1 DEF SynchronizeMark, IInv, JobInv, JobInvAt
    <3> QED BY <1>1, <3>2, MarkStep
  <2>4. CASE ActivateRegistry(w)
    <3>1. PICK s \in Snapshot, c \in CampaignId, rev \in Nat :
            ActivateSnapshot(s, c, rev)
      BY <2>4, JobFacts DEF ActivateRegistry, IInv
    <3> QED BY <1>1, <3>1, ActivateStep
  <2>5. CASE RollbackCommit(w)
    <3>1. PICK s \in Snapshot, rev \in Nat : RollBack(s, rev)
      BY <2>5, JobFacts DEF RollbackCommit, IInv
    <3> QED BY <1>1, <3>1, RollBackStep
  <2>6. CASE UNCHANGED registryVars
    BY <1>2, <2>6
  <2> QED BY <1>5, <2>1, <2>2, <2>3, <2>4, <2>5, <2>6
          DEF Progress, SubmitReserve, SubmitAttach, SubmitToApproval, SubmitFinish,
              ActivateComplete
<1>6. CASE UNCHANGED vars
  BY <1>2, <1>6 DEF vars
<1>7. CASE Next
  BY <1>2, <1>3, <1>4, <1>5, <1>7 DEF Next, Abort, Approve, Reject, Cancel
<1> QED BY <1>6, <1>7

(* What another call relies on is not taken from it.                        *)
LEMMA OtherJob ==
  ASSUME IInv, RegistryGoesOn, ApprovalsGoOn, RegistryTypeOK', NEW v \in Worker,
         job'[v] = job[v]
  PROVE  JobInvAt(v)'
<1>1. JobInvAt(v)
  BY DEF IInv, JobInv
<1>2. CASE job[v].pc \in SubmitPcs
  BY <1>1, <1>2 DEF JobInvAt, SubmitPcs, RegistryGoesOn
<1>3. CASE job[v].pc \in {"mark", "complete"}
  <2>1. PICK s \in Snapshot, c \in CampaignId : s = job[v].s /\ c = job[v].c
    BY <1>3, JobFacts DEF IInv
  <2>2. /\ Stored(s) /\ snap[s].dec # NoDecision /\ WasApproved(c, snap[s].dec)
        /\ job[v].pc = "complete" => Activated(s) /\ snap[s].camp = c
    BY <1>1, <1>3, <2>1 DEF JobInvAt
  <2>3. PICK d \in Decision : d = snap[s].dec
    BY <2>2, RecordFacts DEF IInv, TypeOK, Record
  <2>4. WasApproved(c, d)'
    <3>1. WasApproved(c, d)
      BY <2>2, <2>3 DEF WasApproved, Approvers
    <3> QED BY <3>1 DEF ApprovalsGoOn
  <2>5. /\ Stored(s)' /\ snap'[s].dec = d /\ snap'[s].camp = snap[s].camp
        /\ Activated(s) => Activated(s)'
    BY <2>2, <2>3 DEF RegistryGoesOn
  <2>6. d # NoDecision
    BY <2>2, <2>3
  <2>7. Stored(job[v].s)' /\ snap'[job'[v].s].dec # NoDecision
    BY <2>1, <2>5, <2>6 DEF Stored
  <2>8. WasApproved(job[v].c, snap[job[v].s].dec)'
    BY <2>1, <2>4, <2>5 DEF WasApproved, Approvers
  <2>9. job'[v].pc = "complete" =>
          Activated(job[v].s)' /\ snap'[job'[v].s].camp = job'[v].c
    BY <2>1, <2>2, <2>5 DEF Activated
  <2> QED BY <1>3, <2>7, <2>8, <2>9 DEF JobInvAt, SubmitPcs
<1>4. CASE job[v].pc = "rollback"
  <2>1. PICK n \in Nat, m \in Nat, k \in Nat : n = job[v].rev /\ m = head.rev /\ k = head'.rev
    BY <1>4, JobFacts DEF IInv, TypeOK, RegistryTypeOK
  <2>2. head.active # NoSnapshot /\ n <= m /\ (n = m => job[v].seen = head.active)
    BY <1>1, <1>4, <2>1 DEF JobInvAt
  <2>3. head' = head \/ (head'.active # NoSnapshot /\ k = m + 1)
    BY <2>1, <2>2 DEF RegistryGoesOn
  <2> QED BY <1>4, <2>1, <2>2, <2>3 DEF JobInvAt, SubmitPcs
<1>5. CASE job[v].pc \notin SubmitPcs \cup {"mark", "complete", "rollback"}
  BY <1>5 DEF JobInvAt
<1> QED BY <1>2, <1>3, <1>4, <1>5

(* A caller goes on to another step of its call, begins one, or ends it.    *)
Goes(w, new) == new \in Jobs \cup {Idle} /\ job' = [job EXCEPT ![w] = new]

LEMMA SubmitGoes ==
  ASSUME TypeOK, NEW w \in Worker, job[w].pc \in SubmitPcs, NEW pc \in SubmitPcs
  PROVE  /\ job' = [job EXCEPT ![w].pc = pc] =>
              \E new : Goes(w, new) /\ new.pc = pc /\ new.d = job[w].d /\ new.c = job[w].c
         /\ \A c \in CampaignId : job' = [job EXCEPT ![w].pc = pc, ![w].c = c] =>
              \E new : Goes(w, new) /\ new.pc = pc /\ new.d = job[w].d /\ new.c = c
         /\ \A rev \in Nat : job' = [job EXCEPT ![w].pc = pc, ![w].rev = rev] =>
              \E new : Goes(w, new) /\ new.pc = pc /\ new.d = job[w].d /\ new.c = job[w].c
<1> DEFINE S == [pc: SubmitPcs, d: Decision, c: CampaignId \cup {NoCampaign}, rev: Nat]
<1>1. PICK j \in S : j = job[w]
  BY DEF TypeOK, Jobs, SubmitPcs, Idle
<1>2. \A new \in S : job' = [job EXCEPT ![w] = new] => Goes(w, new)
  BY DEF Goes, Jobs
<1>3. ASSUME job' = [job EXCEPT ![w].pc = pc]
      PROVE  \E new : Goes(w, new) /\ new.pc = pc /\ new.d = j.d /\ new.c = j.c
  <2> DEFINE q == [j EXCEPT !.pc = pc]
  <2>0. q \in S /\ q.pc = pc /\ q.d = j.d /\ q.c = j.c
    OBVIOUS
  <2>1. PICK new \in S : new = q /\ new.pc = pc /\ new.d = j.d /\ new.c = j.c
    BY <2>0
  <2> QED BY <1>1, <1>2, <1>3, <2>1
<1>4. ASSUME NEW c \in CampaignId, job' = [job EXCEPT ![w].pc = pc, ![w].c = c]
      PROVE  \E new : Goes(w, new) /\ new.pc = pc /\ new.d = j.d /\ new.c = c
  <2> DEFINE q == [j EXCEPT !.pc = pc, !.c = c]
  <2>0. q \in S /\ q.pc = pc /\ q.d = j.d /\ q.c = c
    OBVIOUS
  <2>1. PICK new \in S : new = q /\ new.pc = pc /\ new.d = j.d /\ new.c = c
    BY <2>0
  <2>2. job' = [job EXCEPT ![w] = new]
    BY <1>1, <1>4, <2>1 DEF TypeOK
  <2> QED BY <1>2, <2>1, <2>2
<1>5. ASSUME NEW rev \in Nat, job' = [job EXCEPT ![w].pc = pc, ![w].rev = rev]
      PROVE  \E new : Goes(w, new) /\ new.pc = pc /\ new.d = j.d /\ new.c = j.c
  <2> DEFINE q == [j EXCEPT !.pc = pc, !.rev = rev]
  <2>0. q \in S /\ q.pc = pc /\ q.d = j.d /\ q.c = j.c
    OBVIOUS
  <2>1. PICK new \in S : new = q /\ new.pc = pc /\ new.d = j.d /\ new.c = j.c
    BY <2>0
  <2>2. job' = [job EXCEPT ![w] = new]
    BY <1>1, <1>5, <2>1 DEF TypeOK
  <2> QED BY <1>2, <2>1, <2>2
<1> QED BY <1>1, <1>3, <1>4, <1>5

(* The steps of evaluate_and_submit know their decision and their campaign. *)
LEMMA SubmitJobStep ==
  ASSUME IInv, AllAssumptions, RegistryGoesOn, NEW w \in Worker,
         \/ \E d \in Decision : SubmitStart(w, d)
         \/ SubmitReserve(w) \/ SubmitAttach(w) \/ SubmitAdmit(w) \/ SubmitEvaluate(w)
         \/ SubmitToApproval(w) \/ SubmitFinish(w)
  PROVE  \E new : Goes(w, new) /\ \/ new = Idle
                                  \/ /\ new.pc \in SubmitPcs /\ new.d \in decs'
                                     /\ new.pc # "reserve" => new.c \in CampaignId
<1>1. TypeOK /\ decs \subseteq decs'
  BY DEF IInv, RegistryGoesOn
<1>2. job[w].pc \in SubmitPcs => job[w].d \in decs /\ job[w].d \in decs'
  BY <1>1 DEF IInv, JobInv, JobInvAt
<1>3. job[w].pc \in SubmitPcs \ {"reserve"} => job[w].c \in CampaignId
  BY DEF IInv, JobInv, JobInvAt
<1>4. ASSUME NEW d \in Decision, SubmitStart(w, d)
      PROVE  \E new : Goes(w, new) /\ new.pc = "reserve" /\ new.d \in decs'
  <2> DEFINE q == [pc |-> "reserve", d |-> d, c |-> NoCampaign, rev |-> 0]
  <2>0. q \in Jobs /\ q.pc = "reserve" /\ q.d = d
    BY DEF Jobs, SubmitPcs
  <2>1. PICK new \in Jobs : new = q /\ new.pc = "reserve" /\ new.d = d
    BY <2>0
  <2>2. Goes(w, new) /\ d \in decs'
    BY <1>4, <2>1 DEF SubmitStart, StoreDecision, Goes
  <2> QED BY <2>1, <2>2
<1>5. CASE SubmitReserve(w)
  <2>1. PICK c \in CampaignId, pc \in SubmitPcs :
          job' = [job EXCEPT ![w].pc = pc, ![w].c = c]
    BY <1>5 DEF SubmitReserve, SubmitPcs
  <2>2. job[w].pc \in SubmitPcs
    BY <1>5 DEF SubmitReserve, SubmitPcs
  <2>3. \A e \in CampaignId : job' = [job EXCEPT ![w].pc = pc, ![w].c = e] =>
          \E new : Goes(w, new) /\ new.pc = pc /\ new.d = job[w].d /\ new.c = e
    BY <1>1, <2>2, SubmitGoes, ZenonT(30)
  <2>4. \E new : Goes(w, new) /\ new.pc = pc /\ new.d = job[w].d /\ new.c = c
    BY <2>1, <2>3
  <2> QED BY <1>2, <2>2, <2>4
<1>6. CASE SubmitAttach(w) \/ SubmitAdmit(w) \/ SubmitEvaluate(w)
  <2>1. PICK pc \in SubmitPcs : job' = [job EXCEPT ![w].pc = pc]
    BY <1>6 DEF SubmitAttach, SubmitAdmit, SubmitEvaluate, Goto, SubmitPcs
  <2>2. job[w].pc \in SubmitPcs \ {"reserve"}
    BY <1>6 DEF SubmitAttach, SubmitAdmit, SubmitEvaluate, SubmitPcs
  <2>3. \E new : Goes(w, new) /\ new.pc = pc /\ new.d = job[w].d /\ new.c = job[w].c
    BY <1>1, <2>1, <2>2, SubmitGoes
  <2> QED BY <1>2, <1>3, <2>2, <2>3
<1>7. ASSUME Done(w)
      PROVE  Goes(w, Idle)
  BY <1>7 DEF Done, Goes
<1>8. CASE SubmitToApproval(w)
  <2>1. job[w].pc \in SubmitPcs \ {"reserve"} /\ "finish" \in SubmitPcs
    BY <1>8 DEF SubmitToApproval, SubmitPcs
  <2>2. CASE Done(w)
    BY <1>7, <2>2
  <2>3. CASE ~Done(w)
    <3>1. PICK rev \in Nat : rev = camp[job[w].c].rev + 1
      <4>1. Exists(job[w].c)
        BY <1>8, <2>3 DEF SubmitToApproval, Transition
      <4>2. camp[job[w].c] \in RowBy(Actor)
        BY <1>1, <1>3, <2>1, <4>1, RowFacts DEF TypeOK
      <4> QED BY <4>2 DEF RowBy
    <3>2. job' = [job EXCEPT ![w].pc = "finish", ![w].rev = rev]
      BY <1>8, <2>3, <3>1 DEF SubmitToApproval
    <3>3. \E new : Goes(w, new) /\ new.pc = "finish" /\ new.d = job[w].d /\ new.c = job[w].c
      BY <1>1, <2>1, <3>2, SubmitGoes
    <3> QED BY <1>2, <1>3, <2>1, <3>3
  <2> QED BY <2>2, <2>3
<1>9. CASE SubmitFinish(w)
  BY <1>7, <1>9 DEF SubmitFinish
<1> QED BY <1>4, <1>5, <1>6, <1>8, <1>9 DEF SubmitPcs

(* A worker's new record, whatever the others do.                           *)
LEMMA JobsAfter ==
  ASSUME IInv, CampaignsTypeOK', RegistryInv', RegistryGoesOn, ApprovalsGoOn,
         NEW w \in Worker, NEW new,
         Goes(w, new), job'[w] = new => JobInvAt(w)'
  PROVE  TypeOK' /\ JobInv'
<1>1. job' \in [Worker -> Jobs \cup {Idle}] /\ job'[w] = new
  BY DEF Goes, IInv, TypeOK
<1>2. ASSUME NEW v \in Worker
      PROVE  JobInvAt(v)'
  <2>1. CASE v = w
    BY <1>1, <2>1
  <2>2. CASE v # w
    <3>1. job'[v] = job[v]
      BY <2>2 DEF Goes, IInv, TypeOK
    <3> QED BY <3>1, OtherJob DEF RegistryInv
  <2> QED BY <2>1, <2>2
<1> QED BY <1>1, <1>2 DEF TypeOK, JobInv, RegistryInv

LEMMA JobStep ==
  ASSUME IInv, AllAssumptions, [Next]_vars
  PROVE  TypeOK' /\ JobInv'
<1>1. /\ RegistryInv' /\ RegistryGoesOn /\ ApprovalsGoOn /\ CampaignsTypeOK'
      /\ RegistryInv /\ TypeOK
  BY CampaignStep, StepOnRegistry DEF IInv, RegistryInv, TypeOK
<1>2. CASE UNCHANGED job
  <2>1. JobInv'
    BY <1>1, <1>2, OtherJob DEF JobInv, RegistryInv
  <2> QED BY <1>1, <1>2, <2>1 DEF TypeOK, RegistryInv
<1>3. ASSUME NEW w \in Worker, NEW new, Goes(w, new),
             \/ new = Idle
             \/ /\ new.pc \in SubmitPcs /\ new.d \in decs'
                /\ new.pc # "reserve" => new.c \in CampaignId
      PROVE  TypeOK' /\ JobInv'
  <2>1. job'[w] = new => JobInvAt(w)'
    BY <1>3 DEF JobInvAt, Idle, SubmitPcs
  <2> QED BY <1>1, <1>3, <2>1, JobsAfter
<1>4. ASSUME NEW w \in Worker, Done(w)
      PROVE  TypeOK' /\ JobInv'
  BY <1>3, <1>4 DEF Goes, Done
<1>5. ASSUME NEW w \in Worker,
             \/ \E d \in Decision : SubmitStart(w, d)
             \/ SubmitReserve(w) \/ SubmitAttach(w) \/ SubmitAdmit(w) \/ SubmitEvaluate(w)
             \/ SubmitToApproval(w) \/ SubmitFinish(w)
      PROVE  TypeOK' /\ JobInv'
  <2>1. \E new : Goes(w, new) /\ \/ new = Idle
                                 \/ /\ new.pc \in SubmitPcs /\ new.d \in decs'
                                    /\ new.pc # "reserve" => new.c \in CampaignId
    BY <1>1, <1>5, SubmitJobStep
  <2> QED BY <1>3, <2>1
<1>6. ASSUME NEW w \in Worker, NEW s \in Snapshot, NEW c \in CampaignId,
             SynchronizeStart(w, s, c) \/ ActivateStart(w, s, c)
      PROVE  TypeOK' /\ JobInv'
  <2>1. PICK pc \in {"mark", "activate"}, rev \in Nat :
          /\ job' = [job EXCEPT ![w] = [pc |-> pc, s |-> s, c |-> c, rev |-> rev]]
          /\ UNCHANGED <<campaignVars, registryVars>>
    BY <1>1, <1>6 DEF SynchronizeStart, ActivateStart, Begin, TypeOK, RegistryTypeOK
  <2> DEFINE new == [pc |-> pc, s |-> s, c |-> c, rev |-> rev]
  <2>2. Goes(w, new) /\ new.pc = pc /\ new.s = s /\ new.c = c
    BY <2>1 DEF Goes, Jobs
  <2>3. WasApproved(c, snap[s].dec) /\ Stored(s) /\ snap[s].dec # NoDecision
    <3>1. /\ Stored(s) /\ snap[s].dec # NoDecision /\ camp[c].state = "authorized"
          /\ camp[c].cand = snap[s].dec /\ Cardinality(Approvers(c)) = 2
          /\ maker[snap[s].dec] \notin Approvers(c)
      BY <1>6 DEF SynchronizeStart, ActivateStart, Authorized, CampaignMatches,
                  ApprovalsAreValid, Stored
    <3>2. Approvers(c) \ {maker[snap[s].dec]} = Approvers(c)
      BY <3>1
    <3> QED BY <3>1, <3>2 DEF WasApproved
  <2>4. ASSUME job'[w] = new
        PROVE  JobInvAt(w)'
    <3>1. (WasApproved(job[w].c, snap[job[w].s].dec) /\ Stored(job[w].s)
            /\ snap[job[w].s].dec # NoDecision)'
      BY <2>1, <2>2, <2>3, <2>4
         DEF WasApproved, Approvers, Stored, campaignVars, registryVars
    <3>2. job'[w].pc = pc
      BY <2>2, <2>4
    <3> QED BY <3>1, <3>2 DEF JobInvAt, SubmitPcs
  <2> HIDE DEF new
  <2> QED BY <1>1, <2>2, <2>4, JobsAfter
<1>7. ASSUME NEW w \in Worker, SynchronizeMark(w) \/ ActivateComplete(w) \/ RollbackCommit(w)
                                 \/ Abort(w)
      PROVE  TypeOK' /\ JobInv'
  BY <1>4, <1>7 DEF SynchronizeMark, ActivateComplete, RollbackCommit, Abort
<1>8. ASSUME NEW w \in Worker, ActivateRegistry(w)
      PROVE  TypeOK' /\ JobInv'
  <2>1. PICK s \in Snapshot, c \in CampaignId, rev \in Nat :
          /\ s = job[w].s /\ c = job[w].c /\ rev = job[w].rev /\ job[w].pc = "activate"
    BY <1>1, <1>8, JobFacts DEF ActivateRegistry
  <2>2. PICK j \in [pc: {"mark", "activate", "complete"}, s: Snapshot, c: CampaignId, rev: Nat] :
          j = job[w]
    BY <1>1, <2>1 DEF TypeOK, Jobs, SubmitPcs, Idle
  <2> DEFINE new == [j EXCEPT !.pc = "complete"]
  <2>3. Goes(w, new) /\ new.pc = "complete" /\ new.s = s /\ new.c = c
    <3>1. job' = [job EXCEPT ![w] = new]
      BY <1>8, <2>2 DEF ActivateRegistry, Goto
    <3> QED BY <2>1, <2>2, <3>1 DEF Goes, Jobs
  <2>4. PICK d \in Decision : /\ d = snap[s].dec /\ d # NoDecision /\ WasApproved(c, d)
                              /\ Stored(s) /\ snap[s].camp = c /\ head.active # s
    <3>1. ActivateSnapshot(s, c, rev) /\ MayActivate(s, c)
      BY <1>8, <2>1 DEF ActivateRegistry, ActivateSnapshot
    <3>2. /\ snap[s].dec \in decs /\ WasApproved(c, snap[s].dec) /\ Stored(s) /\ ~First(s)
          /\ head.active # s /\ snap[s].camp = c
      BY <1>1, <3>1, ActivateFacts DEF MayActivate
    <3>3. PICK d \in Decision : d = snap[s].dec
      BY <3>2, DecisionFacts, <1>1
    <3> QED BY <3>2, <3>3 DEF First, WasApproved, Approvers
  <2>5. /\ Stored(s)' /\ snap'[s].dec = d /\ snap'[s].camp = c /\ WasApproved(c, d)'
        /\ Activated(s)'
    <3>1. snap'[s].status = "champion"
      <4>1. PICK a \in Snapshot : a = head.active /\ a # s
        BY <1>1, <1>8, <2>1, ActivateFacts DEF ActivateRegistry, ActivateSnapshot
      <4>2. snap' = [snap EXCEPT ![a].status = "retired", ![s].status = "champion"]
        BY <1>8, <2>1, <4>1 DEF ActivateRegistry, ActivateSnapshot, MovePointer
      <4>3. snap[s] \in Record
        BY <1>1, <2>4, RecordFacts DEF TypeOK
      <4>4. snap'[s] = [snap[s] EXCEPT !.status = "champion"]
        BY <1>1, <4>1, <4>2 DEF TypeOK, RegistryTypeOK
      <4>5. PICK r \in Record : r = snap[s]
        BY <4>3
      <4> QED BY <4>4, <4>5 DEF Record
    <3> QED BY <1>1, <2>4, <3>1 DEF RegistryGoesOn, ApprovalsGoOn, Activated
  <2>6. ASSUME job'[w] = new
        PROVE  JobInvAt(w)'
    <3>1. (WasApproved(job[w].c, snap[job[w].s].dec) /\ Stored(job[w].s)
            /\ snap[job[w].s].dec # NoDecision
            /\ Activated(job[w].s) /\ snap[job[w].s].camp = job[w].c)'
      BY <2>3, <2>4, <2>5, <2>6 DEF WasApproved, Approvers, Stored, Activated
    <3>2. job'[w].pc = "complete"
      BY <2>3, <2>6
    <3> QED BY <3>1, <3>2 DEF JobInvAt, SubmitPcs
  <2> HIDE DEF new
  <2> QED BY <1>1, <2>3, <2>6, JobsAfter
<1>9. ASSUME NEW w \in Worker, NEW to \in Snapshot, RollbackStart(w, to)
      PROVE  TypeOK' /\ JobInv'
  <2>1. PICK seen \in Snapshot, rev \in Nat : seen = head.active /\ rev = head.rev
    BY <1>1, <1>9 DEF RollbackStart, TypeOK, RegistryTypeOK
  <2> DEFINE new == [pc |-> "rollback", s |-> to, seen |-> seen, rev |-> rev]
  <2>2. Goes(w, new) /\ new.pc = "rollback" /\ new.seen = seen /\ new.rev = rev
    BY <1>9, <2>1 DEF RollbackStart, Goes, Jobs
  <2>3. job'[w] = new => JobInvAt(w)'
    BY <1>9, <2>1, <2>2 DEF RollbackStart, JobInvAt, SubmitPcs, registryVars,
                            AllAssumptions, RegistryAssumption
  <2> HIDE DEF new
  <2> QED BY <1>1, <2>2, <2>3, JobsAfter
<1>10. CASE Next
  <2>1. ASSUME NEW w \in Worker, Call(w) \/ Progress(w) \/ Abort(w)
        PROVE  TypeOK' /\ JobInv'
    BY <1>5, <1>6, <1>7, <1>8, <1>9, <2>1 DEF Call, Progress
  <2>2. ASSUME NEW s \in Snapshot, RegisterFirst(s)
        PROVE  TypeOK' /\ JobInv'
    BY <1>2, <2>2 DEF RegisterFirst
  <2>3. ASSUME NEW a \in Actor, NEW c \in CampaignId, Approve(a, c) \/ Reject(a, c) \/ Cancel(c)
        PROVE  TypeOK' /\ JobInv'
    BY <1>2, <2>3 DEF Approve, Reject, Cancel
  <2>4. ASSUME NEW c \in CampaignId, Cancel(c)
        PROVE  TypeOK' /\ JobInv'
    BY <1>2, <2>4 DEF Cancel
  <2> QED BY <1>10, <2>1, <2>2, <2>3, <2>4 DEF Next
<1>11. CASE UNCHANGED vars
  BY <1>2, <1>11 DEF vars
<1> QED BY <1>10, <1>11

-----------------------------------------------------------------------------
(* The two databases agree *)

(* A campaign that is completed already keeps its row.                      *)
LEMMA CompletedStays ==
  ASSUME IInv, AllAssumptions, RegistryGoesOn, NEW c \in CampaignId,
         camp[c].state = "completed", camp'[c].cand = camp[c].cand
  PROVE  \E s \in Snapshot : /\ Activated(s)' /\ snap'[s].camp = c
                             /\ snap'[s].dec = camp'[c].cand
<1>1. PICK s \in Snapshot : Activated(s) /\ snap[s].camp = c /\ snap[s].dec = camp[c].cand
  BY DEF IInv, CompletedMeansActivated, Activated
<1>2. Stored(s)
  BY <1>1, RecordFacts DEF IInv, TypeOK, Activated, Statuses
<1>3. Activated(s)' /\ snap'[s].camp = c /\ snap'[s].dec = camp'[c].cand
  BY <1>1, <1>2 DEF RegistryGoesOn
<1> QED BY <1>3

(* The last step of an activation completes the campaign of what it moved.  *)
LEMMA CompletedStep ==
  ASSUME IInv, AllAssumptions, [Next]_vars
  PROVE  CompletedMeansActivated'
<1> SUFFICES ASSUME NEW c \in CampaignId, camp'[c].state = "completed"
             PROVE  \E s \in Snapshot : /\ Activated(s)' /\ snap'[s].camp = c
                                        /\ snap'[s].dec = camp'[c].cand
  BY DEF CompletedMeansActivated, Activated
<1>1. /\ RegistryGoesOn /\ TypeOK /\ JobInv /\ CampaignsTypeOK /\ 0 \in Nat
  BY StepOnRegistry DEF IInv, TypeOK
<1>2. CASE UNCHANGED campaignVars
  BY <1>1, <1>2, CompletedStays DEF campaignVars
<1>3. ASSUME NEW e \in CampaignId, Transaction(e, 0), camp[c].state = "completed"
      PROVE  camp'[c].cand = camp[c].cand
  <2>1. Exists(c)
    BY <1>3 DEF Exists
  <2> QED BY <1>1, <1>3, <2>1, DecidedStays
<1>4. ASSUME NEW e \in CampaignId, Transaction(e, 0), c # e
      PROVE  camp[c].state = "completed"
  BY <1>1, <1>4, OthersUntouched
<1>5. CASE \E e \in CampaignId : Plain(e)
  <2>1. PICK e \in CampaignId : Plain(e)
    BY <1>5
  <2>2. camp[c].state = "completed"
    BY <1>4, <2>1 DEF Plain
  <2> QED BY <1>1, <1>3, <2>1, <2>2, CompletedStays DEF Plain
<1>6. ASSUME NEW w \in Worker, ActivateComplete(w), job[w].c \in CampaignId,
             Transaction(job[w].c, 0)
      PROVE  \E s \in Snapshot : /\ Activated(s)' /\ snap'[s].camp = c
                                 /\ snap'[s].dec = camp'[c].cand
  <2>1. CASE camp[c].state = "completed"
    BY <1>1, <1>3, <1>6, <2>1, CompletedStays
  <2>2. CASE camp[c].state # "completed"
    <3>1. c = job[w].c /\ job[w].pc = "complete" /\ UNCHANGED registryVars
      BY <1>4, <1>6, <2>2 DEF ActivateComplete, MayComplete
    <3>2. PICK s \in Snapshot : s = job[w].s
      BY <1>1, <3>1, JobFacts
    <3>3. /\ Activated(s) /\ snap[s].camp = c /\ WasApproved(c, snap[s].dec)
      BY <1>1, <3>1, <3>2 DEF JobInv, JobInvAt
    <3>4. Exists(c) /\ Decided(c) /\ camp[c].cand = snap[s].dec
      BY <3>3 DEF WasApproved, Exists, Decided, ClosedStates
    <3>5. camp'[c].cand = camp[c].cand
      BY <1>1, <1>6, <3>4, DecidedStays
    <3>6. Activated(s)' /\ snap'[s].camp = c /\ snap'[s].dec = camp'[c].cand
      BY <3>1, <3>3, <3>4, <3>5 DEF Activated, registryVars
    <3> QED BY <3>6
  <2> QED BY <2>1, <2>2
<1> QED BY <1>1, <1>2, <1>5, <1>6, StepOnCampaigns

(* Once there is a Champion, only an activation or a rollback moves it.     *)
LEMMA HeadMoves ==
  ASSUME [Next]_vars, head' # head, head.active # NoSnapshot
  PROVE  \E w \in Worker : ActivateRegistry(w) \/ RollbackCommit(w)
<1>1. Next
  BY DEF vars, registryVars
<1>2. ASSUME NEW w \in Worker, Call(w)
      PROVE  FALSE
  BY <1>2 DEF Call, SubmitStart, StoreDecision, SynchronizeStart, ActivateStart, RollbackStart,
              Begin, registryVars
<1>3. ASSUME NEW w \in Worker, Progress(w)
      PROVE  ActivateRegistry(w) \/ RollbackCommit(w)
  BY <1>3 DEF Progress, SubmitReserve, SubmitAttach, SubmitAdmit, AdmitChallenger, SubmitEvaluate,
              RecordEvaluation, SubmitToApproval, SubmitFinish, SynchronizeMark, MarkAuthorized,
              ActivateComplete, registryVars
<1> QED BY <1>1, <1>2, <1>3
        DEF Next, RegisterFirst, RegisterInitial, Abort, Approve, Reject, Cancel, registryVars

-----------------------------------------------------------------------------
(* The theorems *)

LEMMA InitIInv ==
  ASSUME AllAssumptions, Init
  PROVE  IInv
<1> USE DEF Init, CampaignsInit, RegistryInit
<1>1. CampaignsTypeOK /\ ApprovalInv
  BY DEF CampaignsTypeOK, ApprovalInv, ApprovalInvAt, Exists, NoRow, BeforeApproval,
         WithCandidate, Decisions, States, OpenStates, ClosedStates
<1>2. RegistryTypeOK /\ job \in [Worker -> Jobs \cup {Idle}]
  BY DEF RegistryTypeOK
<1>3. RecordInv /\ LineageInv
  BY DEF RecordInv, RecordInvAt, LineageInv, First, Stored
<1>4. JobInv
  BY DEF JobInv, JobInvAt, Idle, SubmitPcs
<1>5. CompletedMeansActivated
  BY DEF CompletedMeansActivated, NoRow
<1> QED BY <1>1, <1>2, <1>3, <1>4, <1>5 DEF IInv, TypeOK

LEMMA StepIInv ==
  ASSUME AllAssumptions, IInv, [Next]_vars
  PROVE  IInv'
BY CampaignStep, StepOnRegistry, JobStep, CompletedStep DEF IInv, RegistryInv

(* In every reachable state what the calls rely on holds: whatever is      *)
(* authorized or was Champion has its approvals, every promoted snapshot is *)
(* a child of the first, and a call between two of its transactions still   *)
(* finds what it checked in the first (lifecycle.py and the two databases). *)
THEOREM ChampionInvariant ==
  ASSUME RegistryAssumption, LifecycleAssumption
  PROVE  Spec => []IInv
<1> USE CampaignsAssumption DEF AllAssumptions
<1>1. Init => IInv
  BY InitIInv
<1>2. IInv /\ [Next]_vars => IInv'
  BY StepIInv
<1> QED BY <1>1, <1>2, PTL DEF Spec

(* verify_state never raises, however calls interleave, stop or are cut     *)
(* short: one Champion, the one the pointer names, no decision missing, and *)
(* for every retired snapshot exactly one that came from it.                *)
THEOREM RegistryAlwaysVerifies ==
  ASSUME RegistryAssumption, LifecycleAssumption
  PROVE  Spec => []RegistryVerifies
<1> USE CampaignsAssumption DEF AllAssumptions
<1>1. ASSUME IInv
      PROVE  RegistryVerifies
  <2>0. RecordInv /\ LineageInv /\ RegistryTypeOK /\ TypeOK
    BY <1>1 DEF IInv, TypeOK
  <2>1. StateVerifies
    <3>1. head.active # NoSnapshot =>
            {s \in Snapshot : snap[s].status = "champion"} = {head.active}
      BY <2>0 DEF LineageInv, RegistryTypeOK
    <3> QED BY <2>0, <3>1 DEF StateVerifies, RecordInv, RecordInvAt, Stored
  <2>2. ASSUME NEW s \in Snapshot, snap[s].status \in {"champion", "retired"},
               snap[s].parent # NoSnapshot
        PROVE  snap[snap[s].parent].status = "retired"
    <3>1. Stored(s) /\ ~First(s)
      BY <2>0, <2>2, RecordFacts DEF RecordInv, RecordInvAt, Statuses
    <3>2. snap[s].dec \in decs /\ snap[s].parent = base[snap[s].dec] /\ s = head.active
      BY <2>0, <2>2, <3>1 DEF RecordInv, RecordInvAt, First, LineageInv
    <3>3. PICK p \in Snapshot : p = snap[s].parent /\ First(p)
      BY <2>0, <3>2 DEF RegistryTypeOK, RegistryAssumption, LineageInv
    <3>4. p # s
      BY <3>1, <3>3
    <3> QED BY <2>0, <3>2, <3>3, <3>4 DEF RecordInv, RecordInvAt, LineageInv, First
  <2>3. ASSUME NEW s \in Snapshot, snap[s].status = "retired"
        PROVE  Cardinality({t \in Snapshot : /\ snap[t].status \in {"champion", "retired"}
                                             /\ snap[t].parent = s}) = 1
    <3>1. Stored(s) /\ First(s)
      BY <2>0, <2>3, RecordFacts DEF RecordInv, RecordInvAt, First, Statuses
    <3>2. head.active \in Snapshot /\ head.active # s /\ snap[head.active].status = "champion"
      BY <2>0, <2>3, <3>1 DEF LineageInv, RegistryTypeOK
    <3>3. Stored(head.active) /\ ~First(head.active)
      BY <2>0, <3>1, <3>2, RecordFacts DEF LineageInv, Statuses
    <3>4. snap[head.active].parent = s
      <4>1. snap[head.active].dec \in decs
              /\ snap[head.active].parent = base[snap[head.active].dec]
        BY <2>0, <3>2, <3>3 DEF RecordInv, RecordInvAt, First
      <4>2. PICK p \in Snapshot : p = snap[head.active].parent /\ First(p)
        BY <2>0, <4>1 DEF RegistryTypeOK, RegistryAssumption, LineageInv
      <4> QED BY <2>0, <3>1, <4>2 DEF LineageInv
    <3>5. ASSUME NEW t \in Snapshot, snap[t].status \in {"champion", "retired"},
                 snap[t].parent = s
          PROVE  t = head.active
      <4>1. Stored(t)
        BY <2>0, <3>5, RecordFacts DEF Statuses
      <4>2. ~First(t)
        BY <2>0, <3>5 DEF RecordInv, RecordInvAt, RegistryAssumption
      <4> QED BY <2>0, <3>2, <3>5, <4>1, <4>2
              DEF RecordInv, RecordInvAt, First, LineageInv, RegistryAssumption
    <3>6. {t \in Snapshot : snap[t].status \in {"champion", "retired"} /\ snap[t].parent = s}
            = {head.active}
      BY <3>2, <3>4, <3>5
    <3> QED BY <3>6, FS_Singleton
  <2> QED BY <2>0, <2>1, <2>2, <2>3 DEF RegistryVerifies
<1> QED BY <1>1, ChampionInvariant, PTL

(* docs/21: two independent approvals.  Whatever was ever authorized or     *)
(* Champion has a campaign in which two people who did not make it approved *)
(* exactly its decision, and no later call takes that away.                 *)
THEOREM ActiveAlwaysApproved ==
  ASSUME RegistryAssumption, LifecycleAssumption
  PROVE  Spec => []ActiveWasApproved
<1> USE CampaignsAssumption DEF AllAssumptions
<1>1. ASSUME IInv
      PROVE  ActiveWasApproved
  <2> SUFFICES ASSUME NEW s \in Snapshot, snap[s].dec # NoDecision,
                      snap[s].status \in {"authorized", "champion", "retired", "rolled_back"}
               PROVE  WasApproved(snap[s].camp, snap[s].dec)
    BY DEF ActiveWasApproved, WasApproved
  <2>1. Stored(s)
    BY <1>1, RecordFacts DEF IInv, TypeOK, Statuses
  <2> QED BY <1>1, <2>1 DEF IInv, RecordInv, RecordInvAt
<1> QED BY <1>1, ChampionInvariant, PTL

(* Activation is two transactions on two databases.  A completed campaign   *)
(* has moved the pointer to its candidate, wherever a call stopped.         *)
THEOREM CompletedAlwaysActivated ==
  ASSUME RegistryAssumption, LifecycleAssumption
  PROVE  Spec => []CompletedMeansActivated
<1>1. IInv => CompletedMeansActivated
  BY DEF IInv
<1> QED BY <1>1, ChampionInvariant, PTL

(* The pointer moves to a child or to the parent only, and what was rolled  *)
(* back does not come back, by whatever late or repeated call.              *)
THEOREM PointerFollowsLineage ==
  ASSUME RegistryAssumption, LifecycleAssumption
  PROVE  Spec => [][FollowsLineage]_vars
<1> USE CampaignsAssumption DEF AllAssumptions
<1>1. ASSUME IInv, [Next]_vars
      PROVE  FollowsLineage
  <2>1. RegistryInv /\ RegistryGoesOn
    BY <1>1, StepOnRegistry DEF IInv, RegistryInv, TypeOK
  <2>2. ASSUME NEW s \in Snapshot, snap[s].status = "rolled_back"
        PROVE  snap'[s] = snap[s]
    BY <2>1, <2>2, RecordFacts DEF RegistryGoesOn, RegistryInv, Statuses
  <2>3. ASSUME head'.active # head.active, head.active # NoSnapshot
        PROVE  snap[head'.active].parent = head.active \/ snap[head.active].parent = head'.active
    <3>1. PICK w \in Worker : ActivateRegistry(w) \/ RollbackCommit(w)
      BY <1>1, <2>3, HeadMoves
    <3>2. CASE ActivateRegistry(w)
      BY <3>2 DEF ActivateRegistry, ActivateSnapshot, MayActivate, MovePointer
    <3>3. CASE RollbackCommit(w)
      BY <3>3 DEF RollbackCommit, RollBack, MayRollBack, MovePointer
    <3> QED BY <3>1, <3>2, <3>3
  <2> QED BY <2>2, <2>3 DEF FollowsLineage
<1> QED BY <1>1, ChampionInvariant, PTL DEF Spec

(* A rollback undoes the Champion its operator looked at: the revision it   *)
(* passes names one position of the pointer, since every move writes a new  *)
(* one.                                                                     *)
THEOREM RollbackUndoesWhatItSaw ==
  ASSUME RegistryAssumption, LifecycleAssumption
  PROVE  Spec => [][UndoesWhatItSaw]_vars
<1> USE CampaignsAssumption DEF AllAssumptions
<1>1. ASSUME IInv, [Next]_vars
      PROVE  UndoesWhatItSaw
  <2> SUFFICES ASSUME NEW w \in Worker, job[w].pc = "rollback", job'[w] # job[w], head' # head
               PROVE  head.active = job[w].seen
    BY DEF UndoesWhatItSaw
  <2>1. head.active # NoSnapshot /\ (job[w].rev = head.rev => job[w].seen = head.active)
    BY <1>1 DEF IInv, JobInv, JobInvAt
  <2>2. PICK v \in Worker : ActivateRegistry(v) \/ RollbackCommit(v)
    BY <1>1, <2>1, HeadMoves
  <2>3. \A u \in Worker \ {v} : job'[u] = job[u]
    BY <1>1, <2>2 DEF ActivateRegistry, RollbackCommit, Goto, Done, IInv, TypeOK
  <2>4. v = w
    BY <2>3
  <2> QED BY <2>1, <2>2, <2>4 DEF ActivateRegistry, RollbackCommit, RollBack
<1> QED BY <1>1, ChampionInvariant, PTL DEF Spec

-----------------------------------------------------------------------------
(***************************************************************************)
(* The rule of the promotion gate (ChampionGate), for any suite, any       *)
(* number of rounds, any evidence and any policy.                          *)
(***************************************************************************)
CONSTANTS Task, Rounds, BaselineEvidence, RoundEvidence, Comparator, Metric, Cost, Missing,
          MinGain, MinLower, MaxRegressed, MaxRegressedPct, MaxErrors, MaxGrowthPct, Required,
          AllowNonFinal, Patience, RequireComparator, MaxRank, MinPairDelta, MaxLosses
VARIABLES pc, baseline, round, lower, against, status, decision

Gate == INSTANCE ChampionGate WITH base <- baseline

(* The finite sets of the gate are those of this module.                   *)
LEMMA SameSets ==
  ASSUME NEW S
  PROVE  Gate!Cardinality(S) = Cardinality(S) /\ (Gate!IsFiniteSet(S) <=> IsFiniteSet(S))
BY DEF Gate!Cardinality, Gate!IsFiniteSet, Cardinality, IsFiniteSet

(* What BenchmarkEvidence derives of a run.                                *)
Evidence == [score : [Task -> Nat], errors : Nat, use : [Metric -> Nat \cup {Missing}]]

(* Who scores as much in every task scores as much in all; and if the sums *)
(* are the same, so is every score.                                        *)
LEMMA ScoresAddUp ==
  ASSUME Gate!GateAssumption, NEW e \in Evidence, NEW f \in Evidence,
         \A t \in Task : e.score[t] >= f.score[t]
  PROVE  /\ Gate!Total(e) \in Nat /\ Gate!Total(f) \in Nat /\ Gate!Total(f) <= Gate!Total(e)
         /\ Gate!Total(e) = Gate!Total(f) => \A t \in Task : e.score[t] = f.score[t]
<1>1. \A t \in Task : f.score[t] \in Nat /\ e.score[t] \in Nat /\ f.score[t] <= e.score[t]
  BY DEF Evidence
<1>2. IsFiniteSet(Task)
  BY SameSets DEF Gate!GateAssumption
<1>3. /\ Gate!Total(e) = Cardinality(SumUnits(Task, e.score))
      /\ Gate!Total(f) = Cardinality(SumUnits(Task, f.score))
  BY SameSets DEF Gate!Total, Gate!Units, SumUnits
<1> QED BY <1>1, <1>2, <1>3, SumIsNatural, SumIsMonotone

LEMMA Totals ==
  ASSUME Gate!GateAssumption, NEW e \in Evidence, NEW f \in Evidence, Gate!AsGood(e, f)
  PROVE  /\ Gate!Total(e) \in Nat /\ Gate!Total(f) \in Nat /\ Gate!Total(f) <= Gate!Total(e)
         /\ Gate!Total(e) = Gate!Total(f) => \A t \in Task : e.score[t] = f.score[t]
BY ScoresAddUp, SameSets DEF Gate!AsGood

(* The sum of the scores is a number.                                      *)
LEMMA TotalIsNatural ==
  ASSUME Gate!GateAssumption, NEW e \in Evidence
  PROVE  Gate!Total(e) \in Nat
<1>1. Gate!AsGood(e, e)
  BY DEF Gate!AsGood, Evidence
<1> QED BY <1>1, Totals

(* And regresses in no more of them.                                       *)
LEMMA RegressionsAreCounted ==
  ASSUME Gate!GateAssumption, NEW b \in Evidence, NEW e \in Evidence,
         NEW f \in Evidence, Gate!AsGood(e, f)
  PROVE  /\ Gate!Regressed(b, e) \in Nat /\ Gate!Regressed(b, f) \in Nat
         /\ Gate!Regressed(b, e) <= Gate!Regressed(b, f)
<1> DEFINE worse(x) == {t \in Task : Gate!Delta(b, x, t) < 0}
<1>1. worse(e) \subseteq worse(f) /\ worse(f) \subseteq Task
  BY DEF Gate!AsGood, Evidence, Gate!Delta
<1>2. Gate!Regressed(b, e) = Cardinality(worse(e)) /\ Gate!Regressed(b, f) = Cardinality(worse(f))
  BY SameSets DEF Gate!Regressed
<1>3. IsFiniteSet(Task)
  BY SameSets DEF Gate!GateAssumption
<1> HIDE DEF worse
<1> QED BY <1>1, <1>2, <1>3, Counts

(* What is known of the use is the same, and a use that grows too much had *)
(* done so before.                                                         *)
LEMMA GrowthIsMonotone ==
  ASSUME Gate!GateAssumption, NEW b \in Evidence, NEW e \in Evidence,
         NEW f \in Evidence, Gate!AsGood(e, f),
         NEW m \in Metric
  PROVE  /\ Gate!IsComplete(b, e, m) <=> Gate!IsComplete(b, f, m)
         /\ Gate!IsUnbounded(b, e, m) => Gate!IsUnbounded(b, f, m)
         /\ Gate!GrowsTooMuch(b, e, m) => Gate!GrowsTooMuch(b, f, m)
<1>1. b.use[m] \in Nat \cup {Missing} /\ e.use[m] \in Nat \cup {Missing}
      /\ f.use[m] \in Nat \cup {Missing}
  BY DEF Evidence
<1>2. e.use[m] = Missing <=> f.use[m] = Missing
  BY DEF Gate!AsGood
<1>3. f.use[m] # Missing => e.use[m] <= f.use[m]
  BY DEF Gate!AsGood
<1>4. Gate!IsComplete(b, e, m) <=> Gate!IsComplete(b, f, m)
  BY <1>2 DEF Gate!IsComplete
<1>5. Gate!IsUnbounded(b, e, m) => Gate!IsUnbounded(b, f, m)
  BY <1>1, <1>2, <1>3, <1>4 DEF Gate!IsUnbounded, Gate!IsComplete
<1>6. ASSUME Gate!IsComplete(b, e, m), 100 * e.use[m] > (100 + MaxGrowthPct) * b.use[m]
      PROVE  100 * f.use[m] > (100 + MaxGrowthPct) * b.use[m]
  <2>1. b.use[m] \in Nat /\ e.use[m] \in Nat /\ f.use[m] \in Nat /\ e.use[m] <= f.use[m]
    BY <1>1, <1>3, <1>4, <1>6 DEF Gate!IsComplete
  <2> DEFINE limit == (100 + MaxGrowthPct) * b.use[m]
  <2>2. limit \in Int
    BY <2>1, SameSets DEF Gate!GateAssumption
  <2>3. 100 * e.use[m] > limit
    BY <1>6
  <2> HIDE DEF limit
  <2>4. 100 * f.use[m] > limit
    BY <2>1, <2>2, <2>3
  <2> QED BY <2>4 DEF limit
<1> QED BY <1>4, <1>5, <1>6 DEF Gate!GrowsTooMuch

(* To do better, all else unchanged, is not judged more severely.           *)
(* Thus no hard reason is found that there was not, and nothing that       *)
(* sufficed is insufficient.                                               *)
LEMMA StatusIsMonotone ==
  ASSUME Gate!GateAssumption, NEW b \in Evidence, NEW e \in Evidence,
         NEW f \in Evidence, Gate!AsGood(e, f),
         NEW r \in Gate!Round, NEW q \in Gate!Round, AllowNonFinal \/ r = q, NEW c,
         NEW l \in Int, NEW k \in Int, l >= k
  PROVE  Gate!Severity(Gate!StatusOf(b, e, r, l, c)) <=
           Gate!Severity(Gate!StatusOf(b, f, q, k, c))
<1>1. Gate!HardReason(b, e, r, c) => Gate!HardReason(b, f, q, c)
  <2> SUFFICES ASSUME Gate!HardReason(b, e, r, c) PROVE Gate!HardReason(b, f, q, c)
    OBVIOUS
  <2>1. CASE Gate!Gain(b, e) < MinGain
    <3>1. Gate!Total(e) \in Nat /\ Gate!Total(f) \in Nat /\ Gate!Total(b) \in Nat
          /\ Gate!Total(f) <= Gate!Total(e)
      BY Totals, TotalIsNatural
    <3>2. MinGain \in Int
      BY SameSets DEF Gate!GateAssumption
    <3>3. Gate!Gain(b, f) < MinGain
      BY <2>1, <3>1, <3>2 DEF Gate!Gain
    <3> QED BY <3>3, SameSets DEF Gate!HardReason
  <2>2. CASE Gate!Regressed(b, e) > MaxRegressed
    <3>1. Gate!Regressed(b, f) > MaxRegressed
      BY <2>2, RegressionsAreCounted, SameSets DEF Gate!GateAssumption
    <3> QED BY <3>1, SameSets DEF Gate!HardReason
  <2>3. CASE 100 * Gate!Regressed(b, e) > MaxRegressedPct * Cardinality(Task)
    <3> DEFINE limit == MaxRegressedPct * Cardinality(Task)
    <3>1. limit \in Int
      BY FS_CardinalityType, SameSets DEF Gate!GateAssumption
    <3>2. 100 * Gate!Regressed(b, e) > limit
      BY <2>3
    <3> HIDE DEF limit
    <3>3. 100 * Gate!Regressed(b, f) > limit
      BY <3>1, <3>2, RegressionsAreCounted
    <3> QED BY <3>3, SameSets DEF Gate!HardReason, limit
  <2>4. CASE e.errors - b.errors > MaxErrors
    <3>1. e.errors \in Nat /\ f.errors \in Nat /\ b.errors \in Nat /\ e.errors <= f.errors
          /\ MaxErrors \in Nat
      BY SameSets DEF Evidence, Gate!AsGood, Gate!GateAssumption
    <3>2. f.errors - b.errors > MaxErrors
      BY <2>4, <3>1
    <3> QED BY <3>2, SameSets DEF Gate!HardReason
  <2>5. CASE \E m \in Metric : Gate!GrowsTooMuch(b, e, m)
    BY <2>5, GrowthIsMonotone, SameSets DEF Gate!HardReason
  <2>6. CASE ~AllowNonFinal /\ r # Rounds
    BY <2>6, SameSets DEF Gate!HardReason
  <2>7. CASE RequireComparator /\ c # Missing /\ Gate!Worse(c)
    BY <2>7, SameSets DEF Gate!HardReason
  <2> QED BY <2>1, <2>2, <2>3, <2>4, <2>5, <2>6, <2>7, SameSets DEF Gate!HardReason
<1>2. Gate!Insufficient(b, e, l, c) => Gate!Insufficient(b, f, k, c)
  <2>1. l < MinLower => k < MinLower
    BY SameSets DEF Gate!GateAssumption
  <2>2. \A m \in Required : Gate!IsComplete(b, e, m) <=> Gate!IsComplete(b, f, m)
    BY GrowthIsMonotone, SameSets DEF Gate!GateAssumption
  <2> QED BY <2>1, <2>2 DEF Gate!Insufficient
<1> QED BY <1>1, <1>2 DEF Gate!StatusOf, Gate!Severity

-----------------------------------------------------------------------------
(* The order in which rounds are preferred *)

Evidences(b, E, L) == b \in Evidence /\ E \in [Gate!Round -> Evidence]
/\ L \in [Gate!Round -> Int]

(* The parts of the selection key are numbers.                             *)
LEMMA Keys ==
  ASSUME Gate!GateAssumption, NEW b, NEW E, NEW L, Evidences(b, E, L), NEW p \in Gate!Round
  PROVE  /\ p \in Int /\ E[p] \in Evidence /\ L[p] \in Int /\ Gate!Total(E[p]) \in Nat
         /\ Gate!Regressed(b, E[p]) \in Nat
         /\ Gate!HasRatio(b, E[p]) => E[p].use[Cost] \in Nat
<1>1. p \in Int /\ E[p] \in Evidence /\ L[p] \in Int
  BY DEF Evidences, Gate!Round
<1>2. Gate!AsGood(E[p], E[p])
  BY <1>1 DEF Gate!AsGood, Evidence
<1>3. Gate!Total(E[p]) \in Nat /\ Gate!Regressed(b, E[p]) \in Nat
  BY <1>1, <1>2, TotalIsNatural, RegressionsAreCounted DEF Evidences
<1>4. Gate!HasRatio(b, E[p]) => E[p].use[Cost] \in Nat
  BY <1>1, SameSets DEF Gate!HasRatio, Gate!IsComplete, Evidence, Gate!GateAssumption
<1> QED BY <1>1, <1>3, <1>4

(* Costs can be compared: one that is known and bounded comes before one   *)
(* that is not.                                                            *)
LEMMA CostIsOrdered ==
  ASSUME Gate!GateAssumption, NEW b, NEW E, NEW L, Evidences(b, E, L),
         NEW p \in Gate!Round, NEW q \in Gate!Round, NEW r \in Gate!Round
  PROVE  LET cheaper(x, y) == Gate!CheaperThan(b, E[x], E[y]) IN
         /\ ~(cheaper(p, q) /\ cheaper(q, p))
         /\ cheaper(p, q) /\ ~cheaper(r, q) => cheaper(p, r)
         /\ cheaper(p, q) /\ ~cheaper(p, r) => cheaper(r, q)
<1>1. /\ Gate!HasRatio(b, E[p]) => E[p].use[Cost] \in Nat
      /\ Gate!HasRatio(b, E[q]) => E[q].use[Cost] \in Nat
      /\ Gate!HasRatio(b, E[r]) => E[r].use[Cost] \in Nat
  BY Keys
<1> QED BY <1>1 DEF Gate!CheaperThan

(* _selection_key orders the rounds, and no two of them are alike.         *)
LEMMA PreferenceIsOrder ==
  ASSUME Gate!GateAssumption, NEW b, NEW E, NEW L, Evidences(b, E, L),
         NEW p \in Gate!Round, NEW q \in Gate!Round, NEW r \in Gate!Round
  PROVE  /\ ~Gate!Precedes(b, E, L, p, p)
         /\ ~(Gate!Precedes(b, E, L, p, q) /\ Gate!Precedes(b, E, L, q, p))
         /\ p # q => Gate!Precedes(b, E, L, p, q) \/ Gate!Precedes(b, E, L, q, p)
         /\ Gate!Precedes(b, E, L, p, q) /\ Gate!Precedes(b, E, L, q, r) =>
              Gate!Precedes(b, E, L, p, r)
<1>1. \A x \in {p, q, r} : /\ x \in Int /\ L[x] \in Int /\ Gate!Total(E[x]) \in Nat
                           /\ Gate!Regressed(b, E[x]) \in Nat
  BY Keys
<1> DEFINE cheaper(x, y) == Gate!CheaperThan(b, E[x], E[y])
<1>2. \A x, y, z \in {p, q, r} :
        /\ ~(cheaper(x, y) /\ cheaper(y, x))
        /\ cheaper(x, y) /\ ~cheaper(z, y) => cheaper(x, z)
        /\ cheaper(x, y) /\ ~cheaper(x, z) => cheaper(z, y)
  BY CostIsOrdered
<1>3. \A x, y \in {p, q, r} : Gate!CostsAlike(b, E[x], E[y]) <=> ~cheaper(x, y) /\ ~cheaper(y, x)
  BY DEF Gate!CostsAlike
<1> HIDE DEF cheaper
<1>4. \A x, y \in {p, q, r} : Gate!Precedes(b, E, L, x, y) <=>
        \/ Gate!Total(E[x]) > Gate!Total(E[y])
        \/ Gate!Total(E[x]) = Gate!Total(E[y]) /\
           \/ L[x] > L[y]
           \/ L[x] = L[y] /\
              \/ Gate!Regressed(b, E[x]) < Gate!Regressed(b, E[y])
              \/ Gate!Regressed(b, E[x]) = Gate!Regressed(b, E[y]) /\
                 (cheaper(x, y) \/ (~cheaper(x, y) /\ ~cheaper(y, x) /\ x < y))
  BY <1>3 DEF Gate!Precedes, cheaper
<1>5. ~Gate!Precedes(b, E, L, p, p)
  BY <1>1, <1>2, <1>4
<1>6. ~(Gate!Precedes(b, E, L, p, q) /\ Gate!Precedes(b, E, L, q, p))
  BY <1>1, <1>2, <1>4
<1>7. p # q => Gate!Precedes(b, E, L, p, q) \/ Gate!Precedes(b, E, L, q, p)
  BY <1>1, <1>2, <1>4
<1>8. Gate!Precedes(b, E, L, p, q) /\ Gate!Precedes(b, E, L, q, r) => Gate!Precedes(b, E, L, p, r)
  BY <1>1, <1>2, <1>4
<1> QED BY <1>5, <1>6, <1>7, <1>8

(* Of some rounds, one is preferred to all the others.                      *)
(* Among some rounds there is one that comes before all others: the one    *)
(* with the fewest before it.                                              *)
LEMMA OneIsPreferred ==
  ASSUME Gate!GateAssumption, NEW b, NEW E, NEW L, Evidences(b, E, L),
         NEW S \in SUBSET Gate!Round, S # {}
  PROVE  \E p \in S : \A q \in S : p = q \/ Gate!Precedes(b, E, L, p, q)
<1> DEFINE After(p) == {q \in S : p = q \/ Gate!Precedes(b, E, L, p, q)}
           u == [p \in S |-> Cardinality(After(p))]
<1>1. IsFiniteSet(S)
  <2>1. IsFiniteSet(Gate!Round)
    BY FS_Interval, SameSets DEF Gate!Round, Gate!GateAssumption
  <2> QED BY <2>1, FS_Subset
<1>2. \A p \in S : IsFiniteSet(After(p)) /\ Cardinality(After(p)) \in Nat
  BY <1>1, FS_Subset, FS_CardinalityType
<1>3. \A p \in S : u[p] \in Nat
  BY <1>2
<1>4. PICK p \in S : \A q \in S : u[q] <= u[p]
  <2> HIDE DEF u
  <2> QED BY <1>1, <1>3, GreatestValue
<1>5. ASSUME NEW k \in S, p # k, ~Gate!Precedes(b, E, L, p, k) PROVE FALSE
  <2>1. Gate!Precedes(b, E, L, k, p)
    BY <1>5, PreferenceIsOrder
  <2>2. \A q \in S : Gate!Precedes(b, E, L, p, q) => Gate!Precedes(b, E, L, k, q)
    BY <2>1, PreferenceIsOrder
  <2>3. After(p) \subseteq After(k) /\ k \in After(k) /\ k \notin After(p)
    BY <1>5, <2>1, <2>2
  <2>4. Cardinality(After(p)) < Cardinality(After(k))
    <3> HIDE DEF After
    <3>1. After(p) # After(k)
      BY <2>3
    <3> QED BY <1>2, <2>3, <3>1, FS_Subset
  <2>5. u[k] <= u[p] /\ u[k] = Cardinality(After(k)) /\ u[p] = Cardinality(After(p))
    BY <1>4
  <2> HIDE DEF u, After
  <2> QED BY <1>2, <2>4, <2>5
<1> QED BY <1>5

Eligible(st) == {r \in Gate!Round : st[r] = "eligible"}

(* evaluate promotes an eligible round that comes before all other eligible*)
(* ones, if there is one.                                                  *)
LEMMA PromotedIsPreferred ==
  ASSUME Gate!GateAssumption, NEW b, NEW E, NEW L, Evidences(b, E, L), NEW st
  PROVE  LET d == Gate!Decide(b, E, L, st) IN
         /\ Eligible(st) # {} =>
              /\ d.action = "promote" /\ d.selected \in Eligible(st)
              /\ \A q \in Eligible(st) : d.selected = q \/ Gate!Precedes(b, E, L, d.selected, q)
         /\ Eligible(st) = {} => d.action # "promote"
<1> DEFINE S == Eligible(st)
           best(p) == \A q \in S : p = q \/ Gate!Precedes(b, E, L, p, q)
<1>1. S \in SUBSET Gate!Round
  BY DEF Eligible
<1>2. CASE S # {}
  <2>1. \E p \in S : best(p)
    BY <1>1, <1>2, OneIsPreferred
  <2>2. (CHOOSE p \in S : best(p)) \in S /\ best(CHOOSE p \in S : best(p))
    BY <2>1
  <2>3. /\ Gate!Decide(b, E, L, st).action = "promote"
        /\ Gate!Decide(b, E, L, st).selected = CHOOSE p \in S : best(p)
    BY <1>2 DEF Gate!Decide, Eligible
  <2> HIDE DEF S
  <2> QED BY <1>2, <2>2, <2>3 DEF S
<1>3. CASE S = {}
  BY <1>3 DEF Gate!Decide, Eligible
<1> QED BY <1>2, <1>3

-----------------------------------------------------------------------------
(* What the gate has found                                                  *)

(* What the gate has decided is what its rule says of the package.         *)
Judged ==
  /\ pc \in {"open", "assess", "raised", "decide", "decided"}
  /\ Evidences(baseline, round, lower) /\ against \in [Gate!Round -> Comparator \cup {Missing}]
  /\ pc \in {"decide", "decided"} => status = Gate!Statuses(baseline, round, lower, against)
  /\ pc = "decided" => decision = Gate!Decide(baseline, round, lower, status)

(* The bootstrap finds a number.                                           *)
LEMMA BoundsAreIntegers ==
  ASSUME Gate!GateAssumption, NEW b \in Evidence, NEW e \in Evidence
  PROVE  Gate!LowerBounds(b, e) \subseteq Int
<1>1. Cardinality(Task) \in Nat
  BY FS_CardinalityType, SameSets DEF Gate!GateAssumption
<1>2. \A t \in Task : Cardinality(Task) * Gate!Delta(b, e, t) \in Int
  BY <1>1 DEF Evidence, Gate!Delta
<1> QED BY <1>2, SameSets DEF Gate!LowerBounds

(* ChampionPromotionGate.evaluate: the statuses and the decision are those *)
(* of the package that was opened.                                         *)
LEMMA GateInvariant ==
  ASSUME Gate!GateAssumption
  PROVE  Gate!Spec => []Judged
<1>0. BaselineEvidence \subseteq Evidence /\ RoundEvidence \subseteq Evidence
  BY SameSets DEF Gate!GateAssumption, Evidence
<1>1. Gate!Init => Judged
  BY <1>0 DEF Gate!Init, Judged, Evidences
<1>2. Judged /\ [Gate!Next]_(Gate!vars) => Judged'
  <2> SUFFICES ASSUME Judged, [Gate!Next]_(Gate!vars) PROVE Judged'
    OBVIOUS
  <2>1. CASE Gate!Open
    <3>1. round' \in [Gate!Round -> Evidence] /\ baseline' = baseline /\ baseline \in Evidence
      BY <1>0, <2>1 DEF Gate!Open, Judged, Evidences
    <3>2. lower' \in [Gate!Round -> Int]
      <4>1. \A r \in Gate!Round : lower'[r] \in Int
        BY <2>1, <3>1, BoundsAreIntegers DEF Gate!Open
      <4>2. \E T : lower' \in [Gate!Round -> T]
        BY <2>1 DEF Gate!Open
      <4> QED BY <4>1, <4>2
    <3> QED BY <2>1, <3>1, <3>2 DEF Gate!Open, Judged, Evidences
  <2>2. CASE Gate!Assess
    BY <2>2 DEF Gate!Assess, Judged, Evidences
  <2>3. CASE Gate!Evaluate
    BY <2>3 DEF Gate!Evaluate, Judged, Evidences
  <2>4. CASE UNCHANGED Gate!vars
    BY <2>4 DEF Gate!vars, Judged, Evidences
  <2> QED BY <2>1, <2>2, <2>3, <2>4 DEF Gate!Next
<1> QED BY <1>1, <1>2, PTL DEF Gate!Spec

(* A promoted round is eligible, and preferred to all that are.             *)
(* Who is promoted is eligible, and comes before every other eligible      *)
(* round.                                                                  *)
LEMMA Promotion ==
  ASSUME Gate!GateAssumption, Judged, pc = "decided", decision.action = "promote"
  PROVE  /\ decision.selected \in Gate!Round /\ status[decision.selected] = "eligible"
         /\ \A q \in Gate!Round : status[q] = "eligible" =>
              decision.selected = q \/ Gate!Precedes(baseline, round, lower, decision.selected, q)
<1>1. Evidences(baseline, round, lower) /\ decision = Gate!Decide(baseline, round, lower, status)
  BY DEF Judged
<1>2. Eligible(status) # {}
  BY <1>1, PromotedIsPreferred
<1>3. decision.selected \in Eligible(status)
      /\ \A q \in Eligible(status) :
           decision.selected = q \/ Gate!Precedes(baseline, round, lower, decision.selected, q)
  BY <1>1, <1>2, PromotedIsPreferred
<1> QED BY <1>3 DEF Eligible

(* _assess_round, for one round.                                           *)
LEMMA StatusesOf ==
  ASSUME NEW b, NEW E, NEW L, NEW C, NEW r \in Gate!Round
  PROVE  /\ Gate!Statuses(b, E, L, C)[r] = Gate!StatusOf(b, E[r], r, L[r], C[r])
         /\ Gate!StatusOf(b, E[r], r, L[r], C[r]) \in {"eligible", "insufficient", "rejected"}
BY DEF Gate!Statuses, Gate!StatusOf

(* A round that measures as well as the promoted one in everything, under  *)
(* the same comparison, is eligible too; so it comes after it in the order *)
(* of the key.                                                             *)
LEMMA QualifiedIsEligible ==
  ASSUME Gate!GateAssumption, Judged, pc = "decided", decision.action = "promote",
         NEW r \in Gate!Round, Gate!Qualifies(r, decision.selected),
         lower[r] >= lower[decision.selected]
  PROVE  status[r] = "eligible"
<1> DEFINE s == decision.selected
<1>1. s \in Gate!Round /\ status[s] = "eligible"
  BY Promotion
<1>2. /\ baseline \in Evidence /\ round[r] \in Evidence /\ round[s] \in Evidence
      /\ lower[r] \in Int /\ lower[s] \in Int
  BY <1>1 DEF Judged, Evidences
<1>3. /\ status[r] = Gate!StatusOf(baseline, round[r], r, lower[r], against[r])
      /\ status[s] = Gate!StatusOf(baseline, round[s], s, lower[s], against[s])
      /\ status[r] \in {"eligible", "insufficient", "rejected"}
  BY <1>1, StatusesOf DEF Judged
<1>4. CASE Gate!AsGood(round[r], round[s]) /\ against[r] = against[s] /\ AllowNonFinal
  <2>1. Gate!Severity(status[r]) <= Gate!Severity(status[s])
    BY <1>1, <1>2, <1>3, <1>4, StatusIsMonotone
  <2> QED BY <1>1, <1>3, <2>1 DEF Gate!Severity
<1> QED BY <1>4 DEF Gate!Qualifies

(* Among eligible rounds of the same scores and the same bound, one that   *)
(* is not dearer is not cheaper either, and came later.                    *)
LEMMA NobodyIsPassedOver ==
  ASSUME Gate!GateAssumption, Judged, pc = "decided", decision.action = "promote",
         NEW r \in Gate!Round, Gate!Qualifies(r, decision.selected),
         lower[r] >= lower[decision.selected],
         Gate!NotDearer(round[r], round[decision.selected]),
         \A t \in Task : round[r].score[t] >= round[decision.selected].score[t]
  PROVE  /\ round[r].score = round[decision.selected].score
         /\ lower[r] = lower[decision.selected]
         /\ Gate!NotDearer(round[decision.selected], round[r]) /\ decision.selected <= r
<1> DEFINE s == decision.selected
           e == round[r]
           f == round[s]
<1>1. s \in Gate!Round /\ status[r] = "eligible"
  BY Promotion, QualifiedIsEligible
<1>2. /\ baseline \in Evidence /\ e \in Evidence /\ f \in Evidence
      /\ lower[r] \in Int /\ lower[s] \in Int /\ r \in Int /\ s \in Int
  BY <1>1 DEF Judged, Evidences, Gate!Round
<1>3. s = r \/ Gate!Precedes(baseline, round, lower, s, r)
  BY <1>1, Promotion
<1>4. /\ Gate!Total(e) \in Nat /\ Gate!Total(f) \in Nat /\ Gate!Total(f) <= Gate!Total(e)
      /\ Gate!Total(e) = Gate!Total(f) => \A t \in Task : e.score[t] = f.score[t]
  BY <1>2, ScoresAddUp
<1>5. lower[r] >= lower[s] /\ Gate!NotDearer(e, f)
  OBVIOUS
<1>6. CASE s = r
  BY <1>2, <1>6 DEF Gate!NotDearer, Gate!CostKnown, Evidence
<1>7. CASE s # r
  <2>1. ~Gate!IsUnbounded(baseline, e, Cost)
    <3>1. ~Gate!HardReason(baseline, e, r, against[r])
      BY <1>1, StatusesOf DEF Judged, Gate!StatusOf
    <3> QED BY <3>1, SameSets DEF Gate!HardReason, Gate!GrowsTooMuch, Gate!GateAssumption
  <2> HIDE DEF s, e, f
  <2>2. Gate!Precedes(baseline, round, lower, s, r) /\ round[r] = e /\ round[s] = f
    BY <1>3, <1>7 DEF e, f
  <2>3. Gate!Total(e) = Gate!Total(f) /\ lower[r] = lower[s]
    BY <1>2, <1>4, <1>5, <2>2 DEF Gate!Precedes
  <2>4. e.score = f.score
    BY <1>2, <1>4, <2>3 DEF Evidence
  <2>5. Gate!Regressed(baseline, e) = Gate!Regressed(baseline, f)
    BY <2>4 DEF Gate!Regressed, Gate!Delta
  <2>6. Gate!Regressed(baseline, e) \in Nat
    BY <1>2, Keys, <2>2 DEF Judged
  <2>7. \/ Gate!CheaperThan(baseline, f, e)
        \/ Gate!CostsAlike(baseline, f, e) /\ s < r
    BY <1>2, <1>4, <2>2, <2>3, <2>5, <2>6 DEF Gate!Precedes
  <2>8. /\ e.use[Cost] \in Nat \cup {Missing} /\ f.use[Cost] \in Nat \cup {Missing}
        /\ Missing \notin Nat
    BY <1>2, SameSets DEF Evidence, Gate!GateAssumption
  <2>9. Gate!HasRatio(baseline, f) => Gate!HasRatio(baseline, e) /\ e.use[Cost] <= f.use[Cost]
    BY <1>5, <2>1 DEF Gate!HasRatio, Gate!IsComplete, Gate!NotDearer, Gate!CostKnown
  <2>10. ~Gate!CheaperThan(baseline, f, e)
    BY <2>8, <2>9 DEF Gate!CheaperThan, Gate!HasRatio, Gate!IsComplete
  <2>11. s < r /\ ~Gate!CheaperThan(baseline, e, f)
    BY <2>7, <2>10 DEF Gate!CostsAlike
  <2>12. Gate!CostKnown(e) => Gate!HasRatio(baseline, e)
    BY <2>1 DEF Gate!CostKnown, Gate!HasRatio, Gate!IsComplete
  <2>13. Gate!NotDearer(f, e)
    BY <2>8, <2>11, <2>12
       DEF Gate!NotDearer, Gate!CostKnown, Gate!CheaperThan, Gate!HasRatio, Gate!IsComplete
  <2> QED BY <1>2, <2>3, <2>4, <2>11, <2>13 DEF e, f, s
<1> QED BY <1>6, <1>7

(* The second half: who did better.                                         *)
(* If a round does better, all else unchanged, it is not judged more       *)
(* severely, and comes before every round that it came before: it is still *)
(* promoted if it was.                                                     *)
LEMMA BetterIsKept ==
  ASSUME Gate!GateAssumption, Judged, pc = "decided", NEW r \in Gate!Round,
         NEW e \in RoundEvidence,
         Gate!AsGood(e, round[r]), NEW l \in Gate!LowerBounds(baseline, e), l >= lower[r],
         Gate!Total(e) = Gate!Total(round[r]) => l = lower[r]
  PROVE  LET E == [round EXCEPT ![r] = e]
             L == [lower EXCEPT ![r] = l]
             st == Gate!Statuses(baseline, E, L, against)
         IN /\ Gate!Severity(st[r]) <= Gate!Severity(status[r])
            /\ decision.action = "promote" /\ decision.selected = r =>
                 Gate!Decide(baseline, E, L, st).selected = r
<1> DEFINE E == [round EXCEPT ![r] = e]
           L == [lower EXCEPT ![r] = l]
           st == Gate!Statuses(baseline, E, L, against)
<1>1. /\ baseline \in Evidence /\ round[r] \in Evidence /\ e \in Evidence
      /\ lower[r] \in Int /\ l \in Int /\ Evidences(baseline, round, lower)
  <2>1. e \in Evidence
    BY SameSets DEF Gate!GateAssumption, Evidence
  <2> QED BY <2>1, BoundsAreIntegers DEF Judged, Evidences
<1>2. Evidences(baseline, E, L)
  BY <1>1 DEF Evidences
<1>3. /\ E[r] = e /\ L[r] = l
      /\ \A q \in Gate!Round : q # r => E[q] = round[q] /\ L[q] = lower[q]
  BY <1>1 DEF Evidences
<1> HIDE DEF E, L
<1>4. /\ st[r] = Gate!StatusOf(baseline, e, r, l, against[r])
      /\ status[r] = Gate!StatusOf(baseline, round[r], r, lower[r], against[r])
      /\ \A q \in Gate!Round : q # r => st[q] = status[q]
      /\ \A q \in Gate!Round : st[q] \in {"eligible", "insufficient", "rejected"}
                          /\ status[q] \in {"eligible", "insufficient", "rejected"}
  BY <1>3, StatusesOf DEF Judged
<1> HIDE DEF st
<1>5. Gate!Severity(st[r]) <= Gate!Severity(status[r])
  BY <1>1, <1>4, StatusIsMonotone
<1>6. ASSUME decision.action = "promote", decision.selected = r
      PROVE  Gate!Decide(baseline, E, L, st).selected = r
  <2>1. status[r] = "eligible"
        /\ \A q \in Gate!Round : status[q] = "eligible" =>
           r = q \/ Gate!Precedes(baseline, round, lower, r, q)
    BY <1>6, Promotion
  <2>2. st[r] = "eligible"
    BY <1>4, <1>5, <2>1 DEF Gate!Severity
  <2>3. ASSUME NEW q \in Gate!Round, q # r, Gate!Precedes(baseline, round, lower, r, q)
        PROVE  Gate!Precedes(baseline, E, L, r, q)
    <3>1. E[q] = round[q] /\ L[q] = lower[q] /\ q \in Int /\ r \in Int
      BY <1>3, <2>3 DEF Gate!Round
    <3>2. /\ Gate!Total(e) \in Nat /\ Gate!Total(round[r]) \in Nat
             /\ Gate!Total(round[r]) <= Gate!Total(e)
          /\ Gate!Total(e) = Gate!Total(round[r]) =>
             \A t \in Task : e.score[t] = round[r].score[t]
      BY <1>1, Totals
    <3>3. Gate!Total(round[q]) \in Nat /\ lower[q] \in Int
      BY <1>1, Keys
    <3>4. CASE Gate!Total(e) > Gate!Total(round[q])
      BY <1>3, <3>1, <3>4 DEF Gate!Precedes
    <3>5. CASE Gate!Total(e) <= Gate!Total(round[q])
      <4>1. Gate!Total(round[r]) = Gate!Total(round[q])
            /\ Gate!Total(e) = Gate!Total(round[r]) /\ l = lower[r]
        BY <2>3, <3>2, <3>3, <3>5 DEF Gate!Precedes
      <4>2. \A t \in Task : Gate!Delta(baseline, e, t) = Gate!Delta(baseline, round[r], t)
        BY <3>2, <4>1 DEF Gate!Delta
      <4>3. Gate!Regressed(baseline, e) = Gate!Regressed(baseline, round[r])
        BY <4>2, SameSets DEF Gate!Regressed
      <4>4. Gate!CheaperThan(baseline, round[r], round[q]) =>
              Gate!CheaperThan(baseline, e, round[q])
        <5>1. Gate!IsComplete(baseline, e, Cost) <=> Gate!IsComplete(baseline, round[r], Cost)
          BY <1>1, GrowthIsMonotone, SameSets DEF Gate!GateAssumption
        <5>2. Gate!IsUnbounded(baseline, e, Cost) => Gate!IsUnbounded(baseline, round[r], Cost)
          BY <1>1, GrowthIsMonotone, SameSets DEF Gate!GateAssumption
        <5>3. Gate!HasRatio(baseline, round[r]) =>
                /\ Gate!HasRatio(baseline, e) /\ e.use[Cost] \in Nat /\ round[r].use[Cost] \in Nat
                /\ e.use[Cost] <= round[r].use[Cost]
          BY <1>1, <5>1, <5>2, SameSets
             DEF Gate!HasRatio, Gate!IsComplete, Gate!AsGood, Evidence, Gate!GateAssumption
        <5>4. Gate!HasRatio(baseline, round[q]) => round[q].use[Cost] \in Nat
          BY <1>1, Keys
        <5> QED BY <5>3, <5>4 DEF Gate!CheaperThan
      <4>5. Gate!CheaperThan(baseline, round[q], e) =>
              Gate!CheaperThan(baseline, round[q], round[r])
        <5>1. Gate!IsComplete(baseline, e, Cost) <=> Gate!IsComplete(baseline, round[r], Cost)
          BY <1>1, GrowthIsMonotone, SameSets DEF Gate!GateAssumption
        <5>2. Gate!IsUnbounded(baseline, e, Cost) => Gate!IsUnbounded(baseline, round[r], Cost)
          BY <1>1, GrowthIsMonotone, SameSets DEF Gate!GateAssumption
        <5>3. Gate!HasRatio(baseline, round[r]) =>
                /\ Gate!HasRatio(baseline, e) /\ e.use[Cost] \in Nat /\ round[r].use[Cost] \in Nat
                /\ e.use[Cost] <= round[r].use[Cost]
          BY <1>1, <5>1, <5>2, SameSets
             DEF Gate!HasRatio, Gate!IsComplete, Gate!AsGood, Evidence, Gate!GateAssumption
        <5>4. Gate!HasRatio(baseline, round[q]) => round[q].use[Cost] \in Nat
          BY <1>1, Keys
        <5> QED BY <5>3, <5>4 DEF Gate!CheaperThan
      <4> DEFINE x == Gate!Regressed(baseline, round[r])
                 y == Gate!Regressed(baseline, round[q])
      <4>6. L[r] = lower[r] /\ E[r] = e
        BY <1>3, <4>1
      <4>7. \/ lower[r] > lower[q]
            \/ lower[r] = lower[q] /\
               \/ x < y
               \/ x = y /\ (Gate!CheaperThan(baseline, round[r], round[q])
                            \/ (Gate!CostsAlike(baseline, round[r], round[q]) /\ r < q))
        <5>1. ~(Gate!Total(round[r]) > Gate!Total(round[q]))
          BY <3>2, <3>3, <4>1
        <5> QED BY <2>3, <5>1 DEF Gate!Precedes
      <4>8. Gate!CostsAlike(baseline, round[r], round[q]) =>
              Gate!CheaperThan(baseline, e, round[q]) \/ Gate!CostsAlike(baseline, e, round[q])
        BY <4>5 DEF Gate!CostsAlike
      <4>9. \/ lower[r] > lower[q]
            \/ lower[r] = lower[q] /\
               \/ x < y
               \/ x = y /\ (Gate!CheaperThan(baseline, e, round[q])
                            \/ (Gate!CostsAlike(baseline, e, round[q]) /\ r < q))
        BY <4>4, <4>7, <4>8
      <4> QED BY <3>1, <4>1, <4>3, <4>6, <4>9 DEF Gate!Precedes
    <3> QED BY <3>2, <3>3, <3>4, <3>5
  <2> DEFINE s == Gate!Decide(baseline, E, L, st).selected
  <2>4. Eligible(st) # {} /\ r \in Eligible(st)
    BY <2>2 DEF Eligible
  <2>5. s \in Eligible(st) /\ (s = r \/ Gate!Precedes(baseline, E, L, s, r))
    BY <1>2, <2>4, PromotedIsPreferred
  <2> HIDE DEF s
  <2>6. ASSUME s # r PROVE FALSE
    <3>1. s \in Gate!Round /\ status[s] = "eligible"
      BY <1>4, <2>5, <2>6 DEF Eligible
    <3>2. Gate!Precedes(baseline, E, L, r, s)
      BY <2>1, <2>3, <2>6, <3>1
    <3> QED BY <1>2, <2>5, <2>6, <3>1, <3>2, PreferenceIsOrder
  <2> QED BY <2>6 DEF s
<1> QED BY <1>5, <1>6 DEF E, L, st

(* ChampionPromotionGate.evaluate (src/evoagent/champion/policy.py),       *)
(* docs/21: an eligible round, or where rounds before the last may be      *)
(* chosen one that measures as well as the promoted one, that scores as    *)
(* much in every task, has as good a bound and is not dearer, is no better *)
(* in any of these and came later; a round that does better is not judged  *)
(* more severely and is still promoted if it was; and nothing is promoted  *)
(* whose required use is unknown or that uses what the baseline did not    *)
(* use at all; for any suite, any rounds, any evidence and any policy.     *)
THEOREM TheSelectionIsEarned ==
  ASSUME Gate!GateAssumption
  PROVE  Gate!Spec => [](Gate!SelectionIsEarned /\ Gate!NothingIsHidden)
<1>1. Judged => Gate!SelectionIsEarned
  BY NobodyIsPassedOver, BetterIsKept DEF Gate!SelectionIsEarned
<1>2. Judged => Gate!NothingIsHidden
  <2> SUFFICES ASSUME Judged, pc = "decided", decision.action = "promote"
               PROVE  LET e == round[decision.selected] IN
                      /\ \A m \in Required : e.use[m] # Missing /\ baseline.use[m] # Missing
                      /\ \A m \in Metric :
                           e.use[m] # Missing /\ baseline.use[m] = 0 => e.use[m] = 0
    BY DEF Gate!NothingIsHidden
  <2> DEFINE s == decision.selected
             e == round[s]
  <2>1. s \in Gate!Round /\ status[s] = "eligible"
    BY Promotion
  <2>2. status[s] = Gate!StatusOf(baseline, e, s, lower[s], against[s])
    BY <2>1, StatusesOf DEF Judged
  <2>3. baseline \in Evidence /\ e \in Evidence
    BY <2>1 DEF Judged, Evidences
  <2> HIDE DEF e, s
  <2>4. ~Gate!HardReason(baseline, e, s, against[s])
        /\ ~Gate!Insufficient(baseline, e, lower[s], against[s])
    BY <2>1, <2>2 DEF Gate!StatusOf
  <2>5. \A m \in Required : e.use[m] # Missing /\ baseline.use[m] # Missing
    BY <2>4 DEF Gate!Insufficient, Gate!IsComplete
  <2>6. ASSUME NEW m \in Metric, e.use[m] # Missing, baseline.use[m] = 0
        PROVE  e.use[m] = 0
    <3>1. e.use[m] \in Nat
      BY <2>3, <2>6 DEF Evidence
    <3>2. ~Gate!IsUnbounded(baseline, e, m)
      BY <2>4, SameSets DEF Gate!HardReason, Gate!GrowsTooMuch
    <3> QED BY <2>6, <3>1, <3>2, SameSets
               DEF Gate!IsUnbounded, Gate!IsComplete, Gate!GateAssumption
  <2> QED BY <2>5, <2>6 DEF e, s
<1> QED BY <1>1, <1>2, GateInvariant, PTL

-----------------------------------------------------------------------------
(***************************************************************************)
(* The packages of benchmark evidence (BenchmarkEvidence), for any runs,   *)
(* any result files and any comparisons.                                   *)
(***************************************************************************)
CONSTANTS Run, contract, order, PerTask, Job, Request, Checks, Absent
VARIABLES parsed, runs, reports, log, package

Bench == INSTANCE BenchmarkEvidence

(* The finite sets of the comparator are those of this module.             *)
LEMMA SameBenchSets ==
  ASSUME NEW S
  PROVE  Bench!Cardinality(S) = Cardinality(S) /\ (Bench!IsFiniteSet(S) <=> IsFiniteSet(S))
BY DEF Bench!Cardinality, Bench!IsFiniteSet, Cardinality, IsFiniteSet

(* Absent is what stands for nothing in the tables: it is no report.       *)
ReportsExist == \A q \in Request : \A E : Bench!Compared(q, E) # Absent

(* A report names what it was asked for.                                   *)
LEMMA ReportFields ==
  ASSUME NEW q, NEW E
  PROVE  /\ Bench!Compared(q, E).id = q.id /\ Bench!Compared(q, E).mode = q.mode
         /\ Bench!Compared(q, E).ids = q.ids
         /\ q.mode # "longitudinal" => Bench!Compared(q, E).anchor = q.anchor
<1>1. /\ Bench!Longitudinal(q, E).id = q.id /\ Bench!Longitudinal(q, E).mode = q.mode
      /\ Bench!Longitudinal(q, E).ids = q.ids
  BY DEF Bench!Longitudinal
<1>2. /\ Bench!SameModel(q, E).id = q.id /\ Bench!SameModel(q, E).mode = q.mode
      /\ Bench!SameModel(q, E).ids = q.ids /\ Bench!SameModel(q, E).anchor = q.anchor
  BY DEF Bench!SameModel
<1> QED BY <1>1, <1>2 DEF Bench!Compared

(* BenchmarkComparator: a comparison depends only on the evidence of the   *)
(* runs it compares. For rounds that is because every number from 0 to the *)
(* last is the round of one of them.                                       *)
LEMMA SameEvidence ==
  ASSUME Bench!EvidenceAssumption, NEW q \in Request, Bench!IsComparable(q), NEW E, NEW F,
         \A r \in q.ids : E[r] = F[r]
  PROVE  Bench!Compared(q, E) = Bench!Compared(q, F)
<1>1. CASE q.mode = "longitudinal"
  <2> DEFINE At(n) == CHOOSE r \in q.ids : contract[r].round = n
             last == Bench!Cardinality(q.ids) - 1
             best(G) == Bench!Max({Bench!Score(G[r]) : r \in q.ids})
  <2>1. Bench!AreRounds(q.ids)
    BY <1>1 DEF Bench!IsComparable
  <2>2. Bench!Cardinality(q.ids) \in Nat /\ last \in Nat /\ last >= 1
    BY <2>1, FS_CardinalityType, SameBenchSets DEF Bench!AreRounds, Bench!EvidenceAssumption
  <2>3. ASSUME NEW n \in 0 .. last PROVE At(n) \in q.ids
    <3>1. \E r \in q.ids : contract[r].round = n
      BY <2>1 DEF Bench!AreRounds
    <3> QED BY <3>1
  <2> HIDE DEF At, last
  <2>4. \A n \in 0 .. last : E[At(n)] = F[At(n)]
    BY <2>3
  <2>5. E[At(0)] = F[At(0)] /\ E[At(last)] = F[At(last)]
    BY <2>2, <2>4
  <2>6. \A n \in 1 .. last : E[At(n)] = F[At(n)] /\ E[At(n - 1)] = F[At(n - 1)]
    BY <2>2, <2>4
  <2>7. [r \in q.ids |-> [score |-> Bench!Score(E[r]), errors |-> E[r].errors, use |-> E[r].use]]
        = [r \in q.ids |-> [score |-> Bench!Score(F[r]), errors |-> F[r].errors, use |-> F[r].use]]
    OBVIOUS
  <2>8. [r \in q.ids \ {At(0)} |-> Bench!TaskDeltas(E[r], E[At(0)])]
        = [r \in q.ids \ {At(0)} |-> Bench!TaskDeltas(F[r], F[At(0)])]
    BY <2>5
  <2>9. best(E) = best(F)
    <3>1. {Bench!Score(E[r]) : r \in q.ids} = {Bench!Score(F[r]) : r \in q.ids}
      OBVIOUS
    <3> QED BY <3>1
  <2> HIDE DEF best
  <2>10. {contract[r].round : r \in {s \in q.ids : Bench!Score(E[s]) = best(E)}}
         = {contract[r].round : r \in {s \in q.ids : Bench!Score(F[s]) = best(F)}}
    <3>1. {s \in q.ids : Bench!Score(E[s]) = best(E)} = {s \in q.ids : Bench!Score(F[s]) = best(F)}
      BY <2>9
    <3> QED BY <3>1
  <2>11. {n \in 1 .. last : Bench!Score(E[At(n)]) < Bench!Score(E[At(n - 1)])}
         = {n \in 1 .. last : Bench!Score(F[At(n)]) < Bench!Score(F[At(n - 1)])}
    BY <2>6
  <2> DEFINE Report(G) ==
        [id |-> q.id, mode |-> q.mode, ids |-> q.ids,
         points |-> [r \in q.ids |-> [score |-> Bench!Score(G[r]), errors |-> G[r].errors,
                                      use |-> G[r].use]],
         deltas |-> [r \in q.ids \ {At(0)} |-> Bench!TaskDeltas(G[r], G[At(0)])],
         best |->
           Bench!Min({contract[r].round : r \in {s \in q.ids : Bench!Score(G[s]) = best(G)}}),
         tasks |-> Bench!Differences(Bench!TaskDeltas(G[At(last)], G[At(0)])),
         downward |->
           Bench!Cardinality({n \in 1 .. last : Bench!Score(G[At(n)]) < Bench!Score(G[At(n - 1)])}),
         errors |-> G[At(last)].errors - G[At(0)].errors,
         use |-> Bench!UseDeltas(G[At(last)], G[At(0)])]
  <2>12. Report(E) = Report(F)
    BY <2>5, <2>7, <2>8, <2>10, <2>11
  <2>13. \A G : Bench!Longitudinal(q, G) = Report(G)
    BY DEF Bench!Longitudinal, At, last, best
  <2> HIDE DEF Report
  <2> QED BY <1>1, <2>12, <2>13 DEF Bench!Compared
<1>2. CASE q.mode # "longitudinal"
  <2>1. q.anchor \in q.ids
    BY <1>2 DEF Bench!IsComparable, Bench!AreAgents
  <2>2. ASSUME NEW r \in q.ids
        PROVE  {s \in q.ids : Bench!Before(s, r, E)} = {s \in q.ids : Bench!Before(s, r, F)}
    BY <2>2 DEF Bench!Before
  <2>3. [r \in q.ids |-> [rank |-> 1 + Bench!Cardinality({s \in q.ids : Bench!Before(s, r, E)}),
                          score |-> Bench!Score(E[r]), errors |-> E[r].errors, use |-> E[r].use]]
        = [r \in q.ids |-> [rank |-> 1 + Bench!Cardinality({s \in q.ids : Bench!Before(s, r, F)}),
                            score |-> Bench!Score(F[r]), errors |-> F[r].errors, use |-> F[r].use]]
    BY <2>2
  <2>4. [r \in q.ids \ {q.anchor} |->
           [tasks |-> Bench!Differences(Bench!TaskDeltas(E[q.anchor], E[r])),
            score |-> Bench!Score(E[q.anchor]) - Bench!Score(E[r]),
            errors |-> E[q.anchor].errors - E[r].errors,
            use |-> Bench!UseDeltas(E[q.anchor], E[r])]]
        = [r \in q.ids \ {q.anchor} |->
             [tasks |-> Bench!Differences(Bench!TaskDeltas(F[q.anchor], F[r])),
              score |-> Bench!Score(F[q.anchor]) - Bench!Score(F[r]),
              errors |-> F[q.anchor].errors - F[r].errors,
              use |-> Bench!UseDeltas(F[q.anchor], F[r])]]
    BY <2>1
  <2> QED BY <1>2, <2>3, <2>4 DEF Bench!Compared, Bench!SameModel
<1> QED BY <1>1, <1>2

(* What BenchmarkComparator returns for some request.                      *)
IsReport(x) ==
  \E q \in Request :
    /\ x.id = q.id /\ x.mode = q.mode /\ x.ids = q.ids
    /\ q.mode # "longitudinal" => x.anchor = q.anchor
    /\ Bench!IsComparable(q)

(* The log has one line for each stored run and each stored comparison,    *)
(* with what is stored, and no others.                                     *)
TablesInv ==
  /\ DOMAIN runs = Run /\ DOMAIN reports = Bench!Comparison
  /\ \A r \in Run : runs[r] # Absent => Bench!Imported(r, runs[r]) \in log
  /\ \A c \in Bench!Comparison : reports[c] # Absent =>
       IsReport(reports[c]) /\ reports[c].id = c /\ Bench!Stored(reports[c]) \in log
  /\ \A e \in log :
       \/ \E r \in Run : runs[r] # Absent /\ e = Bench!Imported(r, runs[r])
       \/ \E c \in Bench!Comparison : reports[c] # Absent /\ e = Bench!Stored(reports[c])

(* And what package.py verified about a package when it was built still    *)
(* holds of the registry.                                                  *)
PackageInv ==
  package # Absent =>
    /\ \A r \in DOMAIN package.runs :
         r \in Run /\ package.runs[r] = runs[r] /\ runs[r] # Absent
    /\ \A e \in package.log : e.type = "run_imported" => e.subject \in DOMAIN package.runs
    /\ \A e \in package.log : e.type # "run_imported" =>
         e.payload \in {package.longitudinal, package.sameModel}
    /\ IsReport(package.longitudinal) /\ Bench!RecomputesTo(package.longitudinal, package.runs)
    /\ IsReport(package.sameModel) /\ Bench!RecomputesTo(package.sameModel, package.runs)

(* What is recomputed from the evidence of the package is what the registry *)
(* would say.                                                              *)
LEMMA RecomputedIsDerived ==
  ASSUME Bench!EvidenceAssumption, NEW x, IsReport(x), NEW E, NEW F,
         \A r \in x.ids : E[r] = F[r], Bench!IsDerived(x, E)
  PROVE  Bench!IsDerived(x, F)
<1> DEFINE p == Bench!Requested(x)
<1>1. PICK q \in Request : /\ x.id = q.id /\ x.mode = q.mode /\ x.ids = q.ids
                           /\ q.mode # "longitudinal" => x.anchor = q.anchor
                           /\ Bench!IsComparable(q)
  BY DEF IsReport
<1>2. p \in Request /\ p.id = x.id /\ p.mode = x.mode
  BY <1>1 DEF Bench!Requested
<1> HIDE DEF p
<1>3. x = Bench!Compared(p, E)
  BY DEF Bench!IsDerived, p
<1>4. x.ids = p.ids /\ (p.mode # "longitudinal" => x.anchor = p.anchor)
  BY <1>3, ReportFields
<1>5. Bench!IsComparable(p)
  BY <1>1, <1>2, <1>4 DEF Bench!IsComparable
<1>6. Bench!Compared(p, E) = Bench!Compared(p, F)
  BY <1>2, <1>4, <1>5, SameEvidence
<1> QED BY <1>3, <1>6 DEF Bench!IsDerived, p

(* A line of the log names what it is about, and no comparison is taken for *)
(* a run.                                                                  *)
LEMMA LogLines ==
  ASSUME Bench!EvidenceAssumption, NEW e
  PROVE  /\ \A r, y : e = Bench!Imported(r, y) => e.type = "run_imported" /\ e.subject = r
            /\ e.payload = y
         /\ \A x : e = Bench!Stored(x) => e.type = x.mode /\ e.payload = x
         /\ \A x : IsReport(x) => x.mode \in {"longitudinal", "same_model"}
BY DEF Bench!Imported, Bench!Stored, IsReport, Bench!EvidenceAssumption

(* register_run and register_comparison: what is stored stays, and its line *)
(* is written with it.                                                     *)
LEMMA TablesStep ==
  ASSUME Bench!EvidenceAssumption, ReportsExist, TablesInv, [Bench!Next]_(Bench!vars)
  PROVE  TablesInv' /\ \A r \in Run : runs[r] # Absent => runs'[r] = runs[r]
<1>1. ASSUME NEW r \in Run, Bench!ImportRun(r)
      PROVE  TablesInv' /\ \A s \in Run : runs[s] # Absent => runs'[s] = runs[s]
  <2>1. /\ runs' = [runs EXCEPT ![r] = parsed[r]]
           /\ log' = log \cup {Bench!Imported(r, parsed[r])}
        /\ reports' = reports /\ parsed[r] # Absent /\ runs[r] = Absent
    BY <1>1 DEF Bench!ImportRun
  <2>2. runs'[r] = parsed[r] /\ \A s \in Run : s # r => runs'[s] = runs[s]
    BY <2>1 DEF TablesInv
  <2>3. \A s \in Run : runs[s] # Absent => runs'[s] = runs[s]
    BY <2>1, <2>2
  <2>4. \A s \in Run : runs'[s] # Absent => Bench!Imported(s, runs'[s]) \in log'
    BY <2>1, <2>2 DEF TablesInv
  <2>5. \A e \in log' :
          \/ \E s \in Run : runs'[s] # Absent /\ e = Bench!Imported(s, runs'[s])
          \/ \E c \in Bench!Comparison : reports'[c] # Absent /\ e = Bench!Stored(reports'[c])
    <3> SUFFICES ASSUME NEW e \in log'
                 PROVE  \/ \E s \in Run : runs'[s] # Absent /\ e = Bench!Imported(s, runs'[s])
                        \/ \E c \in Bench!Comparison : reports'[c] # Absent
                             /\ e = Bench!Stored(reports'[c])
      OBVIOUS
    <3>1. CASE e = Bench!Imported(r, parsed[r])
      BY <2>1, <2>2, <3>1
    <3>2. CASE e \in log
      BY <2>1, <2>3, <3>2 DEF TablesInv
    <3> QED BY <2>1, <3>1, <3>2
  <2> QED BY <2>1, <2>3, <2>4, <2>5 DEF TablesInv
<1>2. ASSUME NEW q \in Request, Bench!StoreComparison(q)
      PROVE  TablesInv' /\ runs' = runs
  <2> DEFINE report == Bench!Compared(q, parsed)
  <2>1. /\ reports' = [reports EXCEPT ![q.id] = report] /\ log' = log \cup {Bench!Stored(report)}
        /\ runs' = runs /\ reports[q.id] = Absent /\ Bench!IsComparable(q)
    BY <1>2 DEF Bench!StoreComparison
  <2>2. q.id \in Bench!Comparison
    BY DEF Bench!Comparison
  <2>3. reports'[q.id] = report
        /\ \A c \in Bench!Comparison : c # q.id => reports'[c] = reports[c]
    BY <2>1, <2>2 DEF TablesInv
  <2>4. report # Absent
    BY DEF ReportsExist
  <2>5. report.id = q.id /\ IsReport(report)
    BY <2>1, ReportFields DEF IsReport
  <2> HIDE DEF report
  <2>6. \A c \in Bench!Comparison : reports[c] # Absent => reports'[c] = reports[c]
    BY <2>1, <2>3
  <2>7. \A c \in Bench!Comparison : reports'[c] # Absent =>
          IsReport(reports'[c]) /\ reports'[c].id = c /\ Bench!Stored(reports'[c]) \in log'
    BY <2>1, <2>3, <2>5 DEF TablesInv
  <2>8. \A e \in log' :
          \/ \E s \in Run : runs'[s] # Absent /\ e = Bench!Imported(s, runs'[s])
          \/ \E c \in Bench!Comparison : reports'[c] # Absent /\ e = Bench!Stored(reports'[c])
    <3> SUFFICES ASSUME NEW e \in log'
                 PROVE  \/ \E s \in Run : runs'[s] # Absent /\ e = Bench!Imported(s, runs'[s])
                        \/ \E c \in Bench!Comparison : reports'[c] # Absent
                             /\ e = Bench!Stored(reports'[c])
      OBVIOUS
    <3>1. CASE e = Bench!Stored(report)
      BY <2>2, <2>3, <2>4, <3>1
    <3>2. CASE e \in log
      BY <2>1, <2>6, <3>2 DEF TablesInv
    <3> QED BY <2>1, <3>1, <3>2
  <2>9. \A r \in Run : runs'[r] # Absent => Bench!Imported(r, runs'[r]) \in log'
    BY <2>1 DEF TablesInv
  <2>10. DOMAIN runs' = Run /\ DOMAIN reports' = Bench!Comparison
    BY <2>1 DEF TablesInv
  <2> QED BY <2>1, <2>7, <2>8, <2>9, <2>10 DEF TablesInv
<1>3. CASE UNCHANGED <<runs, reports, log>>
  BY <1>3 DEF TablesInv
<1>4. ASSUME NEW r \in Run,
             NEW j \in Job, Bench!ImportFile(r, j) PROVE UNCHANGED <<runs, reports, log>>
  BY <1>4 DEF Bench!ImportFile
<1>5. ASSUME Bench!BuildAny PROVE UNCHANGED <<runs, reports, log>>
  BY <1>5 DEF Bench!BuildAny, Bench!Build
<1> QED BY <1>1, <1>2, <1>3, <1>4, <1>5 DEF Bench!Next, Bench!vars

(* BenchmarkComparisonPackageManager: because every event must name what   *)
(* the package has and what it has must have its event, the package fits   *)
(* the registry, wherever its evidence came from.                          *)
LEMMA BuildFits ==
  ASSUME Bench!EvidenceAssumption, TablesInv, Bench!BuildAny
  PROVE  PackageInv'
<1>1. PICK c \in Bench!Comparison, d \in Bench!Comparison :
        /\ reports[c] # Absent /\ reports[c].mode = "longitudinal"
        /\ reports[d] # Absent /\ reports[d].mode = "same_model"
        /\ \E ids \in SUBSET Run, E \in {runs, parsed} : Bench!Build(ids, E, reports[c], reports[d])
  BY DEF Bench!BuildAny
<1>2. PICK ids \in SUBSET Run, E \in {runs, parsed} : Bench!Build(ids, E, reports[c], reports[d])
  BY <1>1
<1> DEFINE F == [r \in ids |-> E[r]]
           p == Bench!Packed(F, reports[c], reports[d])
<1>3. Bench!PackageVerifies(p) /\ package' = p /\ runs' = runs
  BY <1>2 DEF Bench!Build
<1>4. p.runs = F /\ p.longitudinal = reports[c] /\ p.sameModel = reports[d] /\ p.log = log
  BY DEF Bench!Packed
<1>5. IsReport(reports[c]) /\ IsReport(reports[d])
  BY <1>1 DEF TablesInv
<1> HIDE DEF p
<1>6. /\ Bench!RecomputesTo(p.longitudinal, p.runs) /\ Bench!RecomputesTo(p.sameModel, p.runs)
      /\ Bench!EventsOf(p, {"run_imported"}) = {Bench!Imported(r, p.runs[r]) : r \in DOMAIN p.runs}
      /\ Bench!EventsOf(p, {"longitudinal", "same_model"})
           = {Bench!Stored(p.longitudinal), Bench!Stored(p.sameModel)}
  BY <1>3 DEF Bench!PackageVerifies, Bench!AuditAgrees
<1>7. DOMAIN p.runs \subseteq Run
  BY <1>4
<1>8. ASSUME NEW r \in DOMAIN p.runs PROVE r \in Run /\ p.runs[r] = runs[r] /\ runs[r] # Absent
  <2>1. Bench!Imported(r, p.runs[r]) \in log
    BY <1>4, <1>6 DEF Bench!EventsOf
  <2> DEFINE e == Bench!Imported(r, p.runs[r])
  <2>2. e.type = "run_imported" /\ e.subject = r /\ e.payload = p.runs[r]
    BY LogLines
  <2> HIDE DEF e
  <2>3. \/ \E s \in Run : runs[s] # Absent /\ e = Bench!Imported(s, runs[s])
        \/ \E x \in Bench!Comparison : reports[x] # Absent /\ e = Bench!Stored(reports[x])
    BY <2>1 DEF TablesInv, e
  <2>4. ASSUME NEW x \in Bench!Comparison, reports[x] # Absent, e = Bench!Stored(reports[x])
        PROVE  FALSE
    <3>1. IsReport(reports[x])
      BY <2>4 DEF TablesInv
    <3> QED BY <2>2, <2>4, <3>1, LogLines
  <2>5. PICK s \in Run : runs[s] # Absent /\ e = Bench!Imported(s, runs[s])
    BY <2>3, <2>4
  <2>6. s = r /\ runs[s] = p.runs[r]
    BY <2>2, <2>5, LogLines
  <2> QED BY <2>5, <2>6
<1>9. ASSUME NEW e \in p.log, e.type = "run_imported" PROVE e.subject \in DOMAIN p.runs
  <2>1. e \in Bench!EventsOf(p, {"run_imported"})
    BY <1>9 DEF Bench!EventsOf
  <2>2. PICK r \in DOMAIN p.runs : e = Bench!Imported(r, p.runs[r])
    BY <1>6, <2>1
  <2> QED BY <2>2, LogLines
<1>10. ASSUME NEW e \in p.log, e.type # "run_imported"
       PROVE  e.payload \in {p.longitudinal, p.sameModel}
  <2>1. \E x \in Bench!Comparison : reports[x] # Absent /\ e = Bench!Stored(reports[x])
    BY <1>4, <1>10, LogLines DEF TablesInv
  <2>2. e.type \in {"longitudinal", "same_model"}
    BY <2>1, LogLines DEF TablesInv
  <2>3. e \in Bench!EventsOf(p, {"longitudinal", "same_model"})
    BY <2>2 DEF Bench!EventsOf
  <2> QED BY <1>6, <2>3, LogLines
<1>11. IsReport(p.longitudinal) /\ IsReport(p.sameModel)
  BY <1>4, <1>5
<1> QED BY <1>3, <1>6, <1>8, <1>9, <1>10, <1>11 DEF PackageInv

(* Both hold in every reachable state.                                     *)
LEMMA BenchInvariant ==
  ASSUME Bench!EvidenceAssumption, ReportsExist
  PROVE  Bench!Spec => [](TablesInv /\ PackageInv)
<1>1. Bench!Init => TablesInv /\ PackageInv
  BY DEF Bench!Init, TablesInv, PackageInv
<1>2. TablesInv /\ PackageInv /\ [Bench!Next]_(Bench!vars) => TablesInv' /\ PackageInv'
  <2> SUFFICES ASSUME TablesInv, PackageInv, [Bench!Next]_(Bench!vars) PROVE TablesInv'
                      /\ PackageInv'
    OBVIOUS
  <2>1. TablesInv' /\ \A r \in Run : runs[r] # Absent => runs'[r] = runs[r]
    BY TablesStep
  <2>2. CASE UNCHANGED package
    BY <2>1, <2>2 DEF PackageInv
  <2>3. CASE Bench!BuildAny
    BY <2>1, <2>3, BuildFits
  <2>4. UNCHANGED package \/ Bench!BuildAny
    BY DEF Bench!Next, Bench!ImportFile, Bench!ImportRun, Bench!StoreComparison, Bench!vars
  <2> QED BY <2>1, <2>2, <2>3, <2>4
<1> QED BY <1>1, <1>2, PTL DEF Bench!Spec

(* benchmark_evidence/package.py, build and verify: a package has the runs *)
(* of the registry, whole and unchanged, and its comparisons are those of  *)
(* this evidence and the only ones ever stored; for any runs, any result   *)
(* files and any requests.                                                 *)
THEOREM ThePackageIsDerived ==
  ASSUME Bench!EvidenceAssumption, ReportsExist
  PROVE  Bench!Spec => []Bench!PackagesAreDerived
<1>1. PackageInv => Bench!PackagesAreDerived
  <2> SUFFICES ASSUME PackageInv, package # Absent PROVE Bench!PackagesAreDerived
    BY DEF Bench!PackagesAreDerived
  <2>1. ASSUME NEW x, IsReport(x), Bench!RecomputesTo(x, package.runs)
               PROVE Bench!IsDerived(x, runs)
    <3>1. Bench!IsDerived(x, package.runs) /\ x.ids \subseteq DOMAIN package.runs
      BY <2>1 DEF Bench!RecomputesTo, Bench!IsDerived
    <3>2. \A r \in x.ids : package.runs[r] = runs[r]
      BY <3>1 DEF PackageInv
    <3> QED BY <2>1, <3>1, <3>2, RecomputedIsDerived
  <2> QED BY <2>1 DEF PackageInv, Bench!PackagesAreDerived
<1> QED BY <1>1, BenchInvariant, PTL

(* BenchmarkComparisonPackageManager.build: nothing that the package asks  *)
(* for is missing from a registry that has one comparison of each kind,    *)
(* both of its own evidence.                                               *)
THEOREM AnHonestRegistryIsPackaged ==
  ASSUME Bench!EvidenceAssumption, ReportsExist
  PROVE  Bench!Spec => []Bench!HonestRegistryIsPackaged
<1>1. TablesInv => Bench!HonestRegistryIsPackaged
  <2> SUFFICES ASSUME TablesInv, NEW c \in Bench!Comparison, NEW d \in Bench!Comparison,
                      \A x \in Bench!Comparison : reports[x] # Absent <=> x \in {c, d},
                      Bench!StateVerifies,
                      reports[c].mode = "longitudinal", Bench!IsDerived(reports[c], runs),
                      reports[d].mode = "same_model", Bench!IsDerived(reports[d], runs)
               PROVE  LET stored == {r \in Run : runs[r] # Absent} IN
                      Bench!PackageVerifies(
                        Bench!Packed([r \in stored |-> runs[r]], reports[c], reports[d]))
    BY DEF Bench!HonestRegistryIsPackaged
  <2> DEFINE stored == {r \in Run : runs[r] # Absent}
             F == [r \in stored |-> runs[r]]
             p == Bench!Packed(F, reports[c], reports[d])
  <2>1. /\ p.runs = F /\ p.longitudinal = reports[c] /\ p.sameModel = reports[d] /\ p.log = log
        /\ p.eligible = [r \in DOMAIN F |-> Bench!Prerequisites(r)]
    BY DEF Bench!Packed
  <2>2. /\ IsReport(reports[c]) /\ IsReport(reports[d])
        /\ reports[c] # Absent /\ reports[d] # Absent
    BY DEF TablesInv
  <2>3. ASSUME NEW x \in {reports[c], reports[d]}
        PROVE  x.ids \subseteq stored /\ x.ids # {} /\ Bench!RecomputesTo(x, F)
    <3>1. IsReport(x) /\ Bench!IsDerived(x, runs)
      BY <2>2
    <3>2. x.ids \subseteq Run /\ x.ids # {}
      <4>1. PICK q \in Request : x.ids = q.ids /\ Bench!IsComparable(q)
        BY <3>1 DEF IsReport
      <4>2. q.ids # {}
        <5>1. Bench!Cardinality(q.ids) >= 2
          BY <4>1 DEF Bench!IsComparable, Bench!AreRounds, Bench!AreAgents
        <5> QED BY <5>1, FS_EmptySet, SameBenchSets
      <4> QED BY <4>1, <4>2 DEF Bench!EvidenceAssumption
    <3>3. x.ids \subseteq stored
      BY <2>2, <3>2 DEF Bench!StateVerifies
    <3>4. Bench!IsDerived(x, F)
      BY <3>1, <3>3, RecomputedIsDerived
    <3> QED BY <3>2, <3>3, <3>4 DEF Bench!RecomputesTo, Bench!IsDerived
  <2>4. Bench!EventsOf(p, {"run_imported"}) = {Bench!Imported(r, F[r]) : r \in DOMAIN F}
    <3>1. ASSUME NEW e \in log, e.type = "run_imported"
                 PROVE e \in {Bench!Imported(r, F[r]) : r \in DOMAIN F}
      <4>1. ~\E x \in Bench!Comparison : reports[x] # Absent /\ e = Bench!Stored(reports[x])
        BY <3>1, LogLines DEF TablesInv
      <4>2. PICK r \in Run : runs[r] # Absent /\ e = Bench!Imported(r, runs[r])
        BY <4>1 DEF TablesInv
      <4> QED BY <4>2
    <3>2. ASSUME NEW r \in stored PROVE Bench!Imported(r, F[r]) \in log
                 /\ Bench!Imported(r, F[r]).type = "run_imported"
      BY LogLines DEF TablesInv
    <3> QED BY <2>1, <3>1, <3>2 DEF Bench!EventsOf
  <2>5. Bench!EventsOf(p, {"longitudinal", "same_model"})
        = {Bench!Stored(reports[c]), Bench!Stored(reports[d])}
    <3>1. ASSUME NEW e \in log, e.type \in {"longitudinal", "same_model"}
          PROVE  e \in {Bench!Stored(reports[c]), Bench!Stored(reports[d])}
      <4>1. ~\E r \in Run : runs[r] # Absent /\ e = Bench!Imported(r, runs[r])
        BY <3>1, LogLines
      <4> QED BY <4>1 DEF TablesInv
    <3>2. Bench!Stored(reports[c]) \in log /\ Bench!Stored(reports[d]) \in log
      BY <2>2 DEF TablesInv
    <3>3. Bench!Stored(reports[c]).type \in {"longitudinal", "same_model"}
          /\ Bench!Stored(reports[d]).type \in {"longitudinal", "same_model"}
      BY LogLines
    <3> QED BY <2>1, <3>1, <3>2, <3>3 DEF Bench!EventsOf
  <2>6. DOMAIN F = stored /\ stored # {}
    BY <2>3
  <2> HIDE DEF p, F, stored
  <2>7. Bench!PackageVerifies(p)
    BY <2>1, <2>3, <2>4, <2>5, <2>6 DEF Bench!PackageVerifies, Bench!AuditAgrees
  <2> QED BY <2>7 DEF p, F, stored
<1> QED BY <1>1, BenchInvariant, PTL
=============================================================================
