---------------------------- MODULE CampaignProofs ----------------------------
(***************************************************************************)
(* Proofs about the governance of campaigns: every interleaving of workers *)
(* that act on stale records, with clocks read before their transactions   *)
(* started, and crash.  Then about EvolutionCycle, whose jobs write        *)
(* campaigns, skills and traces, in three databases; about the diagnosis   *)
(* by replay (ToolRuntime), from which their causes come; and about the    *)
(* ledger of the seed (ScientificSeed), which runs the same tools.         *)
(***************************************************************************)
EXTENDS CampaignGovernance, CampaignLemmas, SequenceTheorems

(* The worker's record is the current one, so far as the revision tells.   *)
HoldsRevision(a, c) ==
  view[a] # NoView /\ view[a].id = c /\ view[a].row.rev = camp[c].rev

(* A call of a worker that writes, and one that only reads.                *)
Writes(a, c) ==
  \E t \in Clocks(a) : Transaction(c, t) /\ (Exists(c) => HoldsRevision(a, c))
Works(a, c) ==
  /\ Writes(a, c) \/ (Exists(c) /\ UNCHANGED campaignVars)
  /\ Returns(a, c)

(* What the workers hold, and what the audit log tells.                    *)
ViewInv ==
  \A a \in Actor : view[a] # NoView =>
    /\ Exists(view[a].id)
    /\ view[a].row.rev <= camp[view[a].id].rev
    /\ view[a].row.rev = camp[view[a].id].rev => view[a].row = camp[view[a].id]
AuditInv ==
  \A c \in CampaignId :
    /\ audit[c].state = camp[c].state
    /\ audit[c].writes = IF Exists(c) THEN camp[c].rev + 1 ELSE 0
RevisionInv == ViewInv /\ AuditInv

(* Time: nobody's clock is ahead, and a worker reads its clock after the    *)
(* time written in the record it holds.                                     *)
ClockInv ==
  /\ \A a \in Actor : since[a] <= now
  /\ \A a \in Actor : view[a] # NoView => view[a].row.upd <= since[a]
  /\ \A c \in CampaignId : Exists(c) => camp[c].upd <= now

(* Deadlines: only closed campaigns have one, later than their last update; *)
(* an open campaign, or a later closed one of the target, starts after it.  *)
DeadlineInv ==
  \A c \in CampaignId : Exists(c) =>
    /\ camp[c].cool # 0 => camp[c].state \in ClosedStates /\ camp[c].upd < camp[c].cool
    /\ \A d \in CampaignId :
         /\ Exists(d) /\ d # c /\ camp[d].target = camp[c].target /\ camp[d].cool # 0
         /\ camp[c].state \in OpenStates \/ camp[c].cool # 0
         => \/ camp[d].cool <= camp[c].upd
            \/ camp[c].cool # 0 /\ camp[c].cool <= camp[d].upd

-----------------------------------------------------------------------------
(* A step of a worker is one transaction of a record it holds, a read, or a *)
(* crash; it gets the record back.                                          *)
LEMMA GovernanceUsesTransactions ==
  ASSUME TypeOK, GovernanceAssumption, Next
  PROVE  \/ \E a \in Actor, c \in CampaignId : Works(a, c)
         \/ (UNCHANGED campaignVars /\ ((\E a \in Actor : Crash(a)) \/ Tick))
<1>1. ASSUME NEW a \in Actor, NEW c \in CampaignId, NEW g \in Target,
             NEW f \in Fingerprint, NEW risk \in Risks, NEW initial \in Beginnings,
             Reserve(a, c, g, f, risk, initial)
      PROVE  Works(a, c)
  <2>1. initial \in InitialStates /\ RequiredApprovals(risk) \in Nat \ {0}
    BY DEF GovernanceAssumption, RequiredApprovals
  <2>2. CASE ReuseCampaign(c, g, f)
    <3>1. Exists(c)
      BY <2>2 DEF ReuseCampaign, OpenOn, Exists, OpenStates
    <3> QED BY <1>1, <2>2, <3>1 DEF Reserve, ReuseCampaign, Works
  <2>3. CASE \E t \in Clocks(a) : InsertCampaign(c, g, f, a, RequiredApprovals(risk), initial, t)
    <3>1. PICK t \in Clocks(a) : InsertCampaign(c, g, f, a, RequiredApprovals(risk), initial, t)
      BY <2>3
    <3>2. ~Exists(c)
      BY <3>1 DEF InsertCampaign
    <3>3. Transaction(c, t)
      BY <2>1, <3>1 DEF Transaction
    <3> QED BY <1>1, <3>2, <3>3 DEF Reserve, Works, Writes
  <2> QED BY <1>1, <2>2, <2>3 DEF Reserve
<1>2. ASSUME NEW a \in Actor, NEW cand \in Candidate, Attach(a, cand)
      PROVE  \E c \in CampaignId : Works(a, c)
  <2>1. view[a] # NoView /\ view[a].id \in CampaignId
    BY <1>2 DEF Attach, TypeOK, View
  <2>2. PICK t \in Clocks(a) : AttachCandidate(view[a].id, cand, view[a].row.rev, t)
    BY <1>2 DEF Attach
  <2>3. Transaction(view[a].id, t) /\ HoldsRevision(a, view[a].id)
    BY <2>1, <2>2 DEF AttachCandidate, Transaction, HoldsRevision
  <2> QED BY <1>2, <2>1, <2>3 DEF Attach, Works, Writes
<1>3. ASSUME NEW a \in Actor, NEW to \in CallerStates, NEW t \in Clocks(a), NEW cool \in Nat,
             view[a] # NoView, Transition(view[a].id, to, view[a].row.rev, cool, t),
             Returns(a, view[a].id)
      PROVE  \E c \in CampaignId : Works(a, c)
  <2>1. view[a].id \in CampaignId
    BY <1>3 DEF TypeOK, View
  <2>2. Transaction(view[a].id, t) /\ HoldsRevision(a, view[a].id)
    BY <1>3 DEF Transition, Transaction, HoldsRevision
  <2> QED BY <1>3, <2>1, <2>2 DEF Works, Writes
<1>4. ASSUME NEW a \in Actor, StartEvaluation(a)
      PROVE  \E c \in CampaignId : Works(a, c)
  BY <1>3, <1>4 DEF StartEvaluation, CallerStates
<1>5. ASSUME NEW a \in Actor, NEW passed \in BOOLEAN, FinishEvaluation(a, passed)
      PROVE  \E c \in CampaignId : Works(a, c)
  <2>1. (IF passed THEN "approval_pending" ELSE "rejected") \in CallerStates
    BY DEF CallerStates, ClosedStates
  <2>2. Cooldowns \subseteq Nat
    BY DEF GovernanceAssumption
  <2> QED BY <1>3, <1>5, <2>1, <2>2 DEF FinishEvaluation
<1>6. ASSUME NEW a \in Actor, NEW decision \in Decisions, Decide(a, decision)
      PROVE  \E c \in CampaignId : Works(a, c)
  <2>1. view[a] # NoView /\ view[a].id \in CampaignId
    BY <1>6 DEF Decide, TypeOK, View
  <2>2. PICK t \in Clocks(a), cool \in Cooldowns :
          RecordApproval(view[a].id, a, decision, view[a].row.rev, cool, t)
    BY <1>6 DEF Decide
  <2>3. cool \in Nat
    BY DEF GovernanceAssumption
  <2>4. Transaction(view[a].id, t) /\ HoldsRevision(a, view[a].id)
    BY <2>1, <2>2, <2>3 DEF RecordApproval, Transaction, HoldsRevision
  <2> QED BY <1>6, <2>1, <2>4 DEF Decide, Works, Writes
<1>7. ASSUME NEW a \in Actor, NEW to \in DirectTargets, DirectTransition(a, to)
      PROVE  \E c \in CampaignId : Works(a, c)
  <2>1. to \in CallerStates /\ Cooldowns \subseteq Nat
    BY DEF GovernanceAssumption, CallerStates
  <2> QED BY <1>3, <1>7, <2>1 DEF DirectTransition
<1>8. ASSUME NEW a \in Actor, NEW c \in CampaignId, Read(a, c)
      PROVE  Works(a, c)
  BY <1>8 DEF Read, Works
<1>9. Tick \/ (\E a \in Actor : Crash(a)) => UNCHANGED campaignVars
  BY DEF Tick, Crash
<1>10. ASSUME NEW a \in Actor, WorkerStep(a)
       PROVE  (\E c \in CampaignId : Works(a, c)) \/ Crash(a)
  <2>1. CASE \E c \in CampaignId : Read(a, c)
    BY <2>1, <1>8
  <2>2. CASE \E c \in CampaignId, g \in Target, f \in Fingerprint, risk \in Risks,
                initial \in Beginnings : Reserve(a, c, g, f, risk, initial)
    BY <2>2, <1>1
  <2>3. CASE \E cand \in Candidate : Attach(a, cand)
    BY <2>3, <1>2
  <2>4. CASE \E passed \in BOOLEAN : FinishEvaluation(a, passed)
    BY <2>4, <1>5
  <2>5. CASE \E decision \in Decisions : Decide(a, decision)
    BY <2>5, <1>6
  <2>6. CASE \E to \in DirectTargets : DirectTransition(a, to)
    BY <2>6, <1>7
  <2>7. CASE StartEvaluation(a)
    BY <2>7, <1>4
  <2> QED BY <1>10, <2>1, <2>2, <2>3, <2>4, <2>5, <2>6, <2>7 DEF WorkerStep
<1>11. (\E a \in Actor : \E c \in CampaignId : Works(a, c))
         \/ (\E a \in Actor : Crash(a)) \/ Tick
  BY <1>10 DEF Next
<1> QED BY <1>9, <1>11

-----------------------------------------------------------------------------
(* Types *)

(* The tables and what the workers remember of them are well typed.        *)
THEOREM TypeCorrect == Spec => []TypeOK
<1>1. Init => TypeOK
  BY DEF Init, CampaignsInit, TypeOK, CampaignsTypeOK
<1>2. TypeOK /\ [Next]_vars => TypeOK'
  <2> SUFFICES ASSUME TypeOK, [Next]_vars
               PROVE  TypeOK'
    OBVIOUS
  <2>1. ASSUME NEW a \in Actor, NEW c \in CampaignId, Works(a, c)
        PROVE  TypeOK'
    <3>1. \A t \in Clocks(a) : t \in Nat
      BY DEF Clocks, TypeOK
    <3>2. CampaignsTypeOK' /\ camp'[c] \in RowBy(Actor)
      BY <2>1, <3>1, CampaignsAssumption, TransactionType, TransactionKeepsRow, RowFacts
         DEF TypeOK, CampaignsTypeOK, campaignVars, Works, Writes
    <3> QED BY <2>1, <3>2 DEF Works, Returns, TypeOK, View
  <2>2. ASSUME UNCHANGED campaignVars, (\E a \in Actor : Crash(a)) \/ Tick
        PROVE  TypeOK'
    <3>1. CampaignsTypeOK'
      BY <2>2 DEF TypeOK, CampaignsTypeOK, campaignVars
    <3>2. CASE Tick
      BY <3>1, <3>2 DEF Tick, TypeOK
    <3>3. CASE \E a \in Actor : Crash(a)
      BY <3>1, <3>3 DEF Crash, TypeOK
    <3> QED BY <2>2, <3>2, <3>3
  <2>3. CASE UNCHANGED vars
    BY <2>3 DEF vars, campaignVars, workerVars, TypeOK, CampaignsTypeOK
  <2> QED BY <2>1, <2>2, <2>3, GovernanceAssumption, GovernanceUsesTransactions
<1> QED BY <1>1, <1>2, PTL DEF Spec

(* What an invariant of the database alone needs of the service.           *)
LEMMA DatabaseStep ==
  ASSUME TypeOK, [Next]_vars
  PROVE  \/ UNCHANGED campaignVars
         \/ \E c \in CampaignId, t \in Nat : Transaction(c, t)
<1>1. \A a \in Actor : Clocks(a) \subseteq Nat
  BY DEF Clocks, TypeOK
<1>2. CASE Next
  BY <1>1, <1>2, GovernanceAssumption, GovernanceUsesTransactions DEF Works, Writes
<1> QED BY <1>2 DEF vars

-----------------------------------------------------------------------------
(* Approvals *)

LEMMA ApprovalInvariant == Spec => []ApprovalInv
<1>1. Init => ApprovalInv
  BY DEF Init, CampaignsInit, ApprovalInv, ApprovalInvAt, Exists, NoRow, WithCandidate
<1>2. TypeOK /\ ApprovalInv /\ [Next]_vars => ApprovalInv'
  <2> SUFFICES ASSUME TypeOK, ApprovalInv, [Next]_vars
               PROVE  ApprovalInv'
    OBVIOUS
  <2>1. CASE UNCHANGED campaignVars
    BY <2>1 DEF campaignVars, ApprovalInv, ApprovalInvAt, Exists, Approvers
  <2>2. ASSUME NEW c \in CampaignId, NEW t \in Nat, Transaction(c, t)
        PROVE  ApprovalInv'
    BY <2>2, CampaignsAssumption, TransactionApproval DEF TypeOK
  <2> QED BY <2>1, <2>2, DatabaseStep
<1> QED BY <1>1, <1>2, TypeCorrect, PTL DEF Spec

(* What is authorized has been approved by enough others than its           *)
(* generator, and is a candidate (docs/09, approval policy).                *)
THEOREM ApprovalIsSound == Spec => []AuthorizedMeansApproved
<1>1. TypeOK /\ ApprovalInv => AuthorizedMeansApproved
  <2> SUFFICES ASSUME TypeOK, ApprovalInv, NEW c \in CampaignId,
                      camp[c].state \in {"authorized", "completed"}
               PROVE  /\ Cardinality(Approvers(c)) >= camp[c].need
                      /\ camp[c].gen \notin Approvers(c)
                      /\ \A a \in Actor : approvals[c][a] # "reject"
                      /\ camp[c].cand # NoCandidate
    BY DEF AuthorizedMeansApproved
  <2>1. ApprovalInvAt(c)
    BY DEF ApprovalInv
  <2> QED BY <2>1 DEF ApprovalInvAt, Approvers, Exists, WithCandidate
<1> QED BY <1>1, ApprovalInvariant, TypeCorrect, PTL

(* No decision is lost or comes late: the threshold authorizes with the     *)
(* approval that reaches it, and one rejection rejects.                     *)
THEOREM DecisionsTakeEffect == Spec => []DecisionsAreEffective
<1>1. ApprovalInv => DecisionsAreEffective
  BY DEF ApprovalInv, ApprovalInvAt, DecisionsAreEffective
<1> QED BY <1>1, ApprovalInvariant, PTL

-----------------------------------------------------------------------------
(* One open campaign *)

(* However reservations interleave, a target has at most one open campaign. *)
THEOREM OneOpenCampaign == Spec => []OneOpenCampaignPerTarget
<1>1. Init => OneOpenCampaignPerTarget
  BY DEF Init, CampaignsInit, OneOpenCampaignPerTarget, NoRow, OpenStates
<1>2. TypeOK /\ OneOpenCampaignPerTarget /\ [Next]_vars => OneOpenCampaignPerTarget'
  <2> SUFFICES ASSUME TypeOK, OneOpenCampaignPerTarget, [Next]_vars
               PROVE  OneOpenCampaignPerTarget'
    OBVIOUS
  <2>1. CASE UNCHANGED campaignVars
    BY <2>1 DEF campaignVars, OneOpenCampaignPerTarget
  <2>2. ASSUME NEW c \in CampaignId, NEW t \in Nat, Transaction(c, t)
        PROVE  OneOpenCampaignPerTarget'
    <3>1. /\ \A d \in CampaignId \ {c} : camp'[d] = camp[d]
          /\ Inserted(c, t) \/ Rewritten(c, t)
      BY <2>2, TransactionEffect DEF TypeOK
    <3>2. CASE Inserted(c, t)
      BY <3>1, <3>2 DEF Inserted, OpenOn, OneOpenCampaignPerTarget
    <3>3. CASE Rewritten(c, t)
      BY <3>1, <3>3 DEF Rewritten, OneOpenCampaignPerTarget
    <3> QED BY <3>1, <3>2, <3>3
  <2> QED BY <2>1, <2>2, DatabaseStep
<1> QED BY <1>1, <1>2, TypeCorrect, PTL DEF Spec

-----------------------------------------------------------------------------
(* Revisions *)

(* A transaction leaves the records the other workers hold older than the   *)
(* row, or as they were; the one it returns is the row.                     *)
LEMMA RevisionStep ==
  ASSUME TypeOK, TypeOK', RevisionInv, NEW a \in Actor, NEW c \in CampaignId, Works(a, c)
  PROVE  RevisionInv'
<1>1. CASE UNCHANGED campaignVars /\ Exists(c)
  <2>1. AuditInv'
    BY <1>1 DEF RevisionInv, AuditInv, campaignVars, Exists
  <2>2. ViewInv'
    <3>1. camp[c] \in RowBy(Actor)
      BY <1>1, RowFacts DEF TypeOK
    <3> QED BY <1>1, <3>1 DEF Works, Returns, RevisionInv, ViewInv, campaignVars, Exists,
                              TypeOK, RowBy
  <2> QED BY <2>1, <2>2 DEF RevisionInv
<1>2. CASE Writes(a, c)
  <2>1. PICK t \in Nat : Transaction(c, t)
    BY <1>2 DEF Writes, Clocks, TypeOK
  <2>2. /\ Inserted(c, t) \/ Rewritten(c, t)
        /\ audit'[c] = [writes |-> audit[c].writes + 1, state |-> camp'[c].state]
        /\ \A d \in CampaignId \ {c} : camp'[d] = camp[d] /\ audit'[d] = audit[d]
    BY <2>1, TransactionEffect DEF TypeOK
  <2>3. Exists(c)' /\ camp'[c] \in RowBy(Actor)
    BY <2>1, TransactionKeepsRow DEF TypeOK
  <2>4. /\ camp'[c].rev = IF Exists(c) THEN camp[c].rev + 1 ELSE 0
        /\ Exists(c) => camp[c].rev \in Nat
    BY <2>2, RowFacts DEF Inserted, Rewritten, Exists, RowBy, States, OpenStates, TypeOK
  <2>5. AuditInv'
    <3> SUFFICES ASSUME NEW d \in CampaignId
                 PROVE  /\ audit'[d].state = camp'[d].state
                        /\ audit'[d].writes = IF Exists(d)' THEN camp'[d].rev + 1 ELSE 0
      BY DEF AuditInv
    <3>1. CASE d = c
      BY <2>2, <2>3, <2>4, <3>1 DEF RevisionInv, AuditInv
    <3>2. CASE d # c
      BY <2>2, <3>2 DEF RevisionInv, AuditInv, Exists
    <3> QED BY <3>1, <3>2
  <2>6. ViewInv'
    <3> SUFFICES ASSUME NEW b \in Actor, view'[b] # NoView
                 PROVE  /\ camp'[view'[b].id].state # "absent"
                        /\ view'[b].row.rev <= camp'[view'[b].id].rev
                        /\ view'[b].row.rev = camp'[view'[b].id].rev =>
                             view'[b].row = camp'[view'[b].id]
      BY DEF ViewInv, Exists
    <3>1. CASE b = a
      <4>1. view'[b] = [id |-> c, row |-> camp'[c]]
        BY <3>1 DEF Works, Returns, TypeOK
      <4>2. camp'[c].rev \in Nat
        BY <2>3 DEF RowBy
      <4> QED BY <4>1, <4>2, <2>3 DEF Exists
    <3>2. CASE b # a
      <4>1. view'[b] = view[b] /\ view[b] \in View
        BY <3>2 DEF Works, Returns, TypeOK
      <4>2. /\ Exists(view[b].id) /\ view[b].row.rev <= camp[view[b].id].rev
            /\ view[b].row.rev = camp[view[b].id].rev => view[b].row = camp[view[b].id]
        BY <4>1 DEF RevisionInv, ViewInv
      <4>3. view[b].id \in CampaignId /\ view[b].row.rev \in Nat
        BY <4>1 DEF View, RowBy
      <4>4. CASE view[b].id = c
        BY <4>1, <4>2, <4>3, <4>4, <2>3, <2>4 DEF Exists
      <4>5. CASE view[b].id # c
        BY <4>1, <4>2, <4>3, <4>5, <2>2 DEF Exists
      <4> QED BY <4>4, <4>5
    <3> QED BY <3>1, <3>2
  <2> QED BY <2>5, <2>6 DEF RevisionInv
<1> QED BY <1>1, <1>2 DEF Works

LEMMA RevisionInvariant == Spec => []RevisionInv
<1>1. Init => RevisionInv
  BY DEF Init, CampaignsInit, RevisionInv, ViewInv, AuditInv, Exists, NoRow
<1>2. TypeOK /\ TypeOK' /\ RevisionInv /\ [Next]_vars => RevisionInv'
  <2> SUFFICES ASSUME TypeOK, TypeOK', RevisionInv, [Next]_vars
               PROVE  RevisionInv'
    OBVIOUS
  <2>1. ASSUME NEW a \in Actor, Crash(a)
        PROVE  RevisionInv'
    BY <2>1 DEF Crash, RevisionInv, ViewInv, AuditInv, campaignVars, TypeOK, Exists
  <2>2. ASSUME UNCHANGED <<campaignVars, view>>
        PROVE  RevisionInv'
    BY <2>2 DEF RevisionInv, ViewInv, AuditInv, campaignVars, Exists
  <2>3. CASE Tick
    BY <2>2, <2>3 DEF Tick
  <2>4. CASE UNCHANGED vars
    BY <2>2, <2>4 DEF vars, workerVars
  <2> QED BY <2>1, <2>3, <2>4, RevisionStep, GovernanceAssumption, GovernanceUsesTransactions
<1> QED BY <1>1, <1>2, TypeCorrect, PTL DEF Spec

(* Comparing revisions compares rows: the optimistic locking of every       *)
(* transaction is sound, and the audit log tells the state and every        *)
(* revision of each campaign.                                               *)
THEOREM RevisionsIdentifyRows == Spec => []RevisionIdentifiesRow
<1>1. RevisionInv => RevisionIdentifiesRow
  BY DEF RevisionInv, ViewInv, AuditInv, RevisionIdentifiesRow
<1> QED BY <1>1, RevisionInvariant, PTL

-----------------------------------------------------------------------------
(* Cooldowns *)

(* Who writes to an existing campaign read its clock after the last write.  *)
LEMMA ClocksFollow ==
  ASSUME TypeOK, RevisionInv, ClockInv, NEW a \in Actor, NEW c \in CampaignId,
         NEW t \in Clocks(a), Exists(c), HoldsRevision(a, c)
  PROVE  camp[c].upd <= t
<1>1. view[a] # NoView /\ view[a].row = camp[c]
  BY DEF HoldsRevision, RevisionInv, ViewInv
<1>2. camp[c].upd <= since[a] /\ since[a] <= t
  BY <1>1 DEF ClockInv, Clocks, TypeOK
<1>3. camp[c].upd \in Nat /\ since[a] \in Nat /\ t \in Int
  BY RowFacts DEF TypeOK, RowBy, Clocks
<1> QED BY <1>2, <1>3

LEMMA ClockStep ==
  ASSUME TypeOK, TypeOK', ClockInv, NEW a \in Actor, NEW c \in CampaignId, Works(a, c)
  PROVE  ClockInv'
<1>1. /\ view' = [view EXCEPT ![a] = [id |-> c, row |-> camp'[c]]]
      /\ since' = [since EXCEPT ![a] = now] /\ now' = now /\ now \in Nat
  BY DEF Works, Returns, TypeOK
<1>2. /\ camp'[c].upd <= now
      /\ \A d \in CampaignId \ {c} : camp'[d] = camp[d]
  <2>1. CASE UNCHANGED campaignVars /\ Exists(c)
    BY <2>1 DEF ClockInv, campaignVars
  <2>2. ASSUME NEW t \in Clocks(a), Transaction(c, t)
        PROVE  camp'[c].upd <= now /\ \A d \in CampaignId \ {c} : camp'[d] = camp[d]
    <3>1. t \in Nat /\ t <= now
      BY DEF Clocks, TypeOK
    <3> QED BY <2>2, <3>1, TransactionEffect DEF TypeOK
  <2> QED BY <2>1, <2>2 DEF Works, Writes
<1>3. \A b \in Actor : since'[b] <= now'
  BY <1>1 DEF ClockInv, TypeOK
<1>4. \A b \in Actor : view'[b] # NoView => view'[b].row.upd <= since'[b]
  BY <1>1, <1>2 DEF ClockInv, TypeOK
<1>5. \A d \in CampaignId : Exists(d)' => camp'[d].upd <= now'
  BY <1>1, <1>2 DEF ClockInv, Exists
<1> QED BY <1>3, <1>4, <1>5 DEF ClockInv

(* A reservation waits for the deadline of the cooled row updated last, and *)
(* that one is the latest of the target.                                    *)
LEMMA DeadlinesAreOrdered ==
  ASSUME CampaignsTypeOK, DeadlineInv, NEW g \in Target, NEW t \in Nat, CooldownOver(g, t),
         NEW d \in CampaignId, Exists(d), camp[d].target = g, camp[d].cool # 0
  PROVE  camp[d].cool <= t
<1>1. PICK e \in Cooled(g) : (\A x \in Cooled(g) : camp[x].upd <= camp[e].upd) /\ camp[e].cool <= t
  BY DEF CooldownOver, Cooled
<1>2. /\ e \in CampaignId /\ Exists(e) /\ camp[e].target = g /\ camp[e].cool # 0
      /\ camp[d].upd <= camp[e].upd /\ camp[e].cool <= t
  BY <1>1 DEF Cooled
<1>3. {camp[d].upd, camp[d].cool, camp[e].upd, camp[e].cool} \subseteq Nat
  BY <1>2, RowFacts DEF RowBy
<1>4. camp[e].upd < camp[e].cool
  BY <1>2 DEF DeadlineInv
<1>5. d # e => camp[d].cool <= camp[e].upd \/ camp[e].cool <= camp[d].upd
  BY <1>2 DEF DeadlineInv
<1> QED BY <1>2, <1>3, <1>4, <1>5

LEMMA DeadlineStep ==
  ASSUME CampaignsTypeOK, CampaignsTypeOK', OneOpenCampaignPerTarget, DeadlineInv,
         NEW c \in CampaignId, NEW t \in Nat, Transaction(c, t),
         Exists(c) => camp[c].upd <= t
  PROVE  DeadlineInv'
<1>1. /\ Inserted(c, t) \/ Rewritten(c, t)
      /\ camp'[c].upd = t
      /\ \A d \in CampaignId \ {c} : camp'[d] = camp[d]
  BY TransactionEffect
<1>2. camp'[c] \in RowBy(Actor)
  BY TransactionKeepsRow
<1>3. /\ camp'[c].cool # 0 => camp'[c].state \in ClosedStates /\ t < camp'[c].cool
      /\ \A d \in CampaignId \ {c} :
           Exists(d) /\ camp[d].target = camp'[c].target /\ camp[d].cool # 0
             => camp[d].cool <= t
  <2>1. CASE Inserted(c, t)
    BY <1>2, <2>1, DeadlinesAreOrdered DEF Inserted, RowBy
  <2>2. CASE Rewritten(c, t)
    <3>1. /\ Exists(c) /\ camp[c].cool = 0 /\ camp[c].upd <= t /\ camp[c].upd \in Nat
          /\ camp'[c].target = camp[c].target
      BY <2>2 DEF Rewritten, DeadlineInv, Exists, OpenStates, ClosedStates, RowBy
    <3>2. \A d \in CampaignId \ {c} :
            Exists(d) /\ camp[d].target = camp[c].target /\ camp[d].cool # 0
              => camp[d].cool <= camp[c].upd
      BY <2>2, <3>1 DEF Rewritten, DeadlineInv
    <3>3. \A d \in CampaignId : Exists(d) => camp[d].cool \in Nat
      BY RowFacts DEF RowBy
    <3>4. camp'[c].cool # 0 => camp'[c].state \in ClosedStates /\ t < camp'[c].cool
      BY <2>2, <3>1 DEF Rewritten, RowBy
    <3> QED BY <3>1, <3>2, <3>3, <3>4
  <2> QED BY <1>1, <2>1, <2>2
<1>4. \A d \in CampaignId \ {c} :
        /\ Exists(d) /\ camp[d].target = camp'[c].target
        /\ camp[d].state \in OpenStates
        => camp'[c].cool = 0
  <2>1. CASE Inserted(c, t)
    BY <2>1 DEF Inserted
  <2>2. CASE Rewritten(c, t)
    BY <2>2 DEF Rewritten, OneOpenCampaignPerTarget
  <2> QED BY <1>1, <2>1, <2>2
<1> SUFFICES ASSUME NEW x \in CampaignId, Exists(x)'
             PROVE  /\ camp'[x].cool # 0 =>
                         camp'[x].state \in ClosedStates /\ camp'[x].upd < camp'[x].cool
                    /\ \A d \in CampaignId :
                         /\ Exists(d)' /\ d # x /\ camp'[d].target = camp'[x].target
                         /\ camp'[d].cool # 0
                         /\ camp'[x].state \in OpenStates \/ camp'[x].cool # 0
                         => \/ camp'[d].cool <= camp'[x].upd
                            \/ camp'[x].cool # 0 /\ camp'[x].cool <= camp'[d].upd
  BY DEF DeadlineInv
<1>5. CASE x = c
  BY <1>1, <1>3, <1>5 DEF Exists
<1>6. CASE x # c
  <2>1. Exists(x) /\ camp'[x] = camp[x]
    BY <1>1, <1>6 DEF Exists
  <2>2. camp[x].cool # 0 => camp[x].state \in ClosedStates /\ camp[x].upd < camp[x].cool
    BY <2>1 DEF DeadlineInv
  <2>3. ASSUME NEW d \in CampaignId, Exists(d)', d # x, camp'[d].target = camp'[x].target,
               camp'[d].cool # 0, camp'[x].state \in OpenStates \/ camp'[x].cool # 0
        PROVE  \/ camp'[d].cool <= camp'[x].upd
               \/ camp'[x].cool # 0 /\ camp'[x].cool <= camp'[d].upd
    <3>1. CASE d = c
      BY <1>1, <1>3, <1>4, <1>6, <2>1, <2>3, <3>1
    <3>2. CASE d # c
      <4>1. Exists(d) /\ camp'[d] = camp[d]
        BY <1>1, <2>3, <3>2 DEF Exists
      <4> QED BY <2>1, <2>3, <4>1 DEF DeadlineInv
    <3> QED BY <3>1, <3>2
  <2> QED BY <2>1, <2>2, <2>3
<1> QED BY <1>5, <1>6

TimeInv == ClockInv /\ DeadlineInv

LEMMA TimeInvariant == Spec => []TimeInv
<1>1. Init => TimeInv
  BY DEF Init, CampaignsInit, TimeInv, ClockInv, DeadlineInv, Exists, NoRow
<1>2. /\ TypeOK /\ TypeOK' /\ OneOpenCampaignPerTarget /\ RevisionInv
      /\ TimeInv /\ [Next]_vars
      => TimeInv'
  <2> SUFFICES ASSUME TypeOK, TypeOK', OneOpenCampaignPerTarget, RevisionInv,
                      TimeInv, [Next]_vars
               PROVE  TimeInv'
    OBVIOUS
  <2>1. ASSUME UNCHANGED campaignVars
        PROVE  DeadlineInv'
    BY <2>1 DEF TimeInv, DeadlineInv, campaignVars, Exists
  <2>2. ASSUME NEW a \in Actor, NEW c \in CampaignId, Works(a, c)
        PROVE  TimeInv'
    <3>1. ClockInv'
      BY <2>2, ClockStep DEF TimeInv
    <3>2. ASSUME NEW t \in Clocks(a), Transaction(c, t), Exists(c) => HoldsRevision(a, c)
          PROVE  DeadlineInv'
      <4>1. t \in Nat /\ (Exists(c) => camp[c].upd <= t)
        BY <3>2, ClocksFollow DEF TimeInv, Clocks, TypeOK
      <4> QED BY <3>2, <4>1, DeadlineStep DEF TimeInv, TypeOK
    <3> QED BY <2>1, <2>2, <3>1, <3>2 DEF TimeInv, Works, Writes
  <2>3. ASSUME NEW a \in Actor, Crash(a)
        PROVE  TimeInv'
    <3>1. ClockInv'
      BY <2>3 DEF Crash, TimeInv, ClockInv, TypeOK, campaignVars, Exists
    <3> QED BY <2>1, <2>3, <3>1 DEF Crash, TimeInv
  <2>4. CASE Tick
    <3>1. \A n, k \in Nat : n <= k => n <= k + 1
      OBVIOUS
    <3>2. \A c \in CampaignId : Exists(c) => camp[c].upd \in Nat
      BY RowFacts DEF TypeOK, RowBy
    <3>3. ClockInv'
      BY <2>4, <3>1, <3>2 DEF Tick, TimeInv, ClockInv, TypeOK, campaignVars, Exists
    <3> QED BY <2>1, <2>4, <3>3 DEF Tick, TimeInv
  <2>5. CASE UNCHANGED vars
    <3>1. ClockInv'
      BY <2>5 DEF vars, workerVars, TimeInv, ClockInv, campaignVars, Exists
    <3> QED BY <2>1, <2>5, <3>1 DEF vars, TimeInv
  <2> QED BY <2>2, <2>3, <2>4, <2>5, GovernanceAssumption, GovernanceUsesTransactions
<1> QED BY <1>1, <1>2, TypeCorrect, OneOpenCampaign, RevisionInvariant, PTL DEF Spec

(* No campaign starts within a cooldown of its target (docs/09), although   *)
(* the SELECT looks at one row and clocks are read before locks are held.   *)
THEOREM CooldownIsKept == Spec => CooldownIsHonoured
<1> DEFINE Honours ==
      \A c, d \in CampaignId :
        ~Exists(c) /\ Exists(c)' /\ Exists(d) /\ camp[d].target = camp'[c].target
          => camp[d].cool <= camp'[c].upd
<1>1. TypeOK /\ TimeInv' /\ [Next]_vars => [Honours]_vars
  <2> SUFFICES ASSUME TypeOK, DeadlineInv', [Next]_vars, NEW c \in CampaignId,
                      NEW d \in CampaignId, ~Exists(c), Exists(c)', Exists(d),
                      camp[d].target = camp'[c].target
               PROVE  camp[d].cool <= camp'[c].upd
    BY DEF TimeInv
  <2>1. PICK t \in Nat : Transaction(c, t)
    <3>1. ~UNCHANGED campaignVars
      BY DEF campaignVars, Exists
    <3>2. PICK x \in CampaignId, t \in Nat : Transaction(x, t)
      BY <3>1, DatabaseStep
    <3>3. \A e \in CampaignId \ {x} : camp'[e] = camp[e]
      BY <3>2, TransactionEffect DEF TypeOK
    <3> QED BY <3>2, <3>3 DEF Exists
  <2>2. Inserted(c, t) /\ camp'[c].upd = t /\ camp'[d] = camp[d] /\ d # c
    BY <2>1, TransactionEffect DEF TypeOK, Rewritten, Exists, OpenStates
  <2>3. CASE camp[d].cool = 0
    BY <2>2, <2>3
  <2>4. CASE camp[d].cool # 0
    BY <2>2, <2>4 DEF DeadlineInv, Inserted, Exists, InitialStates, OpenStates
  <2> QED BY <2>3, <2>4
<1> QED BY <1>1, TypeCorrect, TimeInvariant, PTL DEF Spec, CooldownIsHonoured

-----------------------------------------------------------------------------
(***************************************************************************)
(* The evolution cycle (EvolutionCycle), for any traces, versions, jobs    *)
(* and campaigns: the registry of skills, the evidence and the campaigns   *)
(* are three databases, and jobs and the lab stop between two writes.      *)
(* Rows are only added or moved on, so what a job has found goes on to     *)
(* hold: a version that is there has a campaign that holds it for good,    *)
(* and who was ever active has one that people approved.                   *)
(***************************************************************************)
CONSTANTS Trace, layer, task, patch, Process, Reviewer, Cycle, MinTraces, MinTasks,
          MaxVersion, MaxMoves
VARIABLES stored, skills, head, evidence, job

Evo == INSTANCE EvolutionCycle

(* The campaigns of the cycle are those of Campaigns.                       *)
LEMMA SameCampaigns ==
  /\ Evo!CampaignsInit <=> CampaignsInit
  /\ \A c : (Evo!Exists(c) <=> Exists(c)) /\ Evo!Approvers(c) = Approvers(c)
  /\ \A S : Evo!Cardinality(S) = Cardinality(S)
BY DEF Evo!CampaignsInit, Evo!NoRow, CampaignsInit, NoRow, Evo!Exists, Exists,
       Evo!Approvers, Approvers, Evo!Cardinality, Evo!IsFiniteSet, Cardinality,
       IsFiniteSet

(* So are their transactions.                                               *)
LEMMA SameTransactions ==
  ASSUME NEW c
  PROVE  /\ \A g, f, gen, need, initial, t :
              Evo!InsertCampaign(c, g, f, gen, need, initial, t)
                <=> InsertCampaign(c, g, f, gen, need, initial, t)
         /\ \A cand, rev, t :
              Evo!AttachCandidate(c, cand, rev, t) <=> AttachCandidate(c, cand, rev, t)
         /\ \A to, rev, cool, t :
              Evo!Transition(c, to, rev, cool, t) <=> Transition(c, to, rev, cool, t)
         /\ \A a, decision, rev, cool, t :
              Evo!RecordApproval(c, a, decision, rev, cool, t)
                <=> RecordApproval(c, a, decision, rev, cool, t)
BY DEF Evo!InsertCampaign, Evo!AttachCandidate, Evo!Transition,
       Evo!RecordApproval, InsertCampaign, AttachCandidate, Transition, RecordApproval,
       Evo!Exists, Evo!OpenOn, Evo!CooldownOver, Evo!Cooled,
       Evo!InitialStates, Evo!OpenStates, Evo!NoRow, Exists, OpenOn,
       CooldownOver, Cooled, InitialStates, OpenStates, Evo!AppendEvent, AppendEvent,
       Evo!WriteState, WriteState, Evo!MayAttach, MayAttach,
       Evo!LegalTransitions, LegalTransitions, Evo!ThresholdMet, ThresholdMet,
       Evo!Approvers, Approvers, Evo!Cardinality, Evo!IsFiniteSet,
       Cardinality, IsFiniteSet

(* What a candidate is made of, and the rows of the registry.               *)
Specs == [parent : Evo!Version, patch : {patch[tr] : tr \in Trace}]
SkillRows ==
  [status : {"candidate", "active", "superseded", "rejected"}, spec : Specs \cup {Evo!NoSpec}]

(* A stored trace of a model, and traces that a ticket may rest on.         *)
Qualifies(tr) ==
  tr \in Trace /\ layer[tr] = "model" /\ \E v \in Evo!Version : <<tr, v>> \in stored
Supports(traces) == (\A tr \in traces : Qualifies(tr)) /\ Evo!Ready(traces)

(* The campaign has the version and its specification as its candidate, for *)
(* good, and as many people as it needs approved.                           *)
Holds(c, v, spec) ==
  Exists(c) /\ camp[c].state \notin InitialStates /\ camp[c].cand = Evo!SkillCandidate(v, spec)
Agreed(c) == Cardinality(Approvers(c)) >= camp[c].need

(* What a campaign has as its candidate fits its target.                    *)
ArtifactInvAt(c) ==
  Exists(c) /\ camp[c].cand # NoCandidate =>
    /\ camp[c].state \notin InitialStates
    /\ \/ \E v \in Evo!Version, spec \in Specs :
            /\ camp[c].cand = Evo!SkillCandidate(v, spec)
            /\ camp[c].target = [kind |-> "skill", version |-> spec.parent]
       \/ \E traces \in SUBSET Trace :
            /\ camp[c].cand = Evo!ModelTicket(traces) /\ camp[c].target = [kind |-> "model"]
            /\ Supports(traces)
       \/ camp[c].cand = Evo!RepairTicket /\ camp[c].target = [kind |-> "tool"]
ArtifactInv == \A c \in CampaignId : ArtifactInvAt(c)

(* One version is active, and all but the first have their campaign.        *)
RegistryTypes ==
  /\ head \in [active : Evo!Version, rev : Nat]
  /\ skills \in [Evo!Version -> SkillRows \cup {Evo!NoSkill}]
RegistryInv ==
  /\ \A v \in Evo!Version : skills[v].status = "active" <=> v = head.active
  /\ skills[0] # Evo!NoSkill /\ skills[0].spec = Evo!NoSpec
  /\ \A v \in Evo!Version \ {0} : skills[v] # Evo!NoSkill =>
       /\ skills[v].spec \in Specs
       /\ \E c \in CampaignId :
            Holds(c, v, skills[v].spec) /\ (v \in Evo!WasActive => Agreed(c))

CompletedInvAt(c) == camp[c].state = "completed" => Evo!Proposed(c) \in Evo!WasActive
CompletedInv == \A c \in CampaignId : CompletedInvAt(c)
EvidenceInv == \A tr \in evidence : Qualifies(tr)

(* What a job has found goes on to hold while others write.                 *)
JobIs(j) ==
  /\ {"pc"} \subseteq DOMAIN j
  /\ j.pc \in {"idle", "active", "evidence", "reserve", "version", "attach", "add",
               "revision", "promote"}
  /\ j.pc \in {"active", "evidence", "reserve", "version", "attach", "add"} =>
       j.tr \in Trace /\ j.on \in Evo!Version
  /\ j.pc = "active" => layer[j.tr] = "skill"
  /\ j.pc = "evidence" => Qualifies(j.tr)
  /\ j.pc \in {"reserve", "version", "attach", "add"} =>
       /\ layer[j.tr] \in {"skill", "model", "tool"}
       /\ layer[j.tr] = "model" => j.show \in SUBSET Trace /\ Supports(j.show)
  /\ j.pc \in {"version", "attach", "add"} =>
       /\ {"pc", "tr", "on", "show", "c", "v"} \subseteq DOMAIN j
       /\ j.c \in CampaignId /\ Exists(j.c) /\ camp[j.c].target = Evo!TargetOf(j.tr, j.on)
  /\ j.pc \in {"version", "add"} => layer[j.tr] = "skill"
  /\ j.pc = "add" => j.v \in Evo!Version /\ Holds(j.c, j.v, Evo!SpecOf(j))
  /\ j.pc \in {"revision", "promote"} =>
       /\ j.c \in CampaignId /\ Agreed(j.c)
       /\ \E v \in Evo!Version, spec \in Specs :
            Holds(j.c, v, spec) /\ skills[v] # Evo!NoSkill /\ skills[v].spec = spec
JobsInv == job = [p \in Process |-> job[p]] /\ \A p \in Process : JobIs(job[p])

(* Everything but the jobs.                                                 *)
Stores ==
  /\ CampaignsTypeOK /\ ApprovalInv
  /\ ArtifactInv /\ RegistryTypes /\ RegistryInv /\ CompletedInv /\ EvidenceInv
CycleInv == Stores /\ JobsInv
-----------------------------------------------------------------------------
(* What goes on to hold *)

CampaignsGoOn ==
  \A d \in CampaignId : Exists(d) =>
    /\ Exists(d)' /\ camp'[d].target = camp[d].target /\ camp'[d].need = camp[d].need
    /\ camp[d].state \notin InitialStates =>
         camp'[d].state \notin InitialStates /\ camp'[d].cand = camp[d].cand
    /\ Approvers(d) \subseteq Approvers(d)'
SkillsGoOn ==
  /\ \A v \in Evo!Version : skills[v] # Evo!NoSkill =>
       skills'[v] # Evo!NoSkill /\ skills'[v].spec = skills[v].spec
  /\ Evo!WasActive \subseteq Evo!WasActive'
TracesGoOn == stored \subseteq stored'

LEMMA StatesGoOn ==
  ASSUME CampaignsTypeOK, NEW c \in CampaignId, Transaction(c, 0),
         Exists(c), camp[c].state \notin InitialStates
  PROVE  camp'[c].state \notin InitialStates
<1>1. CASE \E cand \in Candidate : AttachCandidate(c, cand, camp[c].rev, 0)
  BY <1>1 DEF AttachCandidate, MayAttach, LegalTransitions, InitialStates
<1>2. CASE \E to \in CallerStates, cool \in Nat : Transition(c, to, camp[c].rev, cool, 0)
  <2>1. PICK to \in CallerStates, cool \in Nat : Transition(c, to, camp[c].rev, cool, 0)
    BY <1>2
  <2>2. camp'[c].state = to
    BY <2>1, StatesWritten
  <2> QED BY <2>2 DEF CallerStates, ClosedStates, InitialStates
<1>3. CASE \E a \in Actor, decision \in Decisions, cool \in Nat :
             RecordApproval(c, a, decision, camp[c].rev, cool, 0)
  <2>1. PICK a \in Actor, decision \in Decisions, cool \in Nat :
          RecordApproval(c, a, decision, camp[c].rev, cool, 0)
    BY <1>3
  <2>2. camp'[c].state \in {"rejected", "authorized", "approval_pending"}
    BY <2>1, StatesWritten DEF Decisions
  <2> QED BY <2>2 DEF InitialStates
<1> QED BY <1>1, <1>2, <1>3 DEF Transaction, InsertCampaign

LEMMA TransactionGoesOn ==
  ASSUME CampaignsTypeOK, NEW c \in CampaignId, Transaction(c, 0)
  PROVE  CampaignsGoOn
<1> SUFFICES ASSUME NEW d \in CampaignId, Exists(d)
             PROVE  /\ Exists(d)' /\ camp'[d].target = camp[d].target
                    /\ camp'[d].need = camp[d].need
                    /\ camp[d].state \notin InitialStates =>
                         camp'[d].state \notin InitialStates /\ camp'[d].cand = camp[d].cand
                    /\ Approvers(d) \subseteq Approvers(d)'
  BY DEF CampaignsGoOn
<1>1. CASE d # c
  BY <1>1, OthersUntouched DEF Exists, Approvers
<1>2. CASE d = c
  <2>1. Rewritten(c, 0) /\ Exists(c)'
    BY <1>2, TransactionEffect, TransactionKeepsRow DEF Inserted
  <2>2. Approvers(c) \subseteq Approvers(c)'
    BY TransactionEffect DEF Approvers
  <2> QED BY <1>2, <2>1, <2>2, StatesGoOn DEF Rewritten
<1> QED BY <1>1, <1>2

LEMMA NoCampaignWritten ==
  ASSUME UNCHANGED campaignVars
  PROVE  CampaignsGoOn
BY DEF CampaignsGoOn, campaignVars, Exists, Approvers

LEMMA HoldsGoesOn ==
  ASSUME CampaignsGoOn, NEW c \in CampaignId, NEW v, NEW spec, Holds(c, v, spec)
  PROVE  Holds(c, v, spec)'
BY DEF CampaignsGoOn, Holds

LEMMA AgreedGoesOn ==
  ASSUME CampaignsTypeOK, CampaignsAssumption, CampaignsGoOn,
         NEW c \in CampaignId, Exists(c), Agreed(c)
  PROVE  Agreed(c)'
<1>1. /\ Approvers(c) \subseteq Approvers(c)' /\ IsFiniteSet(Approvers(c)')
      /\ camp'[c].need = camp[c].need
  BY FS_Subset DEF CampaignsGoOn, CampaignsAssumption, Approvers
<1>2. /\ Cardinality(Approvers(c)) <= Cardinality(Approvers(c)')
      /\ Cardinality(Approvers(c)) \in Nat /\ Cardinality(Approvers(c)') \in Nat
  BY <1>1, FS_Subset, FS_CardinalityType
<1>3. camp[c].need \in Nat
  BY RowFacts DEF RowBy
<1> QED BY <1>1, <1>2, <1>3 DEF Agreed

LEMMA SupportsGoesOn ==
  ASSUME TracesGoOn
  PROVE  /\ \A tr : Qualifies(tr) => Qualifies(tr)'
         /\ \A traces : Supports(traces) => Supports(traces)'
<1>1. \A tr : Qualifies(tr) => Qualifies(tr)'
  BY DEF TracesGoOn, Qualifies
<1> QED BY <1>1 DEF Supports, Evo!Ready

LEMMA JobGoesOn ==
  ASSUME CampaignsTypeOK, CampaignsAssumption, CampaignsGoOn, SkillsGoOn, TracesGoOn,
         NEW j, JobIs(j)
  PROVE  JobIs(j)'
<1>1. j.pc = "evidence" => Qualifies(j.tr)'
  BY SupportsGoesOn DEF JobIs
<1>2. /\ j.pc \in {"reserve", "version", "attach", "add"} =>
         (layer[j.tr] = "model" => j.show \in SUBSET Trace /\ Supports(j.show)')
  BY SupportsGoesOn DEF JobIs
<1>3. j.pc \in {"version", "attach", "add"} =>
        j.c \in CampaignId /\ Exists(j.c)' /\ camp'[j.c].target = Evo!TargetOf(j.tr, j.on)
  BY DEF JobIs, CampaignsGoOn
<1>4. j.pc = "add" => j.v \in Evo!Version /\ Holds(j.c, j.v, Evo!SpecOf(j))'
  BY HoldsGoesOn DEF JobIs
<1>5. ASSUME j.pc \in {"revision", "promote"}
      PROVE  /\ j.c \in CampaignId /\ Agreed(j.c)'
             /\ \E v \in Evo!Version, spec \in Specs :
                  Holds(j.c, v, spec)' /\ skills'[v] # Evo!NoSkill /\ skills'[v].spec = spec
  <2>1. PICK v \in Evo!Version, spec \in Specs :
          Holds(j.c, v, spec) /\ skills[v] # Evo!NoSkill /\ skills[v].spec = spec
    BY <1>5 DEF JobIs
  <2>2. j.c \in CampaignId /\ Agreed(j.c)
    BY <1>5 DEF JobIs
  <2>3. Agreed(j.c)' /\ Holds(j.c, v, spec)'
    BY <2>1, <2>2, AgreedGoesOn, HoldsGoesOn DEF Holds
  <2> QED BY <2>1, <2>2, <2>3 DEF SkillsGoOn
<1> QED BY <1>1, <1>2, <1>3, <1>4, <1>5 DEF JobIs

(* A step after which one job, or none, is somewhere else.                  *)
LEMMA JobStep ==
  ASSUME CampaignsTypeOK, CampaignsAssumption, CampaignsGoOn, SkillsGoOn, TracesGoOn, JobsInv,
         NEW p \in Process, NEW new, Evo!Continue(p, new), JobIs(new)'
  PROVE  JobsInv'
<1>1. job' = [q \in Process |-> IF q = p THEN new ELSE job[q]]
  BY DEF JobsInv, Evo!Continue
<1>2. ASSUME NEW q \in Process
      PROVE  JobIs(job[q])'
  <2>1. CASE q = p
    BY <1>1, <2>1
  <2>2. CASE q # p
    <3>1. PICK j : j = job[q]
      OBVIOUS
    <3>2. JobIs(j)'
      BY <3>1, JobGoesOn DEF JobsInv
    <3> QED BY <1>1, <2>2, <3>1, <3>2
  <2> QED BY <2>1, <2>2
<1> QED BY <1>1, <1>2 DEF JobsInv

LEMMA NoJobStep ==
  ASSUME CampaignsTypeOK, CampaignsAssumption, CampaignsGoOn, SkillsGoOn, TracesGoOn, JobsInv,
         UNCHANGED job
  PROVE  JobsInv'
<1>1. ASSUME NEW q \in Process
      PROVE  JobIs(job[q])'
  <2>1. PICK j : j = job[q]
    OBVIOUS
  <2>2. JobIs(j)'
    BY <2>1, JobGoesOn DEF JobsInv
  <2> QED BY <2>1, <2>2
<1> QED BY <1>1 DEF JobsInv
-----------------------------------------------------------------------------
(* Steps of the campaigns *)

LEMMA SkillsStay ==
  ASSUME RegistryTypes, RegistryInv, CompletedInv, CampaignsTypeOK, CampaignsAssumption,
         CampaignsGoOn, UNCHANGED Evo!skillVars
  PROVE  RegistryTypes' /\ RegistryInv' /\ SkillsGoOn
<1>1. skills' = skills /\ head' = head /\ Evo!WasActive' = Evo!WasActive
  BY DEF Evo!skillVars, Evo!WasActive
<1>2. ASSUME NEW v \in Evo!Version \ {0}, skills[v] # Evo!NoSkill
      PROVE  \E c \in CampaignId :
               Holds(c, v, skills[v].spec)' /\ (v \in Evo!WasActive' => Agreed(c)')
  <2>1. PICK c \in CampaignId, spec \in Specs :
          spec = skills[v].spec /\ Holds(c, v, spec) /\ (v \in Evo!WasActive => Agreed(c))
    BY <1>2 DEF RegistryInv
  <2>2. Holds(c, v, spec)' /\ (v \in Evo!WasActive => Agreed(c)')
    BY <2>1, HoldsGoesOn, AgreedGoesOn DEF Holds
  <2> QED BY <1>1, <2>1, <2>2
<1> QED BY <1>1, <1>2 DEF RegistryTypes, RegistryInv, SkillsGoOn

LEMMA ArtifactStays ==
  ASSUME NEW c \in CampaignId, ArtifactInvAt(c), TracesGoOn, camp'[c] = camp[c]
  PROVE  ArtifactInvAt(c)'
BY SupportsGoesOn DEF ArtifactInvAt, Exists

(* Which artifact a campaign has changes only when one is attached.         *)
LEMMA ArtifactIsKept ==
  ASSUME NEW c \in CampaignId, ArtifactInvAt(c), TracesGoOn, Exists(c),
         camp'[c].cand = camp[c].cand, camp'[c].target = camp[c].target,
         camp'[c].state \notin InitialStates
  PROVE  ArtifactInvAt(c)'
BY SupportsGoesOn DEF ArtifactInvAt

AllGoOn == CampaignsGoOn /\ SkillsGoOn /\ TracesGoOn

(* A transaction on campaign c.                                             *)
LEMMA CampaignStep ==
  ASSUME Stores, CampaignsAssumption, NEW c \in CampaignId, Transaction(c, 0),
         UNCHANGED <<stored, Evo!skillVars, evidence>>,
         ArtifactInvAt(c)', CompletedInvAt(c)'
  PROVE  Stores' /\ AllGoOn
<1> USE DEF Stores
<1>1. CampaignsTypeOK' /\ ApprovalInv' /\ CampaignsGoOn /\ TracesGoOn
  BY TransactionType, TransactionApproval, TransactionGoesOn DEF TracesGoOn
<1>2. RegistryTypes' /\ RegistryInv' /\ SkillsGoOn
  BY <1>1, SkillsStay
<1>3. ASSUME NEW d \in CampaignId, d # c
      PROVE  ArtifactInvAt(d)' /\ CompletedInvAt(d)'
  <2>1. camp'[d] = camp[d]
    BY <1>3, OthersUntouched
  <2>2. ArtifactInvAt(d)'
    BY <1>1, <2>1, ArtifactStays DEF ArtifactInv
  <2>3. CompletedInvAt(d)'
    BY <2>1 DEF CompletedInv, CompletedInvAt, Evo!Proposed, Evo!WasActive, Evo!skillVars
  <2> QED BY <2>2, <2>3
<1>4. ArtifactInv' /\ CompletedInv'
  BY <1>3 DEF ArtifactInv, CompletedInv
<1>5. EvidenceInv'
  BY <1>1, SupportsGoesOn DEF EvidenceInv
<1> QED BY <1>1, <1>2, <1>4, <1>5 DEF AllGoOn

(* A step that writes neither to the campaigns nor to the registry.         *)
LEMMA QuietStep ==
  ASSUME Stores, CampaignsAssumption, UNCHANGED <<campaignVars, Evo!skillVars>>, TracesGoOn,
         EvidenceInv'
  PROVE  Stores' /\ AllGoOn
<1> USE DEF Stores
<1>1. CampaignsTypeOK' /\ ApprovalInv' /\ CampaignsGoOn
  BY NoCampaignWritten
     DEF campaignVars, CampaignsTypeOK, ApprovalInv, ApprovalInvAt, Exists, Approvers
<1>2. RegistryTypes' /\ RegistryInv' /\ SkillsGoOn
  BY <1>1, SkillsStay
<1>3. ArtifactInv'
  BY ArtifactStays DEF ArtifactInv, campaignVars
<1>4. CompletedInv'
  BY DEF CompletedInv, CompletedInvAt, Evo!Proposed, Evo!WasActive, Evo!skillVars, campaignVars
<1> QED BY <1>1, <1>2, <1>3, <1>4 DEF AllGoOn

(* A step of the registry that leaves it sound.                             *)
LEMMA SkillStep ==
  ASSUME Stores, CampaignsAssumption, UNCHANGED <<campaignVars, stored, evidence>>,
         RegistryTypes', RegistryInv', SkillsGoOn
  PROVE  Stores' /\ AllGoOn
<1> USE DEF Stores
<1>1. CampaignsTypeOK' /\ ApprovalInv' /\ CampaignsGoOn /\ TracesGoOn
  BY NoCampaignWritten
     DEF campaignVars, CampaignsTypeOK, ApprovalInv, ApprovalInvAt, Exists, Approvers, TracesGoOn
<1>2. ArtifactInv'
  BY <1>1, ArtifactStays DEF ArtifactInv, campaignVars
<1>3. CompletedInv'
  BY DEF CompletedInv, CompletedInvAt, Evo!Proposed, campaignVars, SkillsGoOn
<1>4. EvidenceInv'
  BY <1>1, SupportsGoesOn DEF EvidenceInv
<1> QED BY <1>1, <1>2, <1>3, <1>4 DEF AllGoOn

-----------------------------------------------------------------------------
(* Steps of the registry *)

LEMMA RowTypes ==
  ASSUME RegistryTypes, RegistryInv, NEW v \in Evo!Version
  PROVE  /\ skills[v] = Evo!NoSkill \/ skills[v] \in SkillRows
         /\ v \in Evo!WasActive => skills[v] # Evo!NoSkill
         /\ \A to \in {"candidate", "active", "superseded", "rejected"} :
              skills[v] # Evo!NoSkill =>
                /\ [skills[v] EXCEPT !.status = to] = [status |-> to, spec |-> skills[v].spec]
                /\ [skills[v] EXCEPT !.status = to] \in SkillRows
         /\ Evo!NoSkill \notin SkillRows
BY DEF RegistryTypes, Evo!WasActive, SkillRows, Evo!NoSkill

LEMMA AddStep ==
  ASSUME RegistryTypes, RegistryInv, Evo!CycleAssumption,
         NEW v \in Evo!Version, NEW spec \in Specs, NEW c \in CampaignId, Holds(c, v, spec),
         Evo!AddCandidate(v, spec), UNCHANGED campaignVars
  PROVE  RegistryTypes' /\ RegistryInv' /\ SkillsGoOn
<1>1. /\ skills[v] = Evo!NoSkill /\ v # 0
      /\ skills' = [w \in Evo!Version |-> IF w = v THEN [status |-> "candidate", spec |-> spec]
                                      ELSE skills[w]]
      /\ head' = head
  BY DEF Evo!AddCandidate, RegistryTypes, RegistryInv
<1>2. RegistryTypes'
  BY <1>1 DEF RegistryTypes, SkillRows
<1>3. Evo!WasActive' = Evo!WasActive
  BY <1>1 DEF Evo!WasActive, Evo!NoSkill
<1>4. SkillsGoOn
  BY <1>1, <1>3 DEF SkillsGoOn
<1>5. \A w \in Evo!Version : skills'[w].status = "active" <=> w = head'.active
  BY <1>1 DEF RegistryInv, Evo!NoSkill
<1>6. skills'[0] # Evo!NoSkill /\ skills'[0].spec = Evo!NoSpec
  BY <1>1 DEF RegistryInv, Evo!Version, Evo!CycleAssumption
<1>7. ASSUME NEW w \in Evo!Version \ {0}, skills'[w] # Evo!NoSkill
      PROVE  /\ skills'[w].spec \in Specs
             /\ \E d \in CampaignId :
                  Holds(d, w, skills[w].spec)' /\ (w \in Evo!WasActive' => Agreed(d)')
  <2>0. \A d, x, y : (Holds(d, x, y) <=> Holds(d, x, y)') /\ (Agreed(d) <=> Agreed(d)')
    BY DEF Holds, Agreed, Exists, Approvers, campaignVars
  <2>1. CASE w = v
    <3>1. skills'[w].spec = spec /\ w \notin Evo!WasActive'
      BY <1>1, <1>3, <2>1 DEF Evo!WasActive, Evo!NoSkill
    <3> QED BY <2>0, <2>1, <3>1
  <2>2. CASE w # v
    <3>1. skills'[w] = skills[w] /\ skills[w] # Evo!NoSkill
      BY <1>1, <1>7, <2>2
    <3>2. PICK d \in CampaignId, y \in Specs :
            y = skills[w].spec /\ Holds(d, w, y) /\ (w \in Evo!WasActive => Agreed(d))
      BY <3>1 DEF RegistryInv
    <3>3. Holds(d, w, y)' /\ (w \in Evo!WasActive' => Agreed(d)')
      BY <1>3, <2>0, <3>2
    <3>4. skills[w].spec \in Specs
      BY <3>1 DEF RegistryInv
    <3> QED BY <3>1, <3>2, <3>3, <3>4
  <2> QED BY <2>1, <2>2
<1> QED BY <1>2, <1>4, <1>5, <1>6, <1>7 DEF RegistryInv

LEMMA MoveStep ==
  ASSUME RegistryTypes, RegistryInv, Evo!CycleAssumption, NEW v \in Evo!Version, NEW rev,
         v # head.active, skills[v] # Evo!NoSkill,
         v # 0 => \E c \in CampaignId : Holds(c, v, skills[v].spec) /\ Agreed(c),
         Evo!MoveHead(v, rev), UNCHANGED campaignVars
  PROVE  RegistryTypes' /\ RegistryInv' /\ SkillsGoOn
<1> DEFINE b == head.active
<1>0. b \in Evo!Version /\ skills[b] # Evo!NoSkill /\ b \in Evo!WasActive /\ head.rev \in Nat
  BY DEF RegistryTypes, RegistryInv, Evo!NoSkill, Evo!WasActive
<1>1. /\ skills' = [w \in Evo!Version |->
                     IF w = v THEN [status |-> "active", spec |-> skills[v].spec]
                     ELSE IF w = b THEN [status |-> "superseded", spec |-> skills[b].spec]
                     ELSE skills[w]]
      /\ head' = [active |-> v, rev |-> head.rev + 1]
  <2>1. skills' = [[skills EXCEPT ![b] = [skills[b] EXCEPT !.status = "superseded"]]
                     EXCEPT ![v] = [skills[v] EXCEPT !.status = "active"]]
    BY <1>0 DEF Evo!MoveHead, RegistryTypes
  <2>2. /\ [skills[b] EXCEPT !.status = "superseded"]
             = [status |-> "superseded", spec |-> skills[b].spec]
        /\ [skills[v] EXCEPT !.status = "active"] = [status |-> "active", spec |-> skills[v].spec]
    BY <1>0, RowTypes
  <2> QED BY <1>0, <2>1, <2>2 DEF Evo!MoveHead, RegistryTypes
<1> HIDE DEF b
<1>2. skills[v] \in SkillRows /\ skills[b] \in SkillRows
  BY <1>0, RowTypes
<1>3. RegistryTypes'
  <2>1. head' \in [active : Evo!Version, rev : Nat]
    BY <1>0, <1>1
  <2>2. skills' \in [Evo!Version -> SkillRows \cup {Evo!NoSkill}]
    BY <1>1, <1>2 DEF RegistryTypes, SkillRows
  <2> QED BY <2>1, <2>2 DEF RegistryTypes
<1>4. Evo!WasActive' = Evo!WasActive \cup {v}
  BY <1>0, <1>1 DEF Evo!WasActive
<1>5. /\ \A w \in Evo!Version : skills[w] # Evo!NoSkill =>
           skills'[w] # Evo!NoSkill /\ skills'[w].spec = skills[w].spec
      /\ \A w \in Evo!Version : skills'[w] # Evo!NoSkill => skills[w] # Evo!NoSkill
  <2>1. [status |-> "active", spec |-> skills[v].spec] # Evo!NoSkill
    BY DEF Evo!NoSkill
  <2>2. [status |-> "superseded", spec |-> skills[b].spec] # Evo!NoSkill
    BY DEF Evo!NoSkill
  <2> QED BY <1>0, <1>1, <2>1, <2>2
<1>6. \A w \in Evo!Version : skills'[w].status = "active" <=> w = head'.active
  <2>1. \A w \in Evo!Version \ {b} : skills[w].status # "active"
    BY DEF RegistryInv, b
  <2> QED BY <1>0, <1>1, <2>1
<1>7. skills'[0] # Evo!NoSkill /\ skills'[0].spec = Evo!NoSpec
  BY <1>5 DEF RegistryInv, Evo!Version, Evo!CycleAssumption
<1>8. ASSUME NEW w \in Evo!Version \ {0}, skills'[w] # Evo!NoSkill
      PROVE  /\ skills'[w].spec \in Specs
             /\ \E d \in CampaignId :
                  Holds(d, w, skills[w].spec)' /\ (w \in Evo!WasActive' => Agreed(d)')
  <2>1. \A d, x, y : (Holds(d, x, y) <=> Holds(d, x, y)') /\ (Agreed(d) <=> Agreed(d)')
    BY DEF Holds, Agreed, Exists, Approvers, campaignVars
  <2>2. /\ skills[w] # Evo!NoSkill /\ skills[w].spec \in Specs
        /\ skills'[w].spec = skills[w].spec
    BY <1>5, <1>8 DEF RegistryInv
  <2>3. PICK d \in CampaignId, y \in Specs :
          y = skills[w].spec /\ Holds(d, w, y) /\ (w = v \/ w \in Evo!WasActive => Agreed(d))
    BY <2>2 DEF RegistryInv
  <2>4. Holds(d, w, y)' /\ (w \in Evo!WasActive' => Agreed(d)')
    BY <1>4, <2>1, <2>3
  <2> QED BY <2>2, <2>3, <2>4
<1> QED BY <1>3, <1>4, <1>5, <1>6, <1>7, <1>8 DEF RegistryInv, SkillsGoOn

LEMMA RejectStep ==
  ASSUME RegistryTypes, RegistryInv, Evo!CycleAssumption, NEW v \in Evo!Version,
         Evo!RejectSkill(v), UNCHANGED campaignVars
  PROVE  RegistryTypes' /\ RegistryInv' /\ SkillsGoOn
<1>0. skills[v].status = "candidate" /\ skills[v] # Evo!NoSkill
  BY DEF Evo!RejectSkill, Evo!NoSkill
<1>1. /\ skills' = [w \in Evo!Version |->
                     IF w = v THEN [status |-> "rejected", spec |-> skills[v].spec]
                     ELSE skills[w]]
      /\ head' = head
  <2>1. [skills[v] EXCEPT !.status = "rejected"]
          = [status |-> "rejected", spec |-> skills[v].spec]
    BY <1>0, RowTypes
  <2>2. skills' = [skills EXCEPT ![v] = [skills[v] EXCEPT !.status = "rejected"]]
    BY DEF Evo!RejectSkill, RegistryTypes
  <2> QED BY <2>1, <2>2 DEF Evo!RejectSkill, RegistryTypes
<1>2. skills[v] \in SkillRows
  BY <1>0, RowTypes
<1>3. RegistryTypes'
  BY <1>1, <1>2 DEF RegistryTypes, SkillRows
<1>4. Evo!WasActive' = Evo!WasActive
  BY <1>0, <1>1 DEF Evo!WasActive
<1>5. /\ \A w \in Evo!Version : skills[w] # Evo!NoSkill =>
           skills'[w] # Evo!NoSkill /\ skills'[w].spec = skills[w].spec
      /\ \A w \in Evo!Version : skills'[w] # Evo!NoSkill => skills[w] # Evo!NoSkill
  <2>1. [status |-> "rejected", spec |-> skills[v].spec] # Evo!NoSkill
    BY DEF Evo!NoSkill
  <2> QED BY <1>0, <1>1, <2>1
<1>6. \A w \in Evo!Version : skills'[w].status = "active" <=> w = head'.active
  BY <1>0, <1>1 DEF RegistryInv
<1>7. skills'[0] # Evo!NoSkill /\ skills'[0].spec = Evo!NoSpec
  BY <1>5 DEF RegistryInv, Evo!Version, Evo!CycleAssumption
<1>8. ASSUME NEW w \in Evo!Version \ {0}, skills'[w] # Evo!NoSkill
      PROVE  /\ skills'[w].spec \in Specs
             /\ \E d \in CampaignId :
                  Holds(d, w, skills[w].spec)' /\ (w \in Evo!WasActive' => Agreed(d)')
  <2>1. \A d, x, y : (Holds(d, x, y) <=> Holds(d, x, y)') /\ (Agreed(d) <=> Agreed(d)')
    BY DEF Holds, Agreed, Exists, Approvers, campaignVars
  <2>2. /\ skills[w] # Evo!NoSkill /\ skills[w].spec \in Specs
        /\ skills'[w].spec = skills[w].spec
    BY <1>5, <1>8 DEF RegistryInv
  <2>3. PICK d \in CampaignId, y \in Specs :
          y = skills[w].spec /\ Holds(d, w, y) /\ (w \in Evo!WasActive => Agreed(d))
    BY <2>2 DEF RegistryInv
  <2>4. Holds(d, w, y)' /\ (w \in Evo!WasActive' => Agreed(d)')
    BY <1>4, <2>1, <2>3
  <2> QED BY <2>2, <2>3, <2>4
<1> QED BY <1>3, <1>4, <1>5, <1>6, <1>7, <1>8 DEF RegistryInv, SkillsGoOn
-----------------------------------------------------------------------------
(* The jobs of the cycle *)

CycleFacts == CampaignsAssumption /\ Evo!CycleAssumption

(* The step leaves the stores sound and moves job p to new.                 *)
LEMMA OneJobStep ==
  ASSUME CycleInv, CycleFacts, Stores', AllGoOn,
         NEW p \in Process, NEW new, Evo!Continue(p, new), JobIs(new)'
  PROVE  CycleInv'
BY JobStep DEF CycleInv, Stores, CycleFacts, AllGoOn

LEMMA NoOneMoves ==
  ASSUME CycleInv, CycleFacts, Stores', AllGoOn, UNCHANGED job
  PROVE  CycleInv'
BY NoJobStep DEF CycleInv, Stores, CycleFacts, AllGoOn

LEMMA IdleJob == JobIs(Evo!Idle)'
BY DEF JobIs, Evo!Idle

LEMMA LeaveStep ==
  ASSUME CycleInv, CycleFacts, Stores', AllGoOn, NEW p \in Process, Evo!Leave(p)
  PROVE  CycleInv'
BY OneJobStep, IdleJob DEF Evo!Leave

LEMMA ObserveStep ==
  ASSUME CycleInv, CycleFacts, NEW p \in Process, NEW tr \in Trace, NEW v \in Evo!Version,
         Evo!Observe(p, tr, v)
  PROVE  CycleInv'
<1>1. /\ UNCHANGED <<campaignVars, Evo!skillVars>> /\ evidence' = evidence /\ TracesGoOn
      /\ <<tr, v>> \in stored'
  BY DEF Evo!Observe, TracesGoOn, Evo!campaignVars, campaignVars
<1>2. EvidenceInv'
  BY <1>1, SupportsGoesOn DEF CycleInv, Stores, EvidenceInv
<1>3. Stores' /\ AllGoOn
  BY <1>1, <1>2, QuietStep DEF CycleInv, CycleFacts
<1>4. CASE layer[tr] = "skill"
  <2> DEFINE new == [pc |-> "active", tr |-> tr, on |-> v]
  <2>1. Evo!Continue(p, new)
    BY <1>4 DEF Evo!Observe
  <2>2. JobIs(new)'
    BY <1>4 DEF JobIs
  <2> HIDE DEF new
  <2> QED BY <1>3, <2>1, <2>2, OneJobStep
<1>5. CASE layer[tr] = "model"
  <2> DEFINE new == [pc |-> "evidence", tr |-> tr, on |-> v]
  <2>1. Evo!Continue(p, new)
    BY <1>5 DEF Evo!Observe
  <2>2. JobIs(new)'
    BY <1>1, <1>5 DEF JobIs, Qualifies
  <2> HIDE DEF new
  <2> QED BY <1>3, <2>1, <2>2, OneJobStep
<1>6. CASE layer[tr] = "tool"
  <2> DEFINE new == [pc |-> "reserve", tr |-> tr, on |-> v, show |-> {}]
  <2>1. Evo!Continue(p, new)
    BY <1>6 DEF Evo!Observe
  <2>2. JobIs(new)'
    BY <1>6 DEF JobIs
  <2> HIDE DEF new
  <2> QED BY <1>3, <2>1, <2>2, OneJobStep
<1>7. CASE layer[tr] \notin {"skill", "model", "tool"}
  <2>1. Evo!Leave(p)
    BY <1>7 DEF Evo!Observe, Evo!Leave
  <2> QED BY <1>3, <2>1, LeaveStep
<1> QED BY <1>4, <1>5, <1>6, <1>7

LEMMA ReadActiveStep ==
  ASSUME CycleInv, CycleFacts, NEW p \in Process, Evo!ReadActive(p)
  PROVE  CycleInv'
<1>1. Stores' /\ AllGoOn
  <2>1. UNCHANGED <<campaignVars, Evo!skillVars>> /\ TracesGoOn
    BY DEF Evo!ReadActive, TracesGoOn, Evo!campaignVars, campaignVars
  <2>2. EvidenceInv'
    BY <2>1, SupportsGoesOn DEF Evo!ReadActive, CycleInv, Stores, EvidenceInv
  <2> QED BY <2>1, <2>2, QuietStep DEF CycleInv, CycleFacts
<1>2. CASE Evo!Leave(p)
  BY <1>1, <1>2, LeaveStep
<1>3. CASE ~Evo!Leave(p)
  <2>1. PICK j : j = job[p] /\ JobIs(j) /\ j.pc = "active"
    BY DEF Evo!ReadActive, Evo!At, CycleInv, JobsInv
  <2> DEFINE new == [pc |-> "reserve", tr |-> j.tr, on |-> j.on, show |-> {}]
  <2>2. Evo!Continue(p, new)
    BY <1>3, <2>1 DEF Evo!ReadActive
  <2>3. JobIs(new)'
    BY <2>1 DEF JobIs
  <2> HIDE DEF new
  <2> QED BY <1>1, <2>2, <2>3, OneJobStep
<1> QED BY <1>2, <1>3

LEMMA AddModelEvidenceStep ==
  ASSUME CycleInv, CycleFacts, NEW p \in Process, Evo!AddModelEvidence(p)
  PROVE  CycleInv'
<1>1. PICK j : j = job[p] /\ JobIs(j) /\ j.pc = "evidence"
  BY DEF Evo!AddModelEvidence, Evo!At, CycleInv, JobsInv
<1>2. /\ UNCHANGED <<campaignVars, Evo!skillVars>> /\ TracesGoOn
      /\ evidence' = evidence \cup {j.tr} /\ Qualifies(j.tr)
  BY <1>1 DEF Evo!AddModelEvidence, TracesGoOn, JobIs, Evo!campaignVars, campaignVars
<1>3. EvidenceInv'
  BY <1>2, SupportsGoesOn DEF CycleInv, Stores, EvidenceInv
<1>4. Stores' /\ AllGoOn
  BY <1>2, <1>3, QuietStep DEF CycleInv, CycleFacts
<1>5. CASE Evo!Leave(p)
  BY <1>4, <1>5, LeaveStep
<1>6. CASE ~Evo!Leave(p)
  <2>1. PICK show : show = evidence'
    OBVIOUS
  <2> DEFINE new == [pc |-> "reserve", tr |-> j.tr, on |-> j.on, show |-> show]
  <2>2. Evo!Continue(p, new) /\ Evo!Ready(show)
    BY <1>1, <1>6, <2>1 DEF Evo!AddModelEvidence
  <2>3. show \in SUBSET Trace /\ Supports(show)'
    BY <1>3, <2>1, <2>2 DEF EvidenceInv, Supports, Evo!Ready, Qualifies
  <2>4. JobIs(new)'
    BY <1>1, <2>3 DEF JobIs, Qualifies
  <2> HIDE DEF new
  <2> QED BY <1>4, <2>2, <2>4, OneJobStep
<1> QED BY <1>5, <1>6

LEMMA ReserveStep ==
  ASSUME CycleInv, CycleFacts, NEW p \in Process, Evo!Reserve(p)
  PROVE  CycleInv'
<1>1. PICK j : j = job[p] /\ JobIs(j) /\ j.pc = "reserve"
  BY DEF Evo!Reserve, Evo!At, CycleInv, JobsInv
<1>2. CASE Evo!Leave(p) /\ UNCHANGED campaignVars
  <2>1. UNCHANGED <<campaignVars, Evo!skillVars>> /\ TracesGoOn /\ EvidenceInv'
    BY <1>2 DEF Evo!Reserve, TracesGoOn, CycleInv, Stores, EvidenceInv, Qualifies
  <2> QED BY <1>2, <2>1, QuietStep, LeaveStep DEF CycleInv, CycleFacts
<1>3. ASSUME NEW c \in CampaignId,
             InsertCampaign(c, Evo!TargetOf(j.tr, j.on), Evo!FingerprintOf(j.tr), Cycle,
                            Evo!RequiredApprovals(j.tr), "open", 0),
             Evo!Continue(p, [pc |-> IF layer[j.tr] = "skill" THEN "version" ELSE "attach",
                          tr |-> j.tr, on |-> j.on, show |-> j.show, c |-> c, v |-> 0])
      PROVE  CycleInv'
  <2> DEFINE g == Evo!TargetOf(j.tr, j.on)
             row == [state |-> "open", target |-> g, fp |-> Evo!FingerprintOf(j.tr),
                     gen |-> Cycle, need |-> Evo!RequiredApprovals(j.tr),
                     cand |-> NoCandidate, upd |-> 0, cool |-> 0, rev |-> 0]
             new == [pc |-> IF layer[j.tr] = "skill" THEN "version" ELSE "attach",
                     tr |-> j.tr, on |-> j.on, show |-> j.show, c |-> c, v |-> 0]
  <2>1. /\ g \in Target /\ Evo!FingerprintOf(j.tr) \in Fingerprint /\ Cycle \in Actor
        /\ Evo!RequiredApprovals(j.tr) \in Nat \ {0} /\ "open" \in InitialStates
    <3>1. j.tr \in Trace /\ j.on \in Evo!Version /\ layer[j.tr] \in {"skill", "model", "tool"}
      BY <1>1 DEF JobIs
    <3>2. Cycle \in Actor /\ g \in Target /\ Evo!FingerprintOf(j.tr) \in Fingerprint
      BY <3>1 DEF CycleFacts, Evo!CycleAssumption
    <3>3. Evo!RequiredApprovals(j.tr) \in Nat \ {0} /\ "open" \in InitialStates
      BY DEF Evo!RequiredApprovals, InitialStates
    <3> QED BY <3>2, <3>3
  <2>2. Transaction(c, 0)
    BY <1>3, <2>1 DEF Transaction
  <2>3. camp'[c] = row
    BY <1>3 DEF InsertCampaign, CycleInv, Stores, CampaignsTypeOK
  <2>4. ArtifactInvAt(c)' /\ CompletedInvAt(c)' /\ Exists(c)' /\ camp'[c].target = g
    BY <2>3 DEF ArtifactInvAt, CompletedInvAt, Exists
  <2>5. Stores' /\ AllGoOn
    BY <2>2, <2>4, CampaignStep DEF Evo!Reserve, CycleInv, CycleFacts
  <2>6. JobIs(j)'
    BY <1>1, <2>5, JobGoesOn DEF CycleInv, Stores, CycleFacts, AllGoOn
  <2>7. /\ new.pc \in {"version", "attach"} /\ new.tr = j.tr /\ new.on = j.on
        /\ new.show = j.show /\ new.c = c /\ (new.pc = "version" => layer[j.tr] = "skill")
        /\ {"pc", "tr", "on", "show", "c", "v"} \subseteq DOMAIN new
    OBVIOUS
  <2> HIDE DEF new
  <2>8. JobIs(new)'
    BY <1>1, <2>4, <2>6, <2>7 DEF JobIs
  <2>9. Evo!Continue(p, new)
    BY <1>3 DEF new
  <2> QED BY <2>5, <2>8, <2>9, OneJobStep
<1> QED BY <1>1, <1>2, <1>3, SameTransactions DEF Evo!Reserve, Evo!campaignVars, campaignVars

LEMMA NextVersionStep ==
  ASSUME CycleInv, CycleFacts, NEW p \in Process, Evo!NextVersion(p)
  PROVE  CycleInv'
<1>1. PICK j : j = job[p] /\ JobIs(j) /\ j.pc = "version"
  BY DEF Evo!NextVersion, Evo!At, CycleInv, JobsInv
<1>2. PICK n : n = 1 + CHOOSE v \in Evo!Existing : \A w \in Evo!Existing : w <= v
  OBVIOUS
<1> DEFINE new == [j EXCEPT !.pc = "attach", !.v = n]
<1>3. Stores' /\ AllGoOn
  <2>1. UNCHANGED <<campaignVars, Evo!skillVars>> /\ TracesGoOn /\ EvidenceInv'
    BY DEF Evo!NextVersion, TracesGoOn, CycleInv, Stores, EvidenceInv, Qualifies,
           Evo!campaignVars, campaignVars
  <2> QED BY <2>1, QuietStep DEF CycleInv, CycleFacts
<1>4. Evo!Continue(p, new)
  BY <1>1, <1>2 DEF Evo!NextVersion
<1>5. JobIs(j)'
  BY <1>1, <1>3, JobGoesOn DEF CycleInv, Stores, CycleFacts, AllGoOn
<1>6. /\ new.pc = "attach" /\ new.tr = j.tr /\ new.on = j.on /\ new.show = j.show
      /\ new.c = j.c /\ {"pc", "tr", "on", "show", "c", "v"} \subseteq DOMAIN new
  BY <1>1 DEF JobIs
<1> HIDE DEF new
<1>7. JobIs(new)'
  BY <1>1, <1>5, <1>6 DEF JobIs
<1> QED BY <1>3, <1>4, <1>7, OneJobStep
(* The candidate of the job fits the campaign that was reserved for it.     *)
LEMMA ArtifactFits ==
  ASSUME CycleFacts, NEW j, JobIs(j), j.pc = "attach", j.v \in Evo!Version
  PROVE  /\ Evo!ArtifactOf(j) \in Candidate
         /\ \/ /\ layer[j.tr] = "skill" /\ Evo!SpecOf(j) \in Specs
               /\ Evo!ArtifactOf(j) = Evo!SkillCandidate(j.v, Evo!SpecOf(j))
               /\ camp[j.c].target = [kind |-> "skill", version |-> Evo!SpecOf(j).parent]
            \/ /\ Evo!ArtifactOf(j) = Evo!ModelTicket(j.show)
               /\ camp[j.c].target = [kind |-> "model"]
               /\ j.show \in SUBSET Trace /\ Supports(j.show)
            \/ Evo!ArtifactOf(j) = Evo!RepairTicket /\ camp[j.c].target = [kind |-> "tool"]
<1>1. /\ j.tr \in Trace /\ j.on \in Evo!Version /\ layer[j.tr] \in {"skill", "model", "tool"}
      /\ camp[j.c].target = Evo!TargetOf(j.tr, j.on)
      /\ layer[j.tr] = "model" => j.show \in SUBSET Trace /\ Supports(j.show)
  BY DEF JobIs
<1>2. CASE layer[j.tr] = "skill"
  <2>1. Evo!SpecOf(j) \in Specs /\ Evo!SpecOf(j).parent = j.on
    BY <1>1 DEF Evo!SpecOf, Specs
  <2>2. /\ Evo!ArtifactOf(j) = Evo!SkillCandidate(j.v, Evo!SpecOf(j))
        /\ Evo!ArtifactOf(j) \in Candidate
    BY <1>1, <1>2 DEF Evo!ArtifactOf, Evo!SpecOf, CycleFacts, Evo!CycleAssumption
  <2> QED BY <1>1, <1>2, <2>1, <2>2 DEF Evo!TargetOf
<1>3. CASE layer[j.tr] = "model"
  BY <1>1, <1>3 DEF Evo!ArtifactOf, Evo!TargetOf, CycleFacts, Evo!CycleAssumption
<1>4. CASE layer[j.tr] = "tool"
  BY <1>1, <1>4 DEF Evo!ArtifactOf, Evo!TargetOf, CycleFacts, Evo!CycleAssumption
<1> QED BY <1>1, <1>2, <1>3, <1>4

LEMMA AttachStep ==
  ASSUME CycleInv, CycleFacts, NEW p \in Process, Evo!Attach(p)
  PROVE  CycleInv'
<1>1. PICK j : j = job[p] /\ JobIs(j) /\ j.pc = "attach" /\ j.v \in Evo!Version
  BY DEF Evo!Attach, Evo!At, CycleInv, JobsInv
<1>2. PICK c \in CampaignId, cand \in Candidate :
        c = j.c /\ cand = Evo!ArtifactOf(j) /\ Exists(c)
  BY <1>1, ArtifactFits DEF JobIs
<1>3. /\ AttachCandidate(c, cand, 0, 0) /\ cand \in Candidate /\ CampaignsTypeOK
      /\ camp[c].rev = 0
  <2>1. Evo!AttachCandidate(c, cand, 0, 0)
    BY <1>1, <1>2 DEF Evo!Attach
  <2>2. AttachCandidate(c, cand, 0, 0)
    BY <2>1, SameTransactions
  <2> QED BY <1>1, <1>2, <2>2, ArtifactFits DEF CycleInv, Stores, AttachCandidate
<1>4. Transaction(c, 0)
  BY <1>3 DEF Transaction
<1>5. camp'[c].state = "candidate_ready" /\ camp'[c].cand = cand
  BY <1>3, AttachWrites
<1>6. CampaignsGoOn /\ camp'[c].target = camp[c].target /\ Exists(c)'
  BY <1>2, <1>3, <1>4, TransactionGoesOn DEF CampaignsGoOn
<1>7. UNCHANGED <<stored, Evo!skillVars, evidence>> /\ TracesGoOn
  BY DEF Evo!Attach, TracesGoOn
<1>8. ArtifactInvAt(c)' /\ CompletedInvAt(c)'
  <2>1. \/ \E v \in Evo!Version, spec \in Specs :
             /\ cand = Evo!SkillCandidate(v, spec)
             /\ camp[c].target = [kind |-> "skill", version |-> spec.parent]
        \/ \E traces \in SUBSET Trace :
             /\ cand = Evo!ModelTicket(traces) /\ camp[c].target = [kind |-> "model"]
             /\ Supports(traces)'
        \/ cand = Evo!RepairTicket /\ camp[c].target = [kind |-> "tool"]
    BY <1>1, <1>2, <1>7, ArtifactFits, SupportsGoesOn
  <2> QED BY <1>5, <1>6, <2>1 DEF ArtifactInvAt, CompletedInvAt, InitialStates
<1>9. Stores' /\ AllGoOn
  BY <1>4, <1>7, <1>8, CampaignStep DEF CycleInv, CycleFacts
<1>10. CASE layer[j.tr] # "skill"
  <2>1. Evo!Leave(p)
    BY <1>1, <1>10 DEF Evo!Attach
  <2> QED BY <1>9, <2>1, LeaveStep
<1>11. CASE layer[j.tr] = "skill"
  <2> DEFINE new == [j EXCEPT !.pc = "add"]
  <2>1. Evo!Continue(p, new)
    BY <1>1, <1>11 DEF Evo!Attach
  <2>2. JobIs(j)'
    BY <1>1, <1>9, JobGoesOn DEF CycleInv, Stores, CycleFacts, AllGoOn
  <2>3. /\ new.pc = "add" /\ new.tr = j.tr /\ new.on = j.on /\ new.show = j.show
        /\ new.c = j.c /\ new.v = j.v /\ Evo!SpecOf(new) = Evo!SpecOf(j)
        /\ {"pc", "tr", "on", "show", "c", "v"} \subseteq DOMAIN new
    BY <1>1 DEF JobIs, Evo!SpecOf
  <2>4. Holds(j.c, j.v, Evo!SpecOf(j))'
    <3>1. cand = Evo!SkillCandidate(j.v, Evo!SpecOf(j))
      BY <1>2, <1>11 DEF Evo!ArtifactOf
    <3> QED BY <1>2, <1>5, <1>6, <3>1 DEF Holds, InitialStates, Evo!SpecOf
  <2> HIDE DEF new
  <2>5. JobIs(new)'
    BY <1>1, <1>11, <2>2, <2>3, <2>4 DEF JobIs
  <2> QED BY <1>9, <2>1, <2>5, OneJobStep
<1> QED BY <1>10, <1>11

(* A transition that closes no campaign as completed.                       *)
LEMMA TransitionStep ==
  ASSUME CycleInv, CycleFacts, NEW c \in CampaignId, NEW to \in CallerStates,
         Transition(c, to, camp[c].rev, 0, 0), to # "completed",
         UNCHANGED <<stored, Evo!skillVars, evidence>>
  PROVE  Stores' /\ AllGoOn
<1>1. Transaction(c, 0) /\ CampaignsTypeOK
  BY DEF Transaction, CycleInv, Stores
<1>2. Exists(c) /\ camp'[c].state = to /\ camp'[c].cand = camp[c].cand
  BY <1>1, TransitionWrites
<1>3. camp'[c].target = camp[c].target
  BY <1>1, <1>2, TransactionGoesOn DEF CampaignsGoOn
<1>4. to \notin InitialStates
  BY DEF CallerStates, ClosedStates, InitialStates
<1>5. ArtifactInvAt(c) /\ TracesGoOn
  BY DEF CycleInv, Stores, ArtifactInv, TracesGoOn
<1>6. ArtifactInvAt(c)' /\ CompletedInvAt(c)'
  BY <1>2, <1>3, <1>4, <1>5, ArtifactIsKept DEF CompletedInvAt
<1> QED BY <1>1, <1>6, CampaignStep DEF CycleInv, CycleFacts

LEMMA CancelModelStep ==
  ASSUME CycleInv, CycleFacts, NEW p \in Process, Evo!CancelModel(p)
  PROVE  CycleInv'
<1>1. PICK j : j = job[p] /\ JobIs(j) /\ j.pc = "attach"
  BY DEF Evo!CancelModel, Evo!At, CycleInv, JobsInv
<1>2. PICK c \in CampaignId : c = j.c
  BY <1>1 DEF JobIs
<1>3. Transition(c, "cancelled", camp[c].rev, 0, 0) /\ "cancelled" \in CallerStates
  BY <1>1, <1>2, SameTransactions DEF Evo!CancelModel, CallerStates, ClosedStates
<1>4. Stores' /\ AllGoOn
  BY <1>3, TransitionStep DEF Evo!CancelModel
<1> QED BY <1>4, LeaveStep DEF Evo!CancelModel

LEMMA AddJobStep ==
  ASSUME CycleInv, CycleFacts, NEW p \in Process, Evo!Add(p)
  PROVE  CycleInv'
<1>1. PICK j : j = job[p] /\ JobIs(j) /\ j.pc = "add"
  BY DEF Evo!Add, Evo!At, CycleInv, JobsInv
<1>2. PICK c \in CampaignId, v \in Evo!Version, spec \in Specs :
        c = j.c /\ v = j.v /\ spec = Evo!SpecOf(j) /\ Holds(c, v, spec)
  BY <1>1 DEF JobIs, Evo!SpecOf, Specs
<1>3. Evo!AddCandidate(v, spec) /\ UNCHANGED <<campaignVars, stored, evidence>> /\ Evo!Leave(p)
  BY <1>1, <1>2 DEF Evo!Add, Evo!campaignVars, campaignVars
<1>4. RegistryTypes' /\ RegistryInv' /\ SkillsGoOn
  BY <1>2, <1>3, AddStep DEF CycleInv, Stores, CycleFacts
<1>5. Stores' /\ AllGoOn
  BY <1>3, <1>4, SkillStep DEF CycleInv, CycleFacts
<1> QED BY <1>3, <1>5, LeaveStep

-----------------------------------------------------------------------------
(* The lab *)

(* The candidate of a campaign on a skill is a version and its              *)
(* specification, made from the version that the campaign is on.            *)
LEMMA SkillCampaign ==
  ASSUME CycleInv, CampaignsAssumption, NEW c \in CampaignId, Evo!LabCampaign(c)
  PROVE  \E v \in Evo!Version, spec \in Specs :
           /\ Holds(c, v, spec) /\ Evo!Proposed(c) = v /\ camp[c].cand.spec = spec
           /\ camp[c].target = [kind |-> "skill", version |-> spec.parent]
<1>1. /\ Exists(c) /\ camp[c].cand # NoCandidate /\ camp[c].target.kind = "skill"
      /\ ArtifactInvAt(c)
  BY DEF Evo!LabCampaign, Exists, CycleInv, Stores, ArtifactInv
<1>2. PICK v \in Evo!Version, spec \in Specs :
        /\ camp[c].cand = Evo!SkillCandidate(v, spec)
        /\ camp[c].target = [kind |-> "skill", version |-> spec.parent]
  BY <1>1 DEF ArtifactInvAt
<1>3. Evo!Proposed(c) = v /\ camp[c].cand.spec = spec
  BY <1>2 DEF Evo!Proposed, Evo!SkillCandidate
<1>4. Holds(c, v, spec)
  BY <1>1, <1>2 DEF Holds, ArtifactInvAt
<1> QED BY <1>2, <1>3, <1>4

LEMMA RecoverStep ==
  ASSUME CycleInv, CycleFacts, NEW c \in CampaignId, Evo!RecoverCandidate(c)
  PROVE  CycleInv'
<1>1. PICK v \in Evo!Version, spec \in Specs :
        Holds(c, v, spec) /\ Evo!Proposed(c) = v /\ camp[c].cand.spec = spec
  BY SkillCampaign DEF Evo!RecoverCandidate, CycleFacts
<1>2. Evo!AddCandidate(v, spec) /\ UNCHANGED <<campaignVars, stored, evidence, job>>
  BY <1>1 DEF Evo!RecoverCandidate, Evo!campaignVars, campaignVars
<1>3. RegistryTypes' /\ RegistryInv' /\ SkillsGoOn
  BY <1>1, <1>2, AddStep DEF CycleInv, Stores, CycleFacts
<1>4. Stores' /\ AllGoOn
  BY <1>2, <1>3, SkillStep DEF CycleInv, CycleFacts
<1> QED BY <1>2, <1>4, NoOneMoves

LEMMA EvaluateStep ==
  ASSUME CycleInv, CycleFacts, NEW c \in CampaignId, Evo!Evaluate(c)
  PROVE  CycleInv'
<1>1. PICK to \in {"evaluation_pending", "approval_pending"} :
        Transition(c, to, camp[c].rev, 0, 0)
  BY SameTransactions DEF Evo!Evaluate
<1>2. to \in CallerStates /\ to # "completed"
  BY DEF CallerStates
<1>3. Stores' /\ AllGoOn
  BY <1>1, <1>2, TransitionStep DEF Evo!Evaluate
<1> QED BY <1>3, NoOneMoves DEF Evo!Evaluate

LEMMA CloseStep ==
  ASSUME CycleInv, CycleFacts, NEW c \in CampaignId, Evo!CloseCampaign(c)
  PROVE  CycleInv'
<1>1. Transition(c, "cancelled", camp[c].rev, 0, 0) /\ "cancelled" \in CallerStates
  BY SameTransactions DEF Evo!CloseCampaign, CallerStates, ClosedStates
<1>2. Stores' /\ AllGoOn
  BY <1>1, TransitionStep DEF Evo!CloseCampaign
<1> QED BY <1>2, NoOneMoves DEF Evo!CloseCampaign

LEMMA ReviewStep ==
  ASSUME CycleInv, CycleFacts, NEW c \in CampaignId, NEW a \in Reviewer, Evo!Review(c, a)
  PROVE  CycleInv'
<1>1. /\ a \in Actor /\ "approve" \in Decisions /\ CampaignsTypeOK
      /\ RecordApproval(c, a, "approve", camp[c].rev, 0, 0)
  BY SameTransactions DEF Evo!Review, CycleFacts, Evo!CycleAssumption, Decisions, CycleInv, Stores
<1>2. Transaction(c, 0) /\ Exists(c)
  BY <1>1 DEF Transaction, RecordApproval
<1>3. camp'[c].state \in {"authorized", "approval_pending"}
  BY <1>1, StatesWritten
<1>4. camp'[c].cand = camp[c].cand
  BY <1>1, ApprovalWrites DEF CycleFacts
<1>5. camp'[c].target = camp[c].target
  BY <1>1, <1>2, TransactionGoesOn DEF CampaignsGoOn
<1>6. ArtifactInvAt(c) /\ TracesGoOn /\ camp'[c].state \notin InitialStates
  BY <1>3 DEF Evo!Review, CycleInv, Stores, ArtifactInv, TracesGoOn, InitialStates
<1>7. ArtifactInvAt(c)' /\ CompletedInvAt(c)'
  BY <1>2, <1>3, <1>4, <1>5, <1>6, ArtifactIsKept DEF CompletedInvAt
<1>8. Stores' /\ AllGoOn
  BY <1>2, <1>7, CampaignStep DEF Evo!Review, CycleInv, CycleFacts
<1> QED BY <1>8, NoOneMoves DEF Evo!Review

(* Who is active is the candidate of a campaign, which is the only one on   *)
(* the target: what the lab completes had its own candidate promoted.       *)
LEMMA CompleteStep ==
  ASSUME CycleInv, CycleFacts, NEW c \in CampaignId, Evo!Complete(c)
  PROVE  CycleInv'
<1>1. PICK v \in Evo!Version, spec \in Specs :
        /\ Holds(c, v, spec) /\ Evo!Proposed(c) = v /\ camp[c].cand.spec = spec
        /\ camp[c].target = [kind |-> "skill", version |-> spec.parent]
  BY SkillCampaign DEF Evo!Complete, CycleFacts
<1>2. PICK h \in Evo!Version : h = head.active /\ skills[h] # Evo!NoSkill /\ skills[h].spec = spec
  BY <1>1 DEF Evo!Complete, Evo!CandidateRecord, Evo!Existing
<1>3. h # 0 /\ h \in Evo!WasActive
  <2>1. spec # Evo!NoSpec
    BY DEF Specs, Evo!NoSpec, Evo!Version
  <2> QED BY <1>2, <2>1 DEF CycleInv, Stores, RegistryInv, Evo!WasActive
<1>4. PICK d \in CampaignId : Holds(d, h, spec)
  BY <1>2, <1>3 DEF CycleInv, Stores, RegistryInv
<1>5. d = c
  <2>1. /\ Exists(d) /\ camp[d].cand = Evo!SkillCandidate(h, spec) /\ camp[d].cand # NoCandidate
        /\ ArtifactInvAt(d)
    <3>1. Evo!SkillCandidate(h, spec) \in Candidate
      BY DEF CycleFacts, Evo!CycleAssumption, Specs
    <3> QED BY <1>4, <3>1 DEF Holds, CycleInv, Stores, ArtifactInv, CycleFacts,
                              CampaignsAssumption
  <2>2. PICK w \in Evo!Version, other \in Specs :
          /\ Evo!SkillCandidate(h, spec) = Evo!SkillCandidate(w, other)
          /\ camp[d].target = [kind |-> "skill", version |-> other.parent]
    <3>1. /\ Evo!SkillCandidate(h, spec).kind = "skill" /\ Evo!RepairTicket.kind = "tool"
          /\ \A traces : Evo!ModelTicket(traces).kind = "model"
      BY DEF Evo!SkillCandidate, Evo!ModelTicket, Evo!RepairTicket
    <3> QED BY <2>1, <3>1 DEF ArtifactInvAt
  <2>3. camp[d].target = camp[c].target
    BY <1>1, <2>2 DEF Evo!SkillCandidate
  <2> QED BY <2>1, <2>3, SameCampaigns DEF Evo!Complete, Evo!LabCampaign
<1>6. v = h
  BY <1>1, <1>4, <1>5 DEF Holds, Evo!SkillCandidate
<1>7. /\ Transition(c, "completed", camp[c].rev, 0, 0) /\ "completed" \in CallerStates
      /\ CampaignsTypeOK /\ TracesGoOn /\ ArtifactInvAt(c)
  BY SameTransactions
     DEF Evo!Complete, CallerStates, ClosedStates, CycleInv, Stores, TracesGoOn, ArtifactInv
<1>8. Transaction(c, 0)
  BY <1>7 DEF Transaction
<1>9. Exists(c) /\ camp'[c].state = "completed" /\ camp'[c].cand = camp[c].cand
  BY <1>7, TransitionWrites
<1>10. camp'[c].target = camp[c].target
  BY <1>7, <1>8, <1>9, TransactionGoesOn DEF CampaignsGoOn
<1>11. ArtifactInvAt(c)'
  BY <1>7, <1>9, <1>10, ArtifactIsKept DEF InitialStates
<1>12. CompletedInvAt(c)'
  BY <1>1, <1>3, <1>6, <1>9
     DEF CompletedInvAt, Evo!Proposed, Evo!WasActive, Evo!Complete, Evo!skillVars
<1>13. Stores' /\ AllGoOn
  BY <1>8, <1>11, <1>12, CampaignStep DEF Evo!Complete, CycleInv, CycleFacts
<1> QED BY <1>13, NoOneMoves DEF Evo!Complete

LEMMA NothingWritten ==
  ASSUME Stores, CycleFacts, UNCHANGED <<campaignVars, stored, Evo!skillVars, evidence>>
  PROVE  Stores' /\ AllGoOn
<1>1. TracesGoOn /\ EvidenceInv'
  BY DEF TracesGoOn, Stores, EvidenceInv, Qualifies
<1> QED BY <1>1, QuietStep DEF CycleFacts

LEMMA ValidateStep ==
  ASSUME CycleInv, CycleFacts, NEW p \in Process, NEW c \in CampaignId, Evo!Validate(p, c)
  PROVE  CycleInv'
<1> DEFINE new == [pc |-> "revision", c |-> c]
<1>1. PICK v \in Evo!Version, spec \in Specs :
        Holds(c, v, spec) /\ Evo!Proposed(c) = v /\ camp[c].cand.spec = spec
  BY SkillCampaign DEF Evo!Validate, CycleFacts
<1>2. skills[v] # Evo!NoSkill /\ skills[v].spec = spec
  BY <1>1 DEF Evo!Validate, Evo!MayPromote, Evo!CandidateRecord, Evo!Existing
<1>3. Agreed(c)
  BY DEF Evo!Validate, Evo!MayPromote, CycleInv, Stores, ApprovalInv, ApprovalInvAt, Agreed
<1>4. JobIs(new)
  BY <1>1, <1>2, <1>3 DEF JobIs
<1>5. Stores' /\ AllGoOn
  BY NothingWritten DEF Evo!Validate, CycleInv, Evo!campaignVars, campaignVars
<1>6. Evo!Continue(p, new)
  BY DEF Evo!Validate
<1> HIDE DEF new
<1>7. JobIs(new)'
  BY <1>4, <1>5, JobGoesOn DEF CycleInv, Stores, CycleFacts, AllGoOn
<1> QED BY <1>5, <1>6, <1>7, OneJobStep

LEMMA ReadRevisionStep ==
  ASSUME CycleInv, CycleFacts, NEW p \in Process, Evo!ReadRevision(p)
  PROVE  CycleInv'
<1>1. PICK j, n : j = job[p] /\ JobIs(j) /\ j.pc = "revision" /\ n = head.rev
  BY DEF Evo!ReadRevision, Evo!At, CycleInv, JobsInv
<1> DEFINE new == [pc |-> "promote", c |-> j.c, rev |-> n]
<1>2. Evo!Continue(p, new)
  BY <1>1 DEF Evo!ReadRevision
<1>3. JobIs(new)
  BY <1>1 DEF JobIs
<1>4. Stores' /\ AllGoOn
  BY NothingWritten DEF Evo!ReadRevision, CycleInv, Evo!campaignVars, campaignVars
<1> HIDE DEF new
<1>5. JobIs(new)'
  BY <1>3, <1>4, JobGoesOn DEF CycleInv, Stores, CycleFacts, AllGoOn
<1> QED BY <1>2, <1>4, <1>5, OneJobStep

(* What was validated may have changed by now, but not that the candidate   *)
(* has its campaign, nor that people approved it.                           *)
LEMMA PromoteStep ==
  ASSUME CycleInv, CycleFacts, NEW p \in Process, Evo!Promote(p)
  PROVE  CycleInv'
<1>1. PICK j : j = job[p] /\ JobIs(j) /\ j.pc = "promote"
  BY DEF Evo!Promote, Evo!At, CycleInv, JobsInv
<1>2. PICK c \in CampaignId, v \in Evo!Version, spec \in Specs :
        /\ c = j.c /\ Agreed(c) /\ Holds(c, v, spec)
        /\ skills[v] # Evo!NoSkill /\ skills[v].spec = spec
  BY <1>1 DEF JobIs
<1>3. Evo!Proposed(c) = v
  BY <1>2 DEF Holds, Evo!Proposed, Evo!SkillCandidate
<1>4. PICK rev : rev = j.rev /\ skills[v].status = "candidate" /\ Evo!MoveHead(v, rev)
  BY <1>1, <1>2, <1>3 DEF Evo!Promote, Evo!PromoteSkill
<1>5. v # head.active
  BY <1>4 DEF CycleInv, Stores, RegistryInv
<1>6. UNCHANGED <<campaignVars, stored, evidence>> /\ Evo!Leave(p)
  BY DEF Evo!Promote, Evo!campaignVars, campaignVars
<1>7. RegistryTypes' /\ RegistryInv' /\ SkillsGoOn
  BY <1>2, <1>4, <1>5, <1>6, MoveStep DEF CycleInv, Stores, CycleFacts
<1>8. Stores' /\ AllGoOn
  BY <1>6, <1>7, SkillStep DEF CycleInv, CycleFacts
<1> QED BY <1>6, <1>8, LeaveStep

LEMMA RollbackStep ==
  ASSUME CycleInv, CycleFacts, NEW v \in Evo!Version, Evo!Rollback(v)
  PROVE  CycleInv'
<1>1. PICK rev : rev = head.rev /\ Evo!MoveHead(v, rev) /\ v # head.active /\ v \in Evo!WasActive
  BY DEF Evo!Rollback, Evo!RollbackSkill
<1>2. skills[v] # Evo!NoSkill
  BY <1>1, RowTypes DEF CycleInv, Stores
<1>3. v # 0 => \E c \in CampaignId : Holds(c, v, skills[v].spec) /\ Agreed(c)
  BY <1>1, <1>2 DEF CycleInv, Stores, RegistryInv
<1>4. UNCHANGED <<campaignVars, stored, evidence, job>>
  BY DEF Evo!Rollback, Evo!campaignVars, campaignVars
<1>5. RegistryTypes' /\ RegistryInv' /\ SkillsGoOn
  BY <1>1, <1>2, <1>3, <1>4, MoveStep DEF CycleInv, Stores, CycleFacts
<1>6. Stores' /\ AllGoOn
  BY <1>4, <1>5, SkillStep DEF CycleInv, CycleFacts
<1> QED BY <1>4, <1>6, NoOneMoves

LEMMA RejectionStep ==
  ASSUME CycleInv, CycleFacts, NEW v \in Evo!Version, Evo!Reject(v)
  PROVE  CycleInv'
<1>1. Evo!RejectSkill(v) /\ UNCHANGED <<campaignVars, stored, evidence, job>>
  BY DEF Evo!Reject, Evo!campaignVars, campaignVars
<1>2. RegistryTypes' /\ RegistryInv' /\ SkillsGoOn
  BY <1>1, RejectStep DEF CycleInv, Stores, CycleFacts
<1>3. Stores' /\ AllGoOn
  BY <1>1, <1>2, SkillStep DEF CycleInv, CycleFacts
<1> QED BY <1>1, <1>3, NoOneMoves

LEMMA StopStep ==
  ASSUME CycleInv, CycleFacts, NEW p \in Process, Evo!Stop(p)
  PROVE  CycleInv'
<1>1. Stores' /\ AllGoOn
  BY NothingWritten DEF Evo!Stop, CycleInv, Evo!campaignVars, campaignVars
<1> QED BY <1>1, LeaveStep DEF Evo!Stop

-----------------------------------------------------------------------------
LEMMA CycleStart ==
  ASSUME CycleFacts, Evo!Init
  PROVE  CycleInv
<1> USE DEF Evo!Init
<1>1. CampaignsInit
  BY SameCampaigns
<1>2. CampaignsTypeOK
  BY <1>1 DEF CampaignsInit, CampaignsTypeOK
<1>3. \A c \in CampaignId : ~Exists(c) /\ camp[c].state = "absent"
  BY <1>1 DEF CampaignsInit, Exists, NoRow
<1>4. ApprovalInv
  BY <1>1, <1>3 DEF CampaignsInit, ApprovalInv, ApprovalInvAt, WithCandidate
<1>5. ArtifactInv /\ CompletedInv /\ EvidenceInv
  BY <1>3 DEF ArtifactInv, ArtifactInvAt, CompletedInv, CompletedInvAt, EvidenceInv
<1>6. 0 \in Evo!Version
  BY DEF Evo!Version, CycleFacts, Evo!CycleAssumption
<1>7. RegistryTypes /\ RegistryInv
  BY <1>6 DEF RegistryTypes, RegistryInv, SkillRows, Evo!NoSkill
<1>8. JobsInv
  BY DEF JobsInv, JobIs, Evo!Idle
<1> QED BY <1>2, <1>4, <1>5, <1>7, <1>8 DEF CycleInv, Stores

LEMMA CycleStep ==
  ASSUME CycleInv, CycleFacts, [Evo!Next]_(Evo!vars)
  PROVE  CycleInv'
<1>1. CASE UNCHANGED Evo!vars
  <2>1. Stores' /\ AllGoOn
    BY <1>1, NothingWritten DEF Evo!vars, CycleInv, Evo!campaignVars, campaignVars
  <2> QED BY <1>1, <2>1, NoOneMoves DEF Evo!vars
<1>2. CASE Evo!Next
  BY <1>2, ObserveStep, ReadActiveStep, AddModelEvidenceStep, ReserveStep, NextVersionStep,
     AttachStep, CancelModelStep, AddJobStep, ValidateStep, ReadRevisionStep, PromoteStep,
     StopStep, RecoverStep, EvaluateStep, CloseStep, CompleteStep, ReviewStep,
     RejectionStep, RollbackStep
     DEF Evo!Next
<1> QED BY <1>1, <1>2

LEMMA GovernedSkills ==
  ASSUME CycleInv, CycleFacts
  PROVE  Evo!SkillsAreGoverned
<1>1. {v \in Evo!Version : skills[v].status = "active"} = {head.active}
  BY DEF CycleInv, Stores, RegistryInv, RegistryTypes
<1>2. ASSUME NEW v \in Evo!Existing \ {0}
      PROVE  \E c \in CampaignId :
               /\ Exists(c) /\ camp[c].cand = Evo!SkillCandidate(v, skills[v].spec)
               /\ v \in Evo!WasActive => Cardinality(Approvers(c)) >= camp[c].need
  BY DEF CycleInv, Stores, RegistryInv, Evo!Existing, Holds, Agreed
<1>3. \A c \in CampaignId : camp[c].state = "completed" => Evo!Proposed(c) \in Evo!WasActive
  BY DEF CycleInv, Stores, CompletedInv, CompletedInvAt
<1> QED BY <1>1, <1>2, <1>3, SameCampaigns DEF Evo!SkillsAreGoverned

LEMMA SupportedTickets ==
  ASSUME CycleInv, CycleFacts
  PROVE  Evo!ModelTicketsHaveEvidence
<1> SUFFICES ASSUME NEW c \in CampaignId,
                    Exists(c), camp[c].cand # NoCandidate, camp[c].target.kind = "model"
             PROVE  /\ \A tr \in camp[c].cand.traces :
                         layer[tr] = "model" /\ \E v \in Evo!Version : <<tr, v>> \in stored
                    /\ Evo!Ready(camp[c].cand.traces)
  BY SameCampaigns DEF Evo!ModelTicketsHaveEvidence, Evo!Ready
<1>1. ArtifactInvAt(c)
  BY DEF CycleInv, Stores, ArtifactInv
<1>2. PICK traces \in SUBSET Trace :
        /\ camp[c].cand = Evo!ModelTicket(traces) /\ Supports(traces)
  <2>1. /\ \A spec : [kind |-> "skill", version |-> spec.parent].kind # "model"
        /\ [kind |-> "tool"].kind # "model"
    OBVIOUS
  <2> QED BY <1>1, <2>1 DEF ArtifactInvAt
<1>3. camp[c].cand.traces = traces
  BY <1>2 DEF Evo!ModelTicket
<1> QED BY <1>2, <1>3 DEF Supports, Qualifies

(* The inductive invariant of the cycle: what the three databases tell of   *)
(* one another, and what a job knows of them (campaigns/cycle.py).          *)
THEOREM CycleInvariant ==
  ASSUME Evo!CycleAssumption
  PROVE  Evo!Spec => []CycleInv
<1>0. CycleFacts
  BY CampaignsAssumption DEF CycleFacts
<1>1. Evo!Init => CycleInv
  BY <1>0, CycleStart
<1>2. CycleInv /\ [Evo!Next]_(Evo!vars) => CycleInv'
  BY <1>0, CycleStep
<1> QED BY <1>1, <1>2, PTL DEF Evo!Spec

(* docs/09: the service proposes and people decide.  Every version that     *)
(* the registry got is the candidate of a campaign, which people approved   *)
(* if it was ever active; a completed campaign had its own promoted; and a  *)
(* model ticket rests on enough stored traces of enough tasks, whatever     *)
(* jobs interleave and wherever they stop.                                  *)
THEOREM TheSkillsAreGoverned ==
  ASSUME Evo!CycleAssumption
  PROVE  Evo!Spec => [](Evo!SkillsAreGoverned /\ Evo!ModelTicketsHaveEvidence)
<1>0. CycleFacts
  BY CampaignsAssumption DEF CycleFacts
<1>1. CycleInv => Evo!SkillsAreGoverned /\ Evo!ModelTicketsHaveEvidence
  BY <1>0, GovernedSkills, SupportedTickets
<1> QED BY <1>1, CycleInvariant, PTL

-----------------------------------------------------------------------------
(***************************************************************************)
(* Diagnosis by replay (ToolRuntime): a run that nothing cuts short has    *)
(* one of six histories, so what becomes of it can be told from the        *)
(* scenario and the intervention; and the attribution, from that of all.   *)
(***************************************************************************)
CONSTANTS Scenario, Hypotheses, MinConfidence, ConflictMargin, MaxCut
VARIABLES scenario, hypotheses, at, pc, initial, doc, attempted, history, steps, limit, output,
          trace, report

Diag == INSTANCE ToolRuntime

(* The finite sets of the diagnosis are those of this module.               *)
LEMMA SameDiagnosisSets ==
  ASSUME NEW S
  PROVE  Diag!Cardinality(S) = Cardinality(S) /\ (Diag!IsFiniteSet(S) <=> IsFiniteSet(S))
BY DEF Diag!Cardinality, Diag!IsFiniteSet, Cardinality, IsFiniteSet

(* CounterfactualAttributionEngine.default_hypotheses: the plan names each *)
(* layer once.                                                             *)
LEMMA PlanFacts ==
  /\ Diag!Layer = {"skill", "router", "tool", "context", "verifier", "environment", "model"}
  /\ DOMAIN Diag!Plan = 1 .. 7 /\ \A i \in 1 .. 7 : Diag!Plan[i] \in Diag!Layer
  /\ \A i, j \in 1 .. 7 : Diag!Plan[i] = Diag!Plan[j] => i = j
  /\ \A l \in Diag!Layer : \E i \in 1 .. 7 : Diag!Plan[i] = l
<1>1. DOMAIN Diag!Plan = 1 .. 7
  BY DEF Diag!Plan
<1>2. /\ Diag!Plan[1] = "skill" /\ Diag!Plan[2] = "router" /\ Diag!Plan[3] = "tool"
         /\ Diag!Plan[4] = "context"
      /\ Diag!Plan[5] = "verifier" /\ Diag!Plan[6] = "environment" /\ Diag!Plan[7] = "model"
  BY DEF Diag!Plan
<1>3. Diag!Layer = {"skill", "router", "tool", "context", "verifier", "environment", "model"}
  <2>1. Diag!Layer = {Diag!Plan[i] : i \in 1 .. 7}
    BY <1>1 DEF Diag!Layer, Diag!Range
  <2>2. 1 .. 7 = {1, 2, 3, 4, 5, 6, 7}
    OBVIOUS
  <2> QED BY <1>2, <2>1, <2>2
<1>4. \A i \in 1 .. 7 : i \in {1, 2, 3, 4, 5, 6, 7}
  OBVIOUS
<1>5. \A i, j \in 1 .. 7 : Diag!Plan[i] = Diag!Plan[j] => i = j
  BY <1>2, <1>4
<1>6. \A i \in 1 .. 7 : Diag!Plan[i] \in Diag!Layer
  BY <1>1 DEF Diag!Layer, Diag!Range
<1>7. \A l \in Diag!Layer : \E i \in 1 .. 7 : Diag!Plan[i] = l
  BY <1>1 DEF Diag!Layer, Diag!Range
<1> QED BY <1>1, <1>3, <1>5, <1>6, <1>7

(* The scenario and the hypotheses are what the runner was given.          *)
Setting == scenario \in Scenario /\ hypotheses \in Hypotheses

(* What the runners accept.                                                *)
LEMMA SettingFacts ==
  ASSUME Diag!RuntimeAssumption, Setting
  PROVE  /\ scenario.runner \in {"matrix", "local"} /\ scenario.faults \subseteq Diag!Layer
         /\ scenario.skill \subseteq {"inspect", "verify"} /\ scenario.expected \in Diag!Status
         /\ scenario.steps \in Nat /\ scenario.calls \in Nat
         /\ scenario.runner = "matrix" <=> scenario.faults # {}
         /\ scenario.runner = "matrix" => scenario.steps = 6 /\ scenario.calls = 4
         /\ hypotheses \subseteq [layer: Diag!Layer, prior: 0 .. 100] /\ hypotheses # {}
         /\ \A h, g \in hypotheses : h.layer = g.layer => h = g
         /\ MinConfidence \in 0 .. 99 /\ ConflictMargin \in 0 .. 99
BY DEF Diag!RuntimeAssumption, Setting

-----------------------------------------------------------------------------
(* A document that the policy has written.                                 *)
New == [content |-> "new", protected |-> FALSE]
(* Whether a write can succeed: the tool works, and the target is not      *)
(* protected.                                                              *)
CanWrite == ~Diag!Active("tool") /\ ~Diag!InitialDocument.protected
(* What a write leaves of the target.                                      *)
Left == IF CanWrite THEN New ELSE Diag!InitialDocument
(* The result of reading a document.                                       *)
Observed(d) == [tool |-> "read", ok |-> TRUE, doc |-> d]
(* The result of writing the target.                                       *)
Wrote == [tool |-> "write", ok |-> CanWrite, doc |-> Diag!NoDocument]
(* The policy gets to look at its history.                                 *)
Calm == ~Diag!Active("model") /\ ~Diag!Active("context")
(* The rules of the skill under which the run goes on.                     *)
Inspecting == "inspect" \in Diag!Rules
Verifying == "verify" \in Diag!Rules

(* The histories that a run can have: it inspects or it does not, writes,  *)
(* and verifies or does not.                                               *)
One == <<Observed(Diag!InitialDocument)>>
Two == <<Observed(Diag!InitialDocument), Wrote>>
Three == <<Observed(Diag!InitialDocument), Wrote, Observed(New)>>
Blind == <<Wrote>>
Checked == <<Wrote, Observed(New)>>

(* The histories without a write, and those with one.                      *)
Untouched(h) ==
  h = <<>> \/ (Calm /\ Inspecting /\ h = One)
Touched(h) ==
  /\ Calm
  /\ \/ Inspecting /\ ~Diag!InitialDocument.protected /\ h = Two
     \/ Inspecting /\ CanWrite /\ Verifying /\ h = Three
     \/ ~Inspecting /\ h = Blind
     \/ ~Inspecting /\ CanWrite /\ Verifying /\ h = Checked

(* LocalDocumentEnvironment.reset: the target is absent, or protected.     *)
LEMMA Documents ==
  /\ Diag!InitialDocument.protected \in BOOLEAN /\ Diag!InitialDocument.content # "new"
  /\ Diag!Expected = "blocked" => Diag!InitialDocument.protected
  /\ Diag!Expected # "blocked" => (Diag!InitialDocument.protected <=> Diag!Conflict)
  /\ Diag!InitialDocument.protected => Diag!Exists(Diag!InitialDocument)
  /\ New.content = "new" /\ ~New.protected /\ Diag!Exists(New) /\ CanWrite \in BOOLEAN
BY DEF Diag!InitialDocument, Diag!NoDocument, Diag!Exists, New, CanWrite

(* Short sequences grow by one.                                            *)
LEMMA Appending ==
  ASSUME NEW a, NEW b, NEW c
  PROVE  /\ Append(<<>>, a) = <<a>> /\ Append(<<a>>, b) = <<a, b>>
         /\ Append(<<a, b>>, c) = <<a, b, c>>
         /\ Len(<<>>) = 0 /\ Len(<<a>>) = 1 /\ Len(<<a, b>>) = 2 /\ Len(<<a, b, c>>) = 3
         /\ <<a>>[1] = a /\ <<a, b>>[1] = a /\ <<a, b>>[2] = b
         /\ <<a, b, c>>[1] = a /\ <<a, b, c>>[2] = b /\ <<a, b, c>>[3] = c
         /\ <<a>> # <<>> /\ <<a, b>> # <<>> /\ <<a, b, c>> # <<>>
         /\ <<a>> \in Seq({a}) /\ <<a, b>> \in Seq({a, b}) /\ <<a, b, c>> \in Seq({a, b, c})
<1> DEFINE S == {a, b, c}
<1>0. <<>> \in Seq(S) /\ <<a>> \in Seq(S) /\ <<a, b>> \in Seq(S) /\ <<a, b, c>> \in Seq(S)
  OBVIOUS
<1>a. /\ Len(<<>>) = 0 /\ Len(<<a>>) = 1 /\ Len(<<a, b>>) = 2 /\ Len(<<a, b, c>>) = 3
      /\ <<a>>[1] = a /\ <<a, b>>[1] = a /\ <<a, b>>[2] = b
      /\ <<a, b, c>>[1] = a /\ <<a, b, c>>[2] = b /\ <<a, b, c>>[3] = c
      /\ \A i \in 1 .. 1 : i = 1
      /\ \A i \in 1 .. 2 : i = 1 \/ i = 2
      /\ \A i \in 1 .. 3 : i = 1 \/ i = 2 \/ i = 3
  OBVIOUS
<1>1. Append(<<>>, a) = <<a>>
  <2>1. /\ Append(<<>>, a) \in Seq(S) /\ Len(Append(<<>>, a)) = 1
        /\ Append(<<>>, a)[1] = a
    BY <1>0, <1>a, AppendProperties
  <2> QED BY <1>0, <1>a, <2>1, SeqEqual
<1>2. Append(<<a>>, b) = <<a, b>>
  <2>1. /\ Append(<<a>>, b) \in Seq(S) /\ Len(Append(<<a>>, b)) = 2
        /\ Append(<<a>>, b)[1] = a /\ Append(<<a>>, b)[2] = b
    BY <1>0, <1>a, AppendProperties
  <2> QED BY <1>0, <1>a, <2>1, SeqEqual
<1>3. Append(<<a, b>>, c) = <<a, b, c>>
  <2>1. /\ Append(<<a, b>>, c) \in Seq(S) /\ Len(Append(<<a, b>>, c)) = 3
        /\ Append(<<a, b>>, c)[1] = a /\ Append(<<a, b>>, c)[2] = b /\ Append(<<a, b>>, c)[3] = c
    BY <1>0, <1>a, AppendProperties
  <2> QED BY <1>0, <1>a, <2>1, SeqEqual
<1> QED BY <1>1, <1>2, <1>3

(* How long the histories are, and what they hold.                         *)
LEMMA Lengths ==
  /\ Len(<<>>) = 0 /\ Len(One) = 1 /\ Len(Two) = 2 /\ Len(Three) = 3
  /\ Len(Blind) = 1 /\ Len(Checked) = 2
  /\ One[1] = Observed(Diag!InitialDocument)
  /\ Two[1] = Observed(Diag!InitialDocument) /\ Two[2] = Wrote
  /\ Three[1] = Observed(Diag!InitialDocument) /\ Three[2] = Wrote /\ Three[3] = Observed(New)
  /\ Blind[1] = Wrote /\ Checked[1] = Wrote /\ Checked[2] = Observed(New)
  /\ One # <<>> /\ Two # <<>> /\ Three # <<>> /\ Blind # <<>> /\ Checked # <<>>
  /\ Append(<<>>, Observed(Diag!InitialDocument)) = One /\ Append(One, Wrote) = Two
  /\ Append(Two, Observed(New)) = Three
  /\ Append(<<>>, Wrote) = Blind /\ Append(Blind, Observed(New)) = Checked
<1> DEFINE d == Observed(Diag!InitialDocument)
           e == Observed(New)
<1>1. One = <<d>> /\ Two = <<d, Wrote>> /\ Three = <<d, Wrote, e>> /\ Blind = <<Wrote>>
      /\ Checked = <<Wrote, e>>
  BY DEF One, Two, Three, Blind, Checked
<1> HIDE DEF d, e
<1>2. /\ Append(<<>>, d) = One /\ Append(One, Wrote) = Two /\ Append(Two, e) = Three
      /\ Append(<<>>, Wrote) = Blind /\ Append(Blind, e) = Checked
  BY <1>1, Appending
<1>3. /\ Len(<<>>) = 0 /\ Len(One) = 1 /\ Len(Two) = 2 /\ Len(Three) = 3
      /\ Len(Blind) = 1 /\ Len(Checked) = 2
      /\ One # <<>> /\ Two # <<>> /\ Three # <<>> /\ Blind # <<>> /\ Checked # <<>>
  BY <1>1, Appending
<1>4. /\ One[1] = d /\ Two[1] = d /\ Two[2] = Wrote
      /\ Three[1] = d /\ Three[2] = Wrote /\ Three[3] = e
      /\ Blind[1] = Wrote /\ Checked[1] = Wrote /\ Checked[2] = e
  BY <1>1, Appending
<1> QED BY <1>2, <1>3, <1>4 DEF d, e

(* DocumentSkillPolicy.next_action after each of the histories.            *)
LEMMA NextActions ==
  /\ Calm => /\ Diag!DocumentPolicy(<<>>) = Diag!Call(IF Inspecting THEN "read" ELSE "write")
             /\ Diag!DocumentPolicy(One) = IF Diag!InitialDocument.protected
                                           THEN Diag!Finish("blocked", FALSE)
                                           ELSE Diag!Call("write")
  /\ \A h \in {Two, Blind} :
       Diag!DocumentPolicy(h) = IF ~CanWrite THEN Diag!Finish("failed", FALSE)
                                ELSE IF Verifying THEN Diag!Call("read")
                                ELSE Diag!Finish("completed", FALSE)
  /\ \A h \in {Three, Checked} : Diag!DocumentPolicy(h) = Diag!Finish("completed", TRUE)
<1>1. Diag!DocumentPolicy(<<>>) = Diag!Call(IF Inspecting THEN "read" ELSE "write")
  BY DEF Diag!DocumentPolicy, Inspecting
<1>2. Diag!DocumentPolicy(One) = IF Diag!InitialDocument.protected
                               THEN Diag!Finish("blocked", FALSE) ELSE Diag!Call("write")
  <2>1. Diag!Last(One) = Observed(Diag!InitialDocument)
    BY Lengths DEF Diag!Last
  <2>2. Diag!DocumentPolicy(One) = Diag!AfterRead(One)
    BY <2>1, Lengths DEF Diag!DocumentPolicy, Observed
  <2>3. Len(One) = 1 /\ Diag!Last(One).ok = TRUE /\ Diag!Last(One).doc = Diag!InitialDocument
    BY <2>1, Lengths DEF Observed
  <2>4. Diag!AfterRead(One) =
          CASE ~Diag!Last(One).ok -> Diag!Finish("failed", FALSE)
            [] Diag!Last(One).ok /\ Diag!Exists(Diag!Last(One).doc)
            /\ Diag!Last(One).doc.protected -> Diag!Finish("blocked", FALSE)
            [] OTHER -> Diag!Call("write")
    BY <2>3 DEF Diag!AfterRead
  <2>5. CASE Diag!InitialDocument.protected
    BY <2>2, <2>3, <2>4, <2>5, Documents
  <2>6. CASE ~Diag!InitialDocument.protected
    BY <2>2, <2>3, <2>4, <2>6, Documents
  <2> QED BY <2>5, <2>6
<1>3. ASSUME NEW h \in {Two, Blind}
      PROVE  Diag!DocumentPolicy(h) = IF ~CanWrite THEN Diag!Finish("failed", FALSE)
                                      ELSE IF Verifying THEN Diag!Call("read")
                                      ELSE Diag!Finish("completed", FALSE)
  <2>1. Diag!Last(h) = Wrote /\ h # <<>>
    BY Lengths DEF Diag!Last
  <2>2. Diag!DocumentPolicy(h) = Diag!AfterWrite(h)
    BY <2>1 DEF Diag!DocumentPolicy, Wrote
  <2>3. Diag!Last(h).ok = CanWrite
    BY <2>1 DEF Wrote
  <2> QED BY <2>2, <2>3, Documents DEF Diag!AfterWrite, Verifying
<1>4. ASSUME NEW h \in {Three, Checked}
      PROVE  Diag!DocumentPolicy(h) = Diag!Finish("completed", TRUE)
  <2>1. Diag!Last(h) = Observed(New) /\ h # <<>> /\ Len(h) >= 2 /\ h[Len(h) - 1] = Wrote
    <3>1. CASE h = Three BY <3>1, Lengths DEF Diag!Last
    <3>2. CASE h = Checked BY <3>2, Lengths DEF Diag!Last
    <3> QED BY <3>1, <3>2
  <2>2. Diag!DocumentPolicy(h) = Diag!AfterRead(h)
    BY <2>1 DEF Diag!DocumentPolicy, Observed
  <2>3. Diag!Last(h).ok /\ Diag!Last(h).doc = New /\ h[Len(h) - 1].tool = "write"
    BY <2>1 DEF Observed, Wrote
  <2> QED BY <2>1, <2>2, <2>3, Documents DEF Diag!AfterRead
<1> QED BY <1>1, <1>2, <1>3, <1>4
-----------------------------------------------------------------------------
(* close: nothing is left of an earlier run.                               *)
Fresh ==
  /\ initial = Diag!NoDocument /\ doc = Diag!NoDocument /\ attempted = FALSE
  /\ history = <<>> /\ steps = 0 /\ limit = "none" /\ output = Diag!Finish("none", FALSE)

(* A run has one of the histories, and the documents that go with it.      *)
Episode ==
  /\ initial = Diag!InitialDocument
  /\ \/ Untouched(history) /\ attempted = FALSE /\ doc = Diag!InitialDocument
     \/ Touched(history) /\ attempted = TRUE /\ doc = Left
  /\ Len(history) <= scenario.calls

(* Why a run ended: a limit, or the policy has concluded from this history.*)
Outcome ==
  \/ limit = "wall_time"
  \/ limit = "steps" /\ Len(history) = scenario.steps
  \/ limit = "tool_calls" /\ Len(history) >= scenario.calls /\ Diag!NextAction.do # "finish"
  \/ /\ limit = "none" /\ Len(history) < scenario.steps
     /\ output = Diag!NextAction /\ Diag!NextAction.do = "finish"

(* The invariant of one run.                                               *)
EpisodeInv ==
  /\ pc \in {"reset", "step", "verify", "attribute", "done", "refused"}
  /\ pc \notin {"step", "verify"} => Fresh
  /\ pc \in {"step", "verify"} => Episode
  /\ pc = "step" => /\ steps = Len(history) /\ steps <= scenario.steps
                    /\ limit = "none" /\ output = Diag!Finish("none", FALSE)
  /\ pc = "verify" => Outcome /\ steps \in Nat /\ steps <= scenario.steps

(* A history has at most three results.                                    *)
LEMMA Shapes ==
  ASSUME Episode
  PROVE  history \in {<<>>, One, Two, Three, Blind, Checked} /\ Len(history) \in Nat
<1>1. history \in {<<>>, One, Two, Three, Blind, Checked}
  BY DEF Episode, Untouched, Touched
<1> QED BY <1>1, Lengths

(* The scenario under an intervention does not change while it runs.       *)
LEMMA SameRules ==
  ASSUME UNCHANGED <<scenario, at>>, trace[Diag!Baseline]' = trace[Diag!Baseline]
  PROVE  /\ Diag!Rules' = Diag!Rules /\ Diag!InitialDocument' = Diag!InitialDocument
         /\ Calm' <=> Calm
         /\ CanWrite' = CanWrite /\ Left' = Left /\ Wrote' = Wrote
         /\ One' = One /\ Two' = Two /\ Three' = Three /\ Blind' = Blind /\ Checked' = Checked
         /\ Inspecting' <=> Inspecting
         /\ Verifying' <=> Verifying
         /\ Diag!Expected' = Diag!Expected
         /\ \A h : Diag!DocumentPolicy(h)' = Diag!DocumentPolicy(h)
         /\ \A l : Diag!Active(l)' <=> Diag!Active(l)
<1>1. Diag!Intervention' = Diag!Intervention
  BY DEF Diag!Intervention
<1>2. \A l : Diag!Active(l)' <=> Diag!Active(l)
  BY <1>1 DEF Diag!Active
<1>3. Diag!Rules' = Diag!Rules
  BY <1>1 DEF Diag!Rules, Diag!MatrixRules, Diag!LocalRules
<1>4. Diag!Expected' = Diag!Expected
  BY DEF Diag!Expected
<1>5. Diag!Conflict' <=> Diag!Conflict
  BY <1>2 DEF Diag!Conflict
<1>6. Diag!InitialDocument' = Diag!InitialDocument
  BY <1>4, <1>5 DEF Diag!InitialDocument
<1>7. CanWrite' = CanWrite
  BY <1>2, <1>6 DEF CanWrite
<1>8. Left' = Left /\ Wrote' = Wrote
  BY <1>6, <1>7 DEF Left, Wrote
<1>9. One' = One /\ Two' = Two /\ Three' = Three /\ Blind' = Blind /\ Checked' = Checked
  BY <1>6, <1>8 DEF One, Two, Three, Blind, Checked
<1>10. (Inspecting' <=> Inspecting) /\ (Verifying' <=> Verifying) /\ (Calm' <=> Calm)
  BY <1>2, <1>3 DEF Inspecting, Verifying, Calm
<1>11. \A h : Diag!DocumentPolicy(h)' = Diag!DocumentPolicy(h)
  BY <1>3 DEF Diag!DocumentPolicy, Diag!AfterRead, Diag!AfterWrite
<1> QED BY <1>2, <1>3, <1>4, <1>6, <1>7, <1>8, <1>9, <1>10, <1>11

(* A step without a call changes nothing of a history.                     *)
LEMMA EpisodeStays ==
  ASSUME Episode, UNCHANGED <<scenario, at, trace, initial, doc, attempted, history>>
  PROVE  Episode' /\ Diag!NextAction' = Diag!NextAction
<1>1. Episode'
  BY SameRules DEF Episode, Untouched, Touched
<1>2. Diag!Active("model")' = Diag!Active("model")
      /\ Diag!Active("context")' = Diag!Active("context")
  BY DEF Diag!Active, Diag!Intervention
<1>3. Diag!DocumentPolicy(history)' = Diag!DocumentPolicy(history)
  BY SameRules
<1> QED BY <1>1, <1>2, <1>3 DEF Diag!NextAction

(* A call takes a run from one history to the next.                        *)
LEMMA ToolIsUsed ==
  ASSUME Episode, Diag!NextAction.do # "finish", Diag!Execute, Setting, Diag!RuntimeAssumption
  PROVE  Episode' /\ Len(history') = Len(history) + 1 /\ Len(history') \in Nat
<1>1. Calm /\ Diag!NextAction = Diag!DocumentPolicy(history)
  BY DEF Diag!NextAction, Calm, Diag!Finish
<1> DEFINE tool == Diag!NextAction.do
<1>2. /\ history' = Append(history, Diag!ResultOf(tool))
      /\ attempted' = (attempted \/ tool = "write")
      /\ doc' = (IF tool = "write" THEN Diag!Written ELSE doc)
      /\ initial' = initial
      /\ Len(history) < scenario.calls
      /\ UNCHANGED <<scenario, at, trace>>
  BY DEF Diag!Execute, Diag!Unchanged
<1>3. /\ Diag!ResultOf("read") = Observed(doc)
      /\ doc = Diag!InitialDocument => Diag!ResultOf("write") = Wrote /\ Diag!Written = Left
  <2>1. Diag!ResultOf("read") = Observed(doc)
    BY DEF Diag!ResultOf, Observed
  <2>2. ASSUME doc = Diag!InitialDocument PROVE Diag!ResultOf("write") = Wrote
               /\ Diag!Written = Left
    <3>1. Diag!WriteSucceeds = CanWrite
      BY <2>2 DEF Diag!WriteSucceeds, CanWrite
    <3>2. ("write" = "read" \/ Diag!WriteSucceeds) = CanWrite
      BY <3>1, Documents
    <3>3. Diag!ResultOf("write") = Wrote
      BY <3>2 DEF Diag!ResultOf, Wrote
    <3>4. Diag!Written = Left
      <4>1. CASE CanWrite
        BY <4>1, <3>1, <2>2, Documents DEF Diag!Written, Left, New, CanWrite
      <4>2. CASE ~CanWrite
        BY <4>2, <3>1, <2>2 DEF Diag!Written, Left
      <4> QED BY <4>1, <4>2
    <3> QED BY <3>3, <3>4
  <2> QED BY <2>1, <2>2
<1>4. /\ Len(history') = Len(history) + 1
      /\ \/ history = <<>> /\ ~attempted /\ Inspecting /\ tool = "read" /\ history' = One
         \/ history = <<>> /\ ~attempted /\ ~Inspecting /\ tool = "write" /\ history' = Blind
         \/ /\ history = One /\ ~attempted /\ Inspecting /\ tool = "write" /\ history' = Two
            /\ ~Diag!InitialDocument.protected
         \/ /\ history = Two /\ attempted /\ Inspecting /\ tool = "read" /\ history' = Three
            /\ CanWrite /\ Verifying
         \/ /\ history = Blind /\ attempted /\ ~Inspecting /\ tool = "read" /\ history' = Checked
            /\ CanWrite /\ Verifying
  <2>1. CASE history = <<>>
    <3>1. tool = IF Inspecting THEN "read" ELSE "write"
      BY <1>1, <2>1, NextActions DEF Diag!Call
    <3>2. ~attempted /\ doc = Diag!InitialDocument
      BY <2>1, Lengths DEF Episode, Touched
    <3> QED BY <2>1, <3>1, <3>2, <1>2, <1>3, Lengths
  <2>2. CASE history = One
    <3>1. tool = "write" /\ ~Diag!InitialDocument.protected
      BY <1>1, <2>2, NextActions DEF Diag!Call, Diag!Finish
    <3>2. One # Blind
      BY Lengths DEF Observed, Wrote
    <3>3. ~attempted /\ doc = Diag!InitialDocument /\ Inspecting
      BY <2>2, <3>2, Lengths DEF Episode, Touched, Untouched
    <3> QED BY <2>2, <3>1, <3>3, <1>2, <1>3, Lengths
  <2>3. CASE history = Two
    <3>1. tool = "read" /\ CanWrite /\ Verifying
      BY <1>1, <2>3, NextActions DEF Diag!Call, Diag!Finish
    <3>2. Two # Checked
      BY Lengths DEF Observed, Wrote
    <3>3. attempted /\ doc = New /\ Inspecting
      BY <2>3, <3>1, <3>2, Lengths DEF Episode, Touched, Untouched, Left
    <3> QED BY <2>3, <3>1, <3>3, <1>2, <1>3, Lengths
  <2>4. CASE history = Blind
    <3>1. tool = "read" /\ CanWrite /\ Verifying
      BY <1>1, <2>4, NextActions DEF Diag!Call, Diag!Finish
    <3>2. One # Blind
      BY Lengths DEF Observed, Wrote
    <3>3. attempted /\ doc = New /\ ~Inspecting
      BY <2>4, <3>1, <3>2, Lengths DEF Episode, Touched, Untouched, Left
    <3> QED BY <2>4, <3>1, <3>3, <1>2, <1>3, Lengths
  <2>5. history \notin {Three, Checked}
    BY <1>1, NextActions DEF Diag!Finish
  <2> QED BY <2>1, <2>2, <2>3, <2>4, <2>5, Shapes
<1>5. Len(history') \in Nat /\ Len(history') <= scenario.calls
  BY <1>2, <1>4, Shapes, SettingFacts
<1>6. doc = Diag!InitialDocument \/ (attempted /\ doc = Left)
  BY DEF Episode
<1>7. \/ Untouched(history') /\ attempted' = FALSE /\ doc' = Diag!InitialDocument
      \/ Touched(history') /\ attempted' = TRUE /\ doc' = Left
  <2>1. ~attempted => doc = Diag!InitialDocument
    BY <1>6 DEF Episode
  <2>2. attempted => doc = Left
    BY DEF Episode
  <2>3. attempted \in BOOLEAN
    BY DEF Episode
  <2> QED BY <1>1, <1>2, <1>3, <1>4, <2>1, <2>2, <2>3 DEF Untouched, Touched
<1>8. (Untouched(history') <=> Untouched(history)') /\ (Touched(history') <=> Touched(history)')
  BY <1>2, SameRules DEF Untouched, Touched
<1> QED BY <1>2, <1>4, <1>5, <1>7, <1>8, SameRules DEF Episode
(* A run that ended leaves nothing to the next.                            *)
LEMMA EndedIsFresh ==
  ASSUME NEW verdict, Diag!Ended(verdict)
  PROVE  Fresh' /\ pc' \in {"reset", "attribute", "refused"}
BY DEF Diag!Ended, Diag!Close, Fresh

(* Every step preserves the invariant of one run.                          *)
LEMMA EpisodeStep ==
  ASSUME Diag!RuntimeAssumption, Setting, EpisodeInv, [Diag!Next]_(Diag!vars)
  PROVE  EpisodeInv'
<1>0. pc \in {"step", "verify"} => Len(history) \in Nat
  BY Shapes DEF EpisodeInv
<1>1. CASE Diag!Reset
  <2>1. /\ pc' = "step" /\ initial' = Diag!InitialDocument /\ doc' = Diag!InitialDocument
        /\ history' = <<>> /\ steps' = 0 /\ limit' = "none"
           /\ output' = Diag!Finish("none", FALSE)
        /\ attempted' = FALSE /\ UNCHANGED <<scenario, at, trace>>
    BY <1>1 DEF Diag!Reset, Diag!Unchanged, EpisodeInv, Fresh
  <2>2. Len(history') = 0 /\ scenario.calls \in Nat /\ scenario.steps \in Nat
    BY <2>1, Lengths, SettingFacts
  <2>3. Episode'
    BY <2>1, <2>2, SameRules DEF Episode, Untouched
  <2> QED BY <2>1, <2>2, <2>3 DEF EpisodeInv
<1>2. CASE Diag!OutOfTime
  <2>1. /\ pc' = "verify" /\ limit' = "wall_time"
        /\ UNCHANGED <<scenario, at, trace, initial, doc, attempted, history>>
        /\ steps' \in {steps + 0, steps + 1} /\ steps < scenario.steps
        /\ Episode /\ steps = Len(history)
    BY <1>2 DEF Diag!OutOfTime, Diag!Break, Diag!Unchanged, EpisodeInv
  <2>2. steps' \in Nat /\ steps' <= scenario.steps
    BY <2>1, Shapes, SettingFacts
  <2> QED BY <2>1, <2>2, EpisodeStays DEF EpisodeInv, Outcome
<1>3. CASE Diag!OutOfSteps
  <2>1. /\ pc' = "verify" /\ limit' = "steps"
        /\ UNCHANGED <<scenario, at, trace, initial, doc, attempted, history, steps>>
        /\ steps = scenario.steps
        /\ Episode /\ steps = Len(history)
    BY <1>3 DEF Diag!OutOfSteps, Diag!Break, Diag!Unchanged, EpisodeInv
  <2>2. steps' \in Nat /\ steps' <= scenario.steps
    BY <2>1, Shapes, SettingFacts
  <2> QED BY <2>1, <2>2, EpisodeStays DEF EpisodeInv, Outcome
<1>4. CASE Diag!Conclude
  <2>1. /\ pc' = "verify" /\ limit' = "none" /\ output' = Diag!NextAction
           /\ Diag!NextAction.do = "finish"
        /\ UNCHANGED <<scenario, at, trace, initial, doc, attempted, history>>
        /\ steps' = steps + 1 /\ steps < scenario.steps
        /\ Episode /\ steps = Len(history)
    BY <1>4 DEF Diag!Conclude, Diag!Unchanged, EpisodeInv
  <2>2. steps' \in Nat /\ steps' <= scenario.steps
    BY <2>1, Shapes, SettingFacts
  <2>3. Diag!NextAction' = Diag!NextAction /\ Episode'
    BY <2>1, EpisodeStays
  <2> QED BY <2>1, <2>2, <2>3 DEF EpisodeInv, Outcome
<1>5. CASE Diag!OutOfCalls
  <2>1. /\ pc' = "verify" /\ limit' = "tool_calls" /\ Diag!NextAction.do # "finish"
        /\ UNCHANGED <<scenario, at, trace, initial, doc, attempted, history>>
        /\ steps' = steps + 1 /\ steps < scenario.steps /\ Len(history) >= scenario.calls
        /\ Episode /\ steps = Len(history)
    BY <1>5 DEF Diag!OutOfCalls, Diag!Break, Diag!Unchanged, EpisodeInv
  <2>2. steps' \in Nat /\ steps' <= scenario.steps
    BY <2>1, Shapes, SettingFacts
  <2>3. Diag!NextAction' = Diag!NextAction /\ Episode'
    BY <2>1, EpisodeStays
  <2> QED BY <2>1, <2>2, <2>3 DEF EpisodeInv, Outcome
<1>6. CASE Diag!Execute
  <2>1. /\ Episode /\ steps = Len(history) /\ Diag!NextAction.do # "finish" /\ pc = "step"
        /\ steps < scenario.steps /\ steps' = steps + 1 /\ UNCHANGED <<output, scenario>>
        /\ limit = "none" /\ output = Diag!Finish("none", FALSE)
        /\ (pc' = "verify" /\ limit' = "wall_time") \/ UNCHANGED <<pc, limit>>
    BY <1>6 DEF Diag!Execute, Diag!Break, Diag!Unchanged, EpisodeInv
  <2>2. Episode' /\ Len(history') = Len(history) + 1 /\ Len(history') \in Nat
    BY <1>6, <2>1, ToolIsUsed
  <2>3. steps' \in Nat /\ steps' <= scenario.steps /\ steps' = Len(history')
    BY <2>1, <2>2, Shapes, SettingFacts
  <2> QED BY <2>1, <2>2, <2>3 DEF EpisodeInv, Outcome
<1>7. CASE Diag!Verify
  BY <1>7, EndedIsFresh DEF Diag!Verify, EpisodeInv
<1>8. CASE Diag!Raise
  BY <1>8, EndedIsFresh DEF Diag!Raise, EpisodeInv
<1>9. CASE Diag!Attribute
  BY <1>9 DEF Diag!Attribute, EpisodeInv, Fresh, Diag!episodeVars
<1>10. CASE UNCHANGED Diag!vars
  <2>1. UNCHANGED <<scenario, at, trace, initial, doc, attempted, history,
          pc, steps, limit, output>>
    BY <1>10 DEF Diag!vars, Diag!episodeVars
  <2>2. pc \in {"step", "verify"} => Episode' /\ Diag!NextAction' = Diag!NextAction
    BY <2>1, EpisodeStays DEF EpisodeInv
  <2> QED BY <2>1, <2>2 DEF EpisodeInv, Fresh, Outcome
<1> QED BY <1>1, <1>2, <1>3, <1>4, <1>5, <1>6, <1>7, <1>8, <1>9, <1>10 DEF Diag!Next
-----------------------------------------------------------------------------
(* How many calls the rules take to do the task.                           *)
Needs == IF Inspecting THEN 3 ELSE 2
(* What becomes of a run that is not cut short, without running it.        *)
Succeeds ==
  /\ ~Diag!Active("verifier") /\ Calm
  /\ IF Diag!Expected = "blocked"
     THEN Inspecting /\ scenario.calls >= 1 /\ scenario.steps >= 2
     ELSE CanWrite /\ Verifying /\ scenario.calls >= Needs /\ scenario.steps > Needs

(* DocumentTaskVerifier.verify comes to that, unless the clock or an error *)
(* cut the run short.                                                      *)
LEMMA VerdictIsSo ==
  ASSUME Diag!RuntimeAssumption, Setting, EpisodeInv, pc = "verify"
  PROVE  /\ Diag!Verdict \in {"cut", "passed", "failed", "missing_skill_rule"}
         /\ Diag!Verdict = "cut" \/ (Diag!Verdict = "passed" <=> Succeeds)
         /\ Diag!Verdict = "passed" =>
              /\ limit = "none"
              /\ IF Diag!Expected = "blocked" THEN doc = initial
                 /\ ~attempted ELSE doc.content = "new"
<1>0. /\ Episode /\ Outcome /\ scenario.steps \in Nat /\ scenario.calls \in Nat
      /\ history \in {<<>>, One, Two, Three, Blind, Checked} /\ Len(history) \in Nat
  BY Shapes, SettingFacts DEF EpisodeInv
<1>1. /\ Diag!Verdict \in {"cut", "passed", "failed", "missing_skill_rule"}
      /\ Diag!Verdict = "passed" =>
              /\ limit = "none"
              /\ IF Diag!Expected = "blocked" THEN doc = initial
                 /\ ~attempted ELSE doc.content = "new"
  <2>1. Diag!Verdict = "passed" =>
              /\ limit = "none"
              /\ IF Diag!Expected = "blocked" THEN doc = initial
                 /\ ~attempted ELSE doc.content = "new"
    BY <1>0
       DEF Diag!Verdict, Diag!ReferenceVerdict, Diag!VerdictBlocked, Diag!VerdictCompleted,
           Diag!AttemptedWrite, Outcome
  <2>2. Diag!Verdict \in {"cut", "passed", "failed", "missing_skill_rule"}
    BY <1>0
       DEF Diag!Verdict, Diag!ReferenceVerdict, Diag!VerdictBlocked, Diag!VerdictCompleted,
           Outcome
  <2> QED BY <2>1, <2>2
<1>2. CASE Diag!Active("verifier")
  BY <1>2 DEF Diag!Verdict, Succeeds
<1>3. CASE ~Diag!Active("verifier") /\ ~Calm
  <2>1. /\ history = <<>> /\ Diag!NextAction.do = "finish" /\ Diag!NextAction.status # "blocked"
        /\ ~Diag!NextAction.verified
    BY <1>0, <1>3 DEF Diag!NextAction, Calm, Diag!Finish, Episode, Untouched, Touched
  <2>2. limit # "none" => limit \in {"wall_time", "steps"}
    BY <1>0, <2>1 DEF Outcome
  <2>3. limit = "none" => Diag!Verdict # "passed"
    BY <1>0, <2>1
       DEF Outcome, Diag!Verdict, Diag!ReferenceVerdict, Diag!VerdictBlocked,
           Diag!VerdictCompleted
  <2>4. Diag!Verdict # "passed" /\ ~Succeeds
    BY <1>3, <2>2, <2>3 DEF Diag!Verdict, Diag!ReferenceVerdict, Succeeds
  <2> QED BY <1>1, <2>4
<1>4. CASE ~Diag!Active("verifier") /\ Calm /\ limit = "wall_time"
  BY <1>4 DEF Diag!Verdict, Diag!ReferenceVerdict
<1> DEFINE Full ==
      IF Diag!Expected = "blocked" THEN history = One ELSE history \in {Three, Checked}
<1>5. CASE ~Diag!Active("verifier") /\ Calm /\ limit # "wall_time"
  <2>0. Diag!Verdict = Diag!ReferenceVerdict /\ Diag!NextAction = Diag!DocumentPolicy(history)
    BY <1>5 DEF Diag!Verdict, Diag!NextAction, Calm
  <2>1. Succeeds => limit = "none" /\ Full
    <3> SUFFICES ASSUME Succeeds PROVE limit = "none" /\ Full
      OBVIOUS
    <3>1. CASE Diag!Expected = "blocked"
      <4>1. Inspecting /\ scenario.calls >= 1 /\ scenario.steps >= 2
            /\ Diag!InitialDocument.protected
        BY <3>1, Documents DEF Succeeds
      <4>2. ~CanWrite /\ history \in {<<>>, One}
        BY <1>0, <4>1 DEF Episode, Untouched, Touched, CanWrite
      <4>3. history = One => Diag!NextAction.do = "finish"
        BY <2>0, <1>5, <4>1, NextActions DEF Diag!Finish
      <4>4. history = <<>> => Diag!NextAction.do # "finish"
        BY <2>0, <1>5, <4>1, NextActions DEF Diag!Call
      <4> QED BY <1>0, <1>5, <3>1, <4>1, <4>2, <4>3, <4>4, Lengths DEF Outcome
    <3>2. CASE Diag!Expected # "blocked"
      <4>1. CanWrite /\ Verifying /\ ~Diag!InitialDocument.protected
        BY <3>2 DEF Succeeds, CanWrite
      <4>2. CASE Inspecting
        <5>1. scenario.calls >= 3 /\ scenario.steps > 3
          BY <3>2, <4>2 DEF Succeeds, Needs
        <5>2. history \in {<<>>, One, Two, Three}
          BY <1>0, <4>2 DEF Episode, Untouched, Touched
        <5>3. history = Three => Diag!NextAction.do = "finish"
          BY <2>0, NextActions DEF Diag!Finish
        <5>4. history \in {<<>>, One, Two} => Diag!NextAction.do # "finish"
          BY <2>0, <1>5, <4>1, <4>2, NextActions DEF Diag!Call
        <5>5. Len(history) <= 3 /\ (Len(history) >= 3 => history = Three)
          <6>1. CASE history = <<>>
            BY <6>1, Lengths
          <6>2. CASE history = One
            BY <6>2, Lengths
          <6>3. CASE history = Two
            BY <6>3, Lengths
          <6>4. CASE history = Three
            BY <6>4, Lengths
          <6> QED BY <5>2, <6>1, <6>2, <6>3, <6>4
        <5>6. limit # "steps" \/ Len(history) # scenario.steps
          BY <1>0, <5>1, <5>5
        <5>7. Len(history) >= scenario.calls => Diag!NextAction.do = "finish"
          BY <1>0, <5>1, <5>3, <5>5
        <5>8. limit = "none"
          BY <1>0, <1>5, <5>6, <5>7 DEF Outcome
        <5> QED BY <1>0, <3>2, <5>2, <5>4, <5>8 DEF Outcome
      <4>3. CASE ~Inspecting
        <5>1. scenario.calls >= 2 /\ scenario.steps > 2
          BY <3>2, <4>3 DEF Succeeds, Needs
        <5>2. history \in {<<>>, Blind, Checked}
          BY <1>0, <4>3 DEF Episode, Untouched, Touched
        <5>3. history = Checked => Diag!NextAction.do = "finish"
          BY <2>0, NextActions DEF Diag!Finish
        <5>4. history \in {<<>>, Blind} => Diag!NextAction.do # "finish"
          BY <2>0, <1>5, <4>1, <4>3, NextActions DEF Diag!Call
        <5> QED BY <1>0, <1>5, <3>2, <5>1, <5>2, <5>3, <5>4, Lengths DEF Outcome
      <4> QED BY <4>2, <4>3
    <3> QED BY <3>1, <3>2
  <2>2. Diag!Verdict = "passed" => limit = "none" /\ Full
    <3> SUFFICES ASSUME Diag!Verdict = "passed" PROVE limit = "none" /\ Full
      OBVIOUS
    <3>1. limit = "none" /\ output = Diag!NextAction /\ Diag!NextAction.do = "finish"
      BY <1>0, <1>1 DEF Outcome
    <3>2. CASE Diag!Expected = "blocked"
      <4>1. output.status = "blocked"
        BY <3>1, <3>2, <2>0 DEF Diag!ReferenceVerdict, Diag!VerdictBlocked
      <4>2. history \notin {<<>>, Two, Three, Blind, Checked}
        BY <3>1, <4>1, <2>0, <1>5, NextActions DEF Diag!Finish, Diag!Call
      <4> QED BY <1>0, <3>1, <3>2, <4>2
    <3>3. CASE Diag!Expected # "blocked"
      <4>1. output.status = "completed" /\ output.verified
        BY <3>1, <3>3, <2>0 DEF Diag!ReferenceVerdict, Diag!VerdictCompleted
      <4>2. history \notin {<<>>, One, Two, Blind}
        BY <3>1, <4>1, <2>0, <1>5, NextActions DEF Diag!Finish, Diag!Call
      <4> QED BY <1>0, <3>1, <3>3, <4>2
    <3> QED BY <3>2, <3>3
  <2>3. ASSUME limit = "none", Full PROVE Diag!Verdict = "passed" /\ Succeeds
    <3>1. output = Diag!NextAction /\ Diag!NextAction.do = "finish"
          /\ Len(history) < scenario.steps
          /\ Len(history) <= scenario.calls
      BY <1>0, <2>3 DEF Outcome, Episode
    <3>2. CASE Diag!Expected = "blocked"
      <4>1. history = One /\ One # Blind /\ Diag!InitialDocument.protected
        BY <2>3, <3>2, Lengths, Documents DEF Observed, Wrote
      <4>2. Inspecting /\ ~attempted /\ doc = Diag!InitialDocument
            /\ initial = Diag!InitialDocument
        BY <1>0, <4>1, Lengths DEF Episode, Untouched, Touched
      <4>3. Diag!Calls("write") = {} /\ Diag!Calls("read") # {}
        <5>1. DOMAIN One = {1} /\ One[1].tool = "read"
          BY Lengths DEF One, Observed
        <5> QED BY <4>1, <5>1 DEF Diag!Calls
      <4>4. output.status = "blocked"
        BY <2>0, <3>1, <4>1, <1>5, NextActions DEF Diag!Finish
      <4>5. Diag!ReferenceVerdict = "passed"
        BY <2>3, <3>2, <4>1, <4>2, <4>3, <4>4
           DEF Diag!ReferenceVerdict, Diag!VerdictBlocked, Diag!AttemptedWrite
      <4>6. scenario.calls >= 1 /\ scenario.steps >= 2
        BY <1>0, <3>1, <4>1, Lengths
      <4> QED BY <2>0, <4>5, <4>6, <4>2, <3>2, <1>5 DEF Succeeds
    <3>3. CASE Diag!Expected # "blocked"
      <4>1. history \in {Three, Checked} /\ One # Blind /\ Two # Checked
        BY <2>3, <3>3, Lengths DEF Observed, Wrote
      <4>2. /\ CanWrite /\ Verifying /\ doc = New
            /\ IF Inspecting THEN history = Three ELSE history = Checked
        <5>1. Three # One /\ Three # Blind /\ Three # Checked /\ Three # Two /\ Checked # One
              /\ Checked # Blind
          BY Lengths
        <5> QED BY <1>0, <4>1, <5>1, Lengths DEF Episode, Untouched, Touched, Left
      <4>3. output = Diag!Finish("completed", TRUE)
        BY <2>0, <3>1, <4>1, NextActions
      <4>4. /\ \E w \in Diag!Calls("write") : history[w].ok
            /\ Diag!ReadAfterWrite
        <5>1. Wrote.tool = "write" /\ Wrote.ok /\ Observed(New).tool = "read" /\ Observed(New).ok
          BY <4>2 DEF Wrote, Observed
        <5>2. ASSUME NEW w \in DOMAIN history, NEW r \in DOMAIN history, w < r,
                     history[w] = Wrote, history[r] = Observed(New)
              PROVE  (\E x \in Diag!Calls("write") : history[x].ok) /\ Diag!ReadAfterWrite
          <6>1. w \in Diag!Calls("write") /\ r \in Diag!Calls("read") /\ history[w].ok
                /\ history[r].ok
            BY <5>1, <5>2 DEF Diag!Calls
          <6> QED BY <6>1, <5>2 DEF Diag!ReadAfterWrite
        <5>3. CASE history = Three
          <6>1. 2 \in DOMAIN Three /\ 3 \in DOMAIN Three
            BY DEF Three
          <6> QED BY <5>2, <5>3, <6>1, Lengths
        <5>4. CASE history = Checked
          <6>1. 1 \in DOMAIN Checked /\ 2 \in DOMAIN Checked
            BY DEF Checked
          <6> QED BY <5>2, <5>4, <6>1, Lengths
        <5> QED BY <4>1, <5>3, <5>4
      <4>5. Diag!ReferenceVerdict = "passed"
        BY <2>3, <3>3, <4>2, <4>3, <4>4, Documents
           DEF Diag!ReferenceVerdict, Diag!VerdictCompleted, Diag!Finish
      <4>6. scenario.calls >= Needs /\ scenario.steps > Needs
        BY <1>0, <3>1, <4>2, Lengths DEF Needs
      <4> QED BY <2>0, <4>5, <4>6, <4>2, <3>3, <1>5 DEF Succeeds
    <3> QED BY <3>2, <3>3
  <2> QED BY <1>1, <2>1, <2>2, <2>3
<1> QED BY <1>1, <1>2, <1>3, <1>4, <1>5

-----------------------------------------------------------------------------
(* A run of the matrix under an intervention succeeds only when the layer  *)
(* that was replaced is at fault.                                          *)
LEMMA MatrixBlames ==
  ASSUME Diag!RuntimeAssumption, Setting, scenario.runner = "matrix", Succeeds
  PROVE  Diag!Intervention \in scenario.faults
<1> SUFFICES ASSUME Diag!Intervention \notin scenario.faults PROVE FALSE
  OBVIOUS
<1>1. \A l : Diag!Active(l) <=> l \in scenario.faults
  BY DEF Diag!Active
<1>2. scenario.faults # {} /\ scenario.faults \subseteq Diag!Layer
  BY SettingFacts
<1>3. scenario.faults \cap {"verifier", "model", "context"} = {}
  BY <1>1 DEF Succeeds, Calm
<1>4. CASE scenario.faults \cap {"skill", "router"} # {}
  <2>1. Diag!Expected = "blocked"
    BY <1>4 DEF Diag!Expected
  <2>2. Diag!MatrixRules = Diag!Unsafe
    BY <1>4 DEF Diag!MatrixRules
  <2> QED BY <2>1, <2>2 DEF Succeeds, Inspecting, Diag!Rules, Diag!Unsafe
<1>5. CASE scenario.faults \cap {"skill", "router"} = {}
  <2>1. Diag!Expected # "blocked"
    BY <1>5 DEF Diag!Expected
  <2>2. CanWrite
    BY <2>1 DEF Succeeds
  <2>3. "tool" \notin scenario.faults /\ "environment" \in scenario.faults
    BY <1>1, <1>2, <1>3, <1>5, <2>2, PlanFacts DEF CanWrite
  <2>4. Diag!InitialDocument.protected
    BY <1>1, <2>1, <2>3, Documents DEF Diag!Conflict
  <2> QED BY <2>2, <2>4 DEF CanWrite
<1> QED BY <1>4, <1>5

(* An experiment that repairs what is at fault.                            *)
Repairs(l) == l \in scenario.faults /\ scenario.faults \in {{l}, {"skill", "router"}}

(* Such a run of the matrix succeeds.                                      *)
LEMMA RepairHelps ==
  ASSUME Diag!RuntimeAssumption, Setting, scenario.runner = "matrix", Repairs(Diag!Intervention)
  PROVE  Succeeds
<1>1. /\ ~Diag!Active("verifier") /\ ~Diag!Active("model") /\ ~Diag!Active("context")
      /\ ~Diag!Active("tool") /\ ~Diag!Active("environment")
  BY DEF Repairs, Diag!Active
<1>2. Diag!Rules = Diag!Safe
  BY DEF Repairs, Diag!Rules, Diag!MatrixRules
<1>3. Inspecting /\ Verifying /\ Needs = 3 /\ scenario.steps = 6 /\ scenario.calls = 4
  BY <1>2, SettingFacts DEF Inspecting, Verifying, Diag!Safe, Needs
<1>4. Diag!Expected # "blocked" => CanWrite
  BY <1>1, Documents DEF CanWrite, Diag!Conflict
<1> QED BY <1>1, <1>3, <1>4 DEF Succeeds, Calm

(* What becomes of a local run without an intervention.                    *)
SucceedsAlone ==
  LET needs == IF "inspect" \in scenario.skill THEN 3 ELSE 2 IN
  IF scenario.expected = "blocked"
  THEN "inspect" \in scenario.skill /\ scenario.calls >= 1 /\ scenario.steps >= 2
  ELSE "verify" \in scenario.skill /\ scenario.calls >= needs /\ scenario.steps > needs

(* The replay of any layer but the skill is that run again.                *)
LEMMA LocalIsAlone ==
  ASSUME Diag!RuntimeAssumption, Setting, scenario.runner = "local", Diag!Intervention # "skill"
  PROVE  Succeeds <=> SucceedsAlone
<1>1. \A l : ~Diag!Active(l)
  BY SettingFacts DEF Diag!Active
<1>2. Diag!Rules = scenario.skill /\ Diag!Expected = scenario.expected
  BY DEF Diag!Rules, Diag!LocalRules, Diag!Expected
<1>3. scenario.expected # "blocked" => CanWrite
  BY <1>1, <1>2, Documents DEF CanWrite, Diag!Conflict
<1> QED BY <1>1, <1>2, <1>3 DEF Succeeds, Calm, SucceedsAlone, Inspecting, Verifying, Needs

-----------------------------------------------------------------------------
(* What can become of a run, and what refutes a layer when it does.        *)
Verdicts == {"cut", "passed", "failed", "missing_skill_rule"}
Refuting == {"failed", "missing_skill_rule"}

(* The runs come in the order of the plan, and the baseline did not pass.  *)
PlaceInv ==
  /\ at \in {Diag!Baseline} \cup Diag!Places
     /\ trace \in [{Diag!Baseline} \cup Diag!Places -> Verdicts \cup {"none"}]
  /\ \A i \in {Diag!Baseline} \cup Diag!Places :
       i < at \/ pc \in {"attribute", "done"} => trace[i] # "none"
  /\ at # Diag!Baseline /\ pc # "refused" => trace[Diag!Baseline] # "passed"
  /\ pc \in {"attribute", "done"} => at # Diag!Baseline

(* What the runs so far tell about the layers.                             *)
BlameInv ==
  /\ \A i \in Diag!Places : trace[i] = "passed" =>
       /\ scenario.runner = "matrix" => Diag!Plan[i] \in scenario.faults
       /\ scenario.runner = "local" /\ Diag!Plan[i] # "skill" => SucceedsAlone
  /\ scenario.runner = "local" /\ trace[Diag!Baseline] \in Refuting => ~SucceedsAlone
  /\ \A i \in Diag!Places :
       scenario.runner = "matrix" /\ Repairs(Diag!Plan[i]) => trace[i] \notin Refuting

(* The report is what the engine attributes to the runs.                   *)
ReportInv ==
  report = IF pc = "done"
           THEN [root |-> Diag!Attribution, action |-> Diag!ActionOf(Diag!Attribution),
                 actionable |-> Diag!ActionOf(Diag!Attribution) # "escalate"]
           ELSE Diag!NoReport

(* The inductive invariant of the diagnosis.                               *)
DiagInv == Setting /\ EpisodeInv /\ PlaceInv /\ BlameInv /\ ReportInv

(* The places of the layers that are replayed; the least of the later ones *)
(* is the next.                                                            *)
LEMMA PlacesAreNumbers ==
  /\ Diag!Places \subseteq 1 .. 7 /\ Diag!Baseline \notin Diag!Places /\ Diag!Baseline = 0
  /\ Diag!Later \subseteq Nat
  /\ Diag!Later # {} => Diag!Min(Diag!Later) \in Diag!Later
     /\ (\A i \in Diag!Later : Diag!Min(Diag!Later) <= i)
<1>1. Diag!Places \subseteq 1 .. 7 /\ Diag!Baseline \notin Diag!Places /\ Diag!Baseline = 0
  BY PlanFacts DEF Diag!Places, Diag!Baseline
<1>2. Diag!Later \subseteq Nat
  <2>1. \A i \in 1 .. 7 : i \in Nat
    OBVIOUS
  <2> QED BY <1>1, <2>1 DEF Diag!Later
<1>3. ASSUME Diag!Later # {} PROVE Diag!Min(Diag!Later) \in Diag!Later
             /\ \A i \in Diag!Later : Diag!Min(Diag!Later) <= i
  <2>1. \E i \in Diag!Later : \A j \in Diag!Later : i <= j
    BY <1>2, <1>3, LeastNatural
  <2> QED BY <2>1 DEF Diag!Min
<1> QED BY <1>1, <1>2, <1>3

(* The end of a run, passed or not, or cut short, preserves what is told of*)
(* the runs.                                                               *)
LEMMA RunsEnd ==
  ASSUME Diag!RuntimeAssumption, DiagInv, pc \in {"reset", "step", "verify"},
         NEW verdict \in Verdicts, Diag!Ended(verdict),
         verdict = "cut" \/ (verdict = "passed" <=> Succeeds)
  PROVE  Setting' /\ PlaceInv' /\ BlameInv' /\ ReportInv'
<1>1. /\ UNCHANGED <<scenario, hypotheses, report>> /\ Diag!Places' = Diag!Places
      /\ trace' = [trace EXCEPT ![at] = verdict]
      /\ at' = (IF Diag!Later # {} THEN Diag!Min(Diag!Later) ELSE at)
      /\ pc' = CASE at = Diag!Baseline /\ verdict = "passed" -> "refused"
                 [] at # Diag!Baseline /\ Diag!Later = {} -> "attribute"
                 [] OTHER -> "reset"
  BY DEF Diag!Ended, Diag!Places, Diag!Tested
<1>2. /\ at \in {Diag!Baseline} \cup Diag!Places
      /\ trace \in [{Diag!Baseline} \cup Diag!Places -> Verdicts \cup {"none"}]
      /\ at \in Nat /\ at' \in {Diag!Baseline} \cup Diag!Places
  BY <1>1, PlacesAreNumbers DEF DiagInv, PlaceInv, Diag!Later
<1>3. trace' \in [{Diag!Baseline} \cup Diag!Places -> Verdicts \cup {"none"}]
      /\ trace'[at] = verdict
      /\ \A i \in ({Diag!Baseline} \cup Diag!Places) \ {at} : trace'[i] = trace[i]
  BY <1>1, <1>2
<1>4. PlaceInv'
  <2>1. ASSUME NEW i \in {Diag!Baseline} \cup Diag!Places, i < at' \/ pc' = "attribute"
        PROVE  trace'[i] # "none"
    <3>1. i <= at
      <4>1. Diag!Later = {} \/ i < at'
        BY <1>1, <2>1
      <4> QED BY <1>1, <1>2, <2>1, <4>1, PlacesAreNumbers DEF Diag!Later
    <3>2. CASE i = at
      BY <1>3, <3>2 DEF Verdicts
    <3>3. CASE i < at
      BY <1>2, <1>3, <3>3, PlacesAreNumbers DEF DiagInv, PlaceInv
    <3> QED BY <1>2, <3>1, <3>2, <3>3, PlacesAreNumbers
  <2>2. at' # Diag!Baseline /\ pc' # "refused" => trace'[Diag!Baseline] # "passed"
    <3>1. CASE at = Diag!Baseline
      BY <1>1, <1>3, <3>1
    <3>2. CASE at # Diag!Baseline
      BY <1>1, <1>2, <1>3, <3>2 DEF DiagInv, PlaceInv
    <3> QED BY <3>1, <3>2
  <2>3. pc' = "attribute" => at' # Diag!Baseline
    BY <1>1, <1>2, PlacesAreNumbers
  <2>4. pc' \in {"refused", "attribute", "reset"}
    BY <1>1
  <2> QED BY <1>1, <1>2, <1>3, <2>1, <2>2, <2>3, <2>4 DEF PlaceInv
<1>5. Diag!Intervention = (IF at = Diag!Baseline THEN "none" ELSE Diag!Plan[at])
      /\ "none" \notin Diag!Layer
  BY PlanFacts DEF Diag!Intervention
<1>6. BlameInv'
  <2>1. (SucceedsAlone' <=> SucceedsAlone) /\ \A l : Repairs(l)' <=> Repairs(l)
    BY <1>1 DEF SucceedsAlone, Repairs
  <2>2. ASSUME NEW i \in Diag!Places, trace'[i] = "passed"
        PROVE  /\ scenario.runner = "matrix" => Diag!Plan[i] \in scenario.faults
               /\ scenario.runner = "local" /\ Diag!Plan[i] # "skill" => SucceedsAlone
    <3>1. CASE i = at
      <4>1. Diag!Intervention = Diag!Plan[i] /\ Succeeds
        BY <1>3, <1>5, <2>2, <3>1, PlacesAreNumbers
      <4> QED BY <4>1, MatrixBlames, LocalIsAlone DEF DiagInv
    <3>2. CASE i # at
      BY <1>3, <2>2, <3>2 DEF DiagInv, BlameInv
    <3> QED BY <3>1, <3>2
  <2>3. ASSUME scenario.runner = "local", trace'[Diag!Baseline] \in Refuting PROVE ~SucceedsAlone
    <3>1. CASE at = Diag!Baseline
      <4>1. Diag!Intervention = "none" /\ ~Succeeds
        BY <1>3, <1>5, <2>3, <3>1 DEF Refuting
      <4> QED BY <2>3, <4>1, LocalIsAlone DEF DiagInv
    <3>2. CASE at # Diag!Baseline
      BY <1>3, <2>3, <3>2 DEF DiagInv, BlameInv
    <3> QED BY <3>1, <3>2
  <2>4. ASSUME NEW i \in Diag!Places, scenario.runner = "matrix", Repairs(Diag!Plan[i])
        PROVE  trace'[i] \notin Refuting
    <3>1. CASE i = at
      <4>1. Diag!Intervention = Diag!Plan[i]
        BY <1>5, <3>1, PlacesAreNumbers
      <4>2. Succeeds
        BY <2>4, <4>1, RepairHelps DEF DiagInv
      <4> QED BY <1>3, <3>1, <4>2 DEF Refuting
    <3>2. CASE i # at
      BY <1>3, <2>4, <3>2 DEF DiagInv, BlameInv
    <3> QED BY <3>1, <3>2
  <2> QED BY <1>1, <2>1, <2>2, <2>3, <2>4 DEF BlameInv
<1>7. pc' # "done" /\ report = Diag!NoReport
  BY <1>1 DEF DiagInv, ReportInv
<1> QED BY <1>1, <1>4, <1>6, <1>7 DEF Setting, ReportInv, DiagInv

(* Within a run nothing of this changes.                                   *)
LEMMA NothingEnds ==
  ASSUME DiagInv, UNCHANGED <<scenario, hypotheses, at, trace, report>>,
         pc \in {"reset", "step", "verify"}, pc' \in {"step", "verify"}
  PROVE  Setting' /\ PlaceInv' /\ BlameInv' /\ ReportInv'
<1>1. Diag!Places' = Diag!Places /\ (SucceedsAlone' <=> SucceedsAlone)
      /\ (\A l : Repairs(l)' <=> Repairs(l))
  BY DEF Diag!Places, Diag!Tested, SucceedsAlone, Repairs
<1> QED BY <1>1 DEF DiagInv, Setting, PlaceInv, BlameInv, ReportInv

(* Every step preserves the invariant.                                     *)
LEMMA DiagStep ==
  ASSUME Diag!RuntimeAssumption, DiagInv, [Diag!Next]_(Diag!vars)
  PROVE  DiagInv'
<1>0. EpisodeInv'
  BY EpisodeStep DEF DiagInv
<1>1. CASE \/ Diag!Reset \/ Diag!OutOfTime \/ Diag!OutOfSteps
           \/ Diag!Conclude \/ Diag!OutOfCalls \/ Diag!Execute
  <2>1. /\ UNCHANGED <<scenario, hypotheses, at, trace, report>>
        /\ pc \in {"reset", "step", "verify"} /\ pc' \in {"step", "verify"}
    BY <1>1
       DEF Diag!Reset, Diag!OutOfTime, Diag!OutOfSteps, Diag!Conclude, Diag!OutOfCalls,
           Diag!Execute, Diag!Break, Diag!Unchanged
  <2> QED BY <1>0, <2>1, NothingEnds DEF DiagInv
<1>2. CASE Diag!Verify
  <2>1. Diag!Ended(Diag!Verdict) /\ pc = "verify"
    BY <1>2 DEF Diag!Verify
  <2>2. Diag!Verdict \in Verdicts
        /\ (Diag!Verdict = "cut" \/ (Diag!Verdict = "passed" <=> Succeeds))
    BY <2>1, VerdictIsSo DEF DiagInv, Verdicts
  <2> QED BY <1>0, <2>1, <2>2, RunsEnd DEF DiagInv
<1>3. CASE Diag!Raise
  BY <1>0, <1>3, RunsEnd DEF Diag!Raise, DiagInv, Verdicts
<1>4. CASE Diag!Attribute
  <2>1. /\ pc = "attribute" /\ pc' = "done" /\ UNCHANGED <<scenario, hypotheses, at, trace>>
        /\ report' = [root |-> Diag!Attribution, action |-> Diag!ActionOf(Diag!Attribution),
                      actionable |-> Diag!ActionOf(Diag!Attribution) # "escalate"]
    BY <1>4 DEF Diag!Attribute
  <2>2. Diag!Places' = Diag!Places /\ (SucceedsAlone' <=> SucceedsAlone)
        /\ (\A l : Repairs(l)' <=> Repairs(l))
    BY <2>1 DEF Diag!Places, Diag!Tested, SucceedsAlone, Repairs
  <2>3. Diag!Attribution' = Diag!Attribution
    BY <2>1, <2>2
       DEF Diag!Attribution, Diag!Supported, Diag!Replay, Diag!Tested, Diag!Score,
           Diag!ModelGatePassed
  <2>4. ReportInv'
    BY <2>1, <2>3 DEF ReportInv, Diag!ActionOf
  <2> QED BY <1>0, <2>1, <2>2, <2>4 DEF DiagInv, Setting, PlaceInv, BlameInv
<1>5. CASE UNCHANGED Diag!vars
  <2>1. UNCHANGED <<scenario, hypotheses, at, trace, pc, report>>
    BY <1>5 DEF Diag!vars
  <2>2. Diag!Places' = Diag!Places /\ (SucceedsAlone' <=> SucceedsAlone)
        /\ (\A l : Repairs(l)' <=> Repairs(l))
    BY <2>1 DEF Diag!Places, Diag!Tested, SucceedsAlone, Repairs
  <2>3. Diag!Attribution' = Diag!Attribution
    BY <2>1, <2>2
       DEF Diag!Attribution, Diag!Supported, Diag!Replay, Diag!Tested, Diag!Score,
           Diag!ModelGatePassed
  <2> QED BY <1>0, <2>1, <2>2, <2>3
             DEF DiagInv, Setting, PlaceInv, BlameInv, ReportInv, Diag!ActionOf
<1> QED BY <1>1, <1>2, <1>3, <1>4, <1>5 DEF Diag!Next

-----------------------------------------------------------------------------
(* The replay of a layer is the run at its place.                          *)
LEMMA ReplayIs ==
  /\ \A i \in Diag!Places : Diag!Replay(Diag!Plan[i]) = trace[i]
  /\ Diag!RuntimeAssumption
     /\ Setting => \A l \in Diag!Tested : \E i \in Diag!Places : Diag!Plan[i] = l
<1>1. ASSUME NEW i \in Diag!Places PROVE Diag!Replay(Diag!Plan[i]) = trace[i]
  <2>1. \A j \in Diag!Places : Diag!Plan[j] = Diag!Plan[i] => j = i
    BY PlanFacts DEF Diag!Places
  <2> QED BY <2>1 DEF Diag!Replay
<1>2. ASSUME Diag!RuntimeAssumption, Setting,
             NEW l \in Diag!Tested PROVE \E i \in Diag!Places : Diag!Plan[i] = l
  <2>1. l \in Diag!Layer
    BY <1>2, SettingFacts DEF Diag!Tested
  <2> QED BY <2>1, PlanFacts DEF Diag!Places
<1> QED BY <1>1, <1>2

(* CounterfactualAttributionEngine.attribute: a cause was replayed and     *)
(* helped.                                                                 *)
LEMMA CausesHelped ==
  ASSUME Diag!RuntimeAssumption, Setting, Diag!Attribution # Diag!Unknown
  PROVE  /\ \E i \in Diag!Places : Diag!Plan[i] = Diag!Attribution /\ trace[i] = "passed"
         /\ Diag!Attribution = "model" => Diag!ModelGatePassed
<1>1. Diag!Attribution \in Diag!Supported /\ (Diag!Attribution = "model" => Diag!ModelGatePassed)
  BY DEF Diag!Attribution
<1>2. PICK i \in Diag!Places : Diag!Plan[i] = Diag!Attribution
  BY <1>1, ReplayIs DEF Diag!Supported
<1>3. trace[i] = "passed"
  BY <1>1, <1>2, ReplayIs DEF Diag!Supported
<1> QED BY <1>1, <1>2, <1>3

(* When none is counted as cut short, none is.                             *)
LEMMA NoneIsCut ==
  ASSUME DiagInv, Diag!Cut = 0
  PROVE  \A i \in {Diag!Baseline} \cup Diag!Places : trace[i] # "cut"
<1>1. DOMAIN trace = {Diag!Baseline} \cup Diag!Places
  BY DEF DiagInv, PlaceInv
<1>2. {Diag!Baseline} \cup Diag!Places \subseteq 0 .. 7 /\ IsFiniteSet(0 .. 7)
  <2>1. 1 .. 7 \subseteq 0 .. 7 /\ 0 \in 0 .. 7 /\ 0 \in Int /\ 7 \in Int
    OBVIOUS
  <2>2. IsFiniteSet(0 .. 7)
    BY <2>1, FS_Interval
  <2>3. {Diag!Baseline} \cup Diag!Places \subseteq 0 .. 7
    BY <2>1, PlacesAreNumbers
  <2> QED BY <2>2, <2>3
<1> DEFINE S == {i \in DOMAIN trace : trace[i] = "cut"}
<1>3. IsFiniteSet(S)
  BY <1>1, <1>2, FS_Subset
<1>4. S = {}
  BY <1>3, FS_EmptySet, SameDiagnosisSets DEF Diag!Cut
<1> QED BY <1>1, <1>4

(* Once there is a report, all runs are over.                              *)
LEMMA Reported ==
  ASSUME DiagInv, report # Diag!NoReport
  PROVE  /\ pc = "done" /\ report.root = Diag!Attribution
            /\ report.action = Diag!ActionOf(Diag!Attribution)
         /\ at # Diag!Baseline /\ \A i \in {Diag!Baseline} \cup Diag!Places : trace[i] # "none"
         /\ trace[Diag!Baseline] # "passed"
BY DEF DiagInv, ReportInv, PlaceInv

(* So nobody is blamed in vain.                                            *)
LEMMA Blameless ==
  ASSUME Diag!RuntimeAssumption, DiagInv
  PROVE  Diag!NobodyIsBlamedInVain
<1> SUFFICES ASSUME report # Diag!NoReport, report.root # Diag!Unknown
             PROVE  /\ scenario.runner = "matrix" => report.root \in scenario.faults
                    /\ scenario.runner = "local" /\ Diag!Cut = 0 => report.root = "skill"
  BY DEF Diag!NobodyIsBlamedInVain
<1>1. report.root = Diag!Attribution /\ trace[Diag!Baseline] \in Verdicts \ {"passed"}
  BY Reported DEF DiagInv, PlaceInv
<1>2. PICK i \in Diag!Places : Diag!Plan[i] = Diag!Attribution /\ trace[i] = "passed"
  BY <1>1, CausesHelped DEF DiagInv
<1>3. scenario.runner = "matrix" => Diag!Attribution \in scenario.faults
  BY <1>2 DEF DiagInv, BlameInv
<1>4. ASSUME scenario.runner = "local", Diag!Cut = 0 PROVE Diag!Attribution = "skill"
  <2>1. trace[Diag!Baseline] \in Refuting
    BY <1>1, <1>4, NoneIsCut DEF Verdicts, Refuting
  <2> QED BY <1>2, <1>4, <2>1 DEF DiagInv, BlameInv
<1> QED BY <1>1, <1>3, <1>4

(* _model_gate_passed: the model is trained when nothing else helped.      *)
LEMMA LastResort ==
  ASSUME Diag!RuntimeAssumption, DiagInv
  PROVE  Diag!TrainingIsTheLastResort
<1> SUFFICES ASSUME report # Diag!NoReport, report.action = "train_model", NEW l \in Diag!Cheaper
             PROVE  l \in Diag!Tested /\ Diag!Replay(l) # "passed"
  BY DEF Diag!TrainingIsTheLastResort
<1>1. Diag!ActionOf(Diag!Attribution) = "train_model"
  BY Reported
<1>2. Diag!Attribution = "model"
  BY <1>1 DEF Diag!ActionOf
<1>3. Diag!ModelGatePassed
  BY <1>2, CausesHelped DEF DiagInv, Diag!Unknown
<1> QED BY <1>3 DEF Diag!ModelGatePassed, Diag!Supported

(* A run passes within its limits, and no protected document changes.      *)
LEMMA Limits ==
  ASSUME Diag!RuntimeAssumption, DiagInv
  PROVE  Diag!PassedIsWithinLimits
<1>1. ASSUME pc # "reset", initial.protected PROVE doc = initial
  <2>1. CASE pc \notin {"step", "verify"}
    BY <1>1, <2>1 DEF DiagInv, EpisodeInv, Fresh, Diag!NoDocument
  <2>2. CASE pc \in {"step", "verify"}
    <3>1. Episode
      BY <2>2 DEF DiagInv, EpisodeInv
    <3> QED BY <1>1, <3>1 DEF Episode, Left, CanWrite
  <2> QED BY <2>1, <2>2
<1>2. ASSUME pc = "verify", Diag!Verdict = "passed"
      PROVE  /\ limit = "none" /\ steps <= scenario.steps /\ Len(history) <= scenario.calls
             /\ IF Diag!Expected = "blocked" THEN doc = initial
                /\ ~attempted ELSE doc.content = "new"
  <2>1. steps <= scenario.steps /\ Len(history) <= scenario.calls
    BY <1>2 DEF DiagInv, EpisodeInv, Episode
  <2> QED BY <1>2, <2>1, VerdictIsSo DEF DiagInv
<1> QED BY <1>1, <1>2 DEF Diag!PassedIsWithinLimits

(* A single fault is found, and of two that hide one another neither is    *)
(* blamed.                                                                 *)
LEMMA Found ==
  ASSUME Diag!RuntimeAssumption, DiagInv
  PROVE  Diag!FaultsAreFound
<1> SUFFICES ASSUME report # Diag!NoReport, Diag!Cut = 0, hypotheses = Diag!Certain,
                    scenario.runner = "matrix"
             PROVE  /\ Diag!Cardinality(scenario.faults) = 1 => report.root \in scenario.faults
                    /\ scenario.faults = {"skill", "router"} => report.root = Diag!Unknown
  BY DEF Diag!FaultsAreFound
<1>1. report.root = Diag!Attribution
  BY Reported
<1>2. Diag!Tested = Diag!Layer /\ \A l \in Diag!Layer : Diag!Score(l) = 100
  <2>1. \A l \in Diag!Layer : [layer |-> l, prior |-> 100] \in hypotheses
    BY DEF Diag!Certain
  <2>2. \A h \in hypotheses : h.layer \in Diag!Layer /\ h.prior = 100
    BY DEF Diag!Certain
  <2>3. Diag!Tested = Diag!Layer
    <3>1. ASSUME NEW l \in Diag!Layer PROVE l \in Diag!Tested
      <4>1. [layer |-> l, prior |-> 100] \in hypotheses /\ [layer |-> l, prior |-> 100].layer = l
        BY <2>1
      <4> QED BY <4>1 DEF Diag!Tested
    <3>2. ASSUME NEW l \in Diag!Tested PROVE l \in Diag!Layer
      BY <2>2 DEF Diag!Tested
    <3> QED BY <3>1, <3>2
  <2>4. ASSUME NEW l \in Diag!Layer PROVE Diag!Score(l) = 100
    <3>1. \E h \in hypotheses : h.layer = l
      BY <2>1
    <3> QED BY <2>2, <3>1 DEF Diag!Score
  <2> QED BY <2>3, <2>4
<1>3. Setting /\ scenario.faults \subseteq Diag!Layer /\ scenario.faults # {}
      /\ MinConfidence \in 0 .. 99 /\ ConflictMargin \in 0 .. 99
  BY SettingFacts DEF DiagInv
<1>4. \A i \in Diag!Places : trace[i] \in {"passed"} \cup Refuting
  BY Reported, NoneIsCut DEF DiagInv, PlaceInv, Verdicts, Refuting
<1>5. Diag!Supported \subseteq scenario.faults
  <2> SUFFICES ASSUME NEW l \in Diag!Supported PROVE l \in scenario.faults
    OBVIOUS
  <2>1. PICK i \in Diag!Places : Diag!Plan[i] = l
    BY <1>3, ReplayIs DEF Diag!Supported
  <2>2. trace[i] = "passed"
    BY <2>1, ReplayIs DEF Diag!Supported
  <2> QED BY <2>1, <2>2 DEF DiagInv, BlameInv
<1>6. ASSUME NEW l \in Diag!Layer, Repairs(l) PROVE l \in Diag!Supported
  <2>1. PICK i \in Diag!Places : Diag!Plan[i] = l
    BY <1>2, <1>3, ReplayIs
  <2>2. trace[i] = "passed"
    BY <1>4, <1>6, <2>1 DEF DiagInv, BlameInv
  <2> QED BY <1>2, <2>1, <2>2, ReplayIs DEF Diag!Supported
<1> DEFINE causes == {l \in Diag!Supported :
             /\ Diag!Score(l) >= MinConfidence
             /\ \A k \in Diag!Supported \ {l} : Diag!Score(l) - Diag!Score(k) > ConflictMargin
             /\ l = "model" => Diag!ModelGatePassed}
<1>7. Diag!Attribution = IF causes = {} THEN Diag!Unknown ELSE CHOOSE l \in causes : TRUE
  BY DEF Diag!Attribution
<1>8. ASSUME Diag!Cardinality(scenario.faults) = 1 PROVE Diag!Attribution \in scenario.faults
  <2>1. PICK f : scenario.faults = {f}
    <3>1. IsFiniteSet(Diag!Layer)
      <4>1. 1 \in Int /\ 7 \in Int
        OBVIOUS
      <4>2. IsFiniteSet(1 .. 7)
        BY <4>1, FS_Interval
      <4> DEFINE plan == [i \in 1 .. 7 |-> Diag!Plan[i]]
      <4>3. plan \in Surjection(1 .. 7, Diag!Layer)
        BY PlanFacts DEF Surjection
      <4> QED BY <4>2, <4>3, FS_Surjection
    <3>2. IsFiniteSet(scenario.faults)
      BY <1>3, <3>1, FS_Subset
    <3> QED BY <1>8, <3>2, FS_Singleton, SameDiagnosisSets
  <2>2. f \in Diag!Layer /\ Repairs(f)
    BY <1>3, <2>1 DEF Repairs
  <2>3. Diag!Supported = {f}
    BY <1>5, <1>6, <2>1, <2>2
  <2>4. f = "model" => Diag!ModelGatePassed
    BY <1>2, <2>3 DEF Diag!ModelGatePassed, Diag!Cheaper
  <2>5. causes = {f}
    BY <1>2, <1>3, <2>2, <2>3, <2>4
  <2> QED BY <1>7, <2>1, <2>5
<1>9. ASSUME scenario.faults = {"skill", "router"} PROVE Diag!Attribution = Diag!Unknown
  <2>1. {"skill", "router"} \subseteq Diag!Supported
    BY <1>6, <1>9, PlanFacts DEF Repairs
  <2>2. ASSUME NEW l \in causes PROVE FALSE
    <3>1. PICK k \in Diag!Supported \ {l} : TRUE
      BY <2>1
    <3>2. Diag!Score(l) = 100 /\ Diag!Score(k) = 100
      BY <1>2, <1>3, <1>5, <2>2, <3>1
    <3>3. Diag!Score(l) - Diag!Score(k) > ConflictMargin
      BY <2>2, <3>1
    <3> QED BY <1>3, <3>2, <3>3
  <2> QED BY <1>7, <2>2
<1> QED BY <1>1, <1>8, <1>9

(* The invariant holds at the start.                                       *)
LEMMA DiagStart ==
  ASSUME Diag!Init
  PROVE  DiagInv
<1>1. EpisodeInv
  BY DEF Diag!Init, EpisodeInv, Fresh
<1>2. at = Diag!Baseline /\ pc = "reset" /\ report = Diag!NoReport
      /\ trace = [i \in {Diag!Baseline} \cup Diag!Places |-> "none"] /\ Setting
  BY DEF Diag!Init, Setting
<1>3. PlaceInv
  BY <1>2, PlacesAreNumbers DEF PlaceInv
<1>4. BlameInv
  BY <1>2 DEF BlameInv, Refuting
<1> QED BY <1>1, <1>2, <1>3, <1>4 DEF DiagInv, ReportInv

(* Diagnosis by replay: a run passes only within its limits and with the   *)
(* document as its task wants it, no run changes a protected document, the *)
(* matrix blames no layer that is not at fault and the local runner none   *)
(* but the skill unless a run was cut short, a single fault is found, and a*)
(* model is trained only after every other layer was replayed in vain. For *)
(* any scenarios and hypotheses, and wherever the clock runs out or a call *)
(* raises.                                                                 *)
THEOREM TheDiagnosisIsCausal ==
  ASSUME Diag!RuntimeAssumption
  PROVE  Diag!Spec => [](/\ Diag!PassedIsWithinLimits /\ Diag!NobodyIsBlamedInVain
                         /\ Diag!FaultsAreFound /\ Diag!TrainingIsTheLastResort)
<1>1. Diag!Init => DiagInv
  BY DiagStart
<1>2. DiagInv /\ [Diag!Next]_(Diag!vars) => DiagInv'
  BY DiagStep
<1>3. DiagInv => /\ Diag!PassedIsWithinLimits /\ Diag!NobodyIsBlamedInVain
                 /\ Diag!FaultsAreFound /\ Diag!TrainingIsTheLastResort
  BY Limits, Blameless, Found, LastResort
<1> QED BY <1>1, <1>2, <1>3, PTL DEF Diag!Spec

-----------------------------------------------------------------------------
(***************************************************************************)
(* The scientific seed (ScientificSeed): its ledger, wherever an answer is *)
(* lost or late, dear or has no usage.                                     *)
(***************************************************************************)
CONSTANTS Team, Price, Dear, MaxRequests, MaxCost, MaxEpisode, MaxSteps, MaxCalls,
          MaxReportCalls, Eventful, NoFile
VARIABLES team, round, number, time, ledger, own, provider, results, reports, file, receipt

Seed == INSTANCE ScientificSeed WITH task <- number

(* The usage of the run and what the provider knows of it are numbers.      *)
LedgerType ==
  /\ ledger \in [requests: Nat, tokens: Nat, cost: Nat]
  /\ provider \in [seen: Nat, charged: Nat, answers: Nat, price: Nat]

(* What was reserved and not answered: one request while it is out, and     *)
(* when the run ends with it; the provider has seen no other.               *)
Outstanding ==
  /\ provider.seen <= ledger.requests
  /\ pc = "sent" => ledger.requests = provider.answers + 1 /\ provider.seen = provider.answers
  /\ pc = "aborted" => ledger.requests \in {provider.answers, provider.answers + 1}
  /\ pc \notin {"sent", "aborted"} =>
       ledger.requests = provider.answers /\ provider.seen = provider.answers

LedgerInv ==
  /\ LedgerType /\ Outstanding
  /\ ledger.requests <= MaxRequests
  /\ ledger.tokens = provider.answers /\ ledger.cost = provider.charged
  /\ ledger.cost > MaxCost => pc = "aborted"

(* Steps between requests, to the end of the run or within it.              *)
LEMMA NothingIsRequested ==
  ASSUME LedgerInv, UNCHANGED <<ledger, provider>>, pc \notin {"sent", "aborted"}, pc' # "sent"
  PROVE  LedgerInv'
<1>1. LedgerType'
  BY DEF LedgerInv, LedgerType
<1>2. /\ provider.seen = ledger.requests /\ ledger.requests = provider.answers
      /\ ledger.requests \in Nat /\ ~(ledger.cost > MaxCost)
  BY DEF LedgerInv, LedgerType, Outstanding
<1>3. Outstanding'
  BY <1>2 DEF Outstanding
<1> QED BY <1>1, <1>2, <1>3 DEF LedgerInv

(* And those that leave the run where it is.                                *)
LEMMA LedgerStays ==
  ASSUME LedgerInv, UNCHANGED <<ledger, provider, pc>>
  PROVE  LedgerInv'
BY DEF LedgerInv, LedgerType, Outstanding

(* ModelPolicy.next_action: the request is reserved, then sent, and its     *)
(* usage recorded before anything else is looked at.                        *)
LEMMA RequestsAreAccounted ==
  ASSUME Seed!SeedAssumption, LedgerInv,
         \/ Seed!Reserve \/ Seed!Lose \/ Seed!Misaccount
         \/ \E cost \in Seed!MayCharge, faithful \in BOOLEAN : Seed!Receive(cost, faithful)
  PROVE  LedgerInv'
<1>1. /\ ledger \in [requests: Nat, tokens: Nat, cost: Nat]
      /\ provider \in [seen: Nat, charged: Nat, answers: Nat, price: Nat]
      /\ MaxRequests \in Nat /\ MaxCost \in Nat /\ Seed!MayCharge \subseteq Nat
  BY DEF LedgerInv, LedgerType, Seed!SeedAssumption, Seed!MayCharge
<1>2. /\ ledger.requests \in Nat /\ ledger.tokens \in Nat /\ ledger.cost \in Nat
      /\ provider.seen \in Nat /\ provider.charged \in Nat /\ provider.answers \in Nat
      /\ provider.price \in Nat
  BY <1>1
<1>3. CASE Seed!Reserve
  <2>1. CASE UNCHANGED <<ledger, provider>>
    <3>1. (pc = "act" /\ pc' = "aborted") \/ ledger' = [ledger EXCEPT !.requests = @ + 1]
      BY <1>3 DEF Seed!Reserve
    <3>2. pc = "act" /\ pc' = "aborted"
      BY <1>1, <1>2, <2>1, <3>1
    <3> QED BY <2>1, <3>2, NothingIsRequested
  <2>2. CASE ~UNCHANGED <<ledger, provider>>
    <3>1. /\ pc = "act" /\ pc' = "sent" /\ ledger.requests < MaxRequests
          /\ ledger' = [ledger EXCEPT !.requests = @ + 1] /\ provider' = provider
      BY <1>3, <2>2 DEF Seed!Reserve
    <3>2. /\ ledger' \in [requests: Nat, tokens: Nat, cost: Nat]
          /\ ledger'.requests = ledger.requests + 1
          /\ ledger'.tokens = ledger.tokens /\ ledger'.cost = ledger.cost
      BY <1>1, <1>2, <3>1
    <3> QED BY <1>1, <1>2, <3>1, <3>2 DEF LedgerInv, LedgerType, Outstanding
  <2> QED BY <2>1, <2>2
<1>4. CASE Seed!Lose \/ Seed!Misaccount
  <2>1. /\ pc = "sent" /\ pc' = "aborted" /\ ledger' = ledger
        /\ \E seen \in {0, 1} : provider' = [provider EXCEPT !.seen = @ + seen]
    BY <1>4 DEF Seed!Lose, Seed!Misaccount, Seed!Abort
  <2>2. PICK seen \in {0, 1} : provider' = [provider EXCEPT !.seen = @ + seen]
    BY <2>1
  <2>3. /\ provider' \in [seen: Nat, charged: Nat, answers: Nat, price: Nat]
        /\ provider'.seen = provider.seen + seen
        /\ provider'.charged = provider.charged /\ provider'.answers = provider.answers
    BY <1>1, <1>2, <2>2
  <2> QED BY <1>1, <1>2, <2>1, <2>3 DEF LedgerInv, LedgerType, Outstanding
<1>5. ASSUME NEW cost \in Seed!MayCharge, NEW faithful \in BOOLEAN, Seed!Receive(cost, faithful)
      PROVE  LedgerInv'
  <2>1. /\ pc = "sent"
        /\ provider' = [provider EXCEPT !.seen = @ + 1, !.answers = @ + 1, !.charged = @ + cost]
        /\ ledger' = [ledger EXCEPT !.tokens = @ + 1, !.cost = @ + cost]
        /\ pc' = IF time.overdue \/ ~faithful \/ ledger'.cost > MaxCost
                 THEN "aborted" ELSE "execute"
    BY <1>5 DEF Seed!Receive, Seed!Charged
  <2>2. cost \in Nat /\ pc' \in {"aborted", "execute"}
        /\ (ledger'.cost > MaxCost => pc' = "aborted")
    BY <1>1, <2>1
  <2>3. /\ provider' \in [seen: Nat, charged: Nat, answers: Nat, price: Nat]
        /\ provider'.seen = provider.seen + 1 /\ provider'.charged = provider.charged + cost
        /\ provider'.answers = provider.answers + 1
    <3>1. provider' = [seen |-> provider.seen + 1, charged |-> provider.charged + cost,
                       answers |-> provider.answers + 1, price |-> provider.price]
      BY <1>1, <2>1
    <3>2. /\ provider.seen + 1 \in Nat /\ provider.charged + cost \in Nat
          /\ provider.answers + 1 \in Nat /\ provider.price \in Nat
      BY <1>2, <2>2
    <3> QED BY <3>1, <3>2
  <2>4. /\ ledger' \in [requests: Nat, tokens: Nat, cost: Nat]
        /\ ledger'.requests = ledger.requests /\ ledger'.tokens = ledger.tokens + 1
        /\ ledger'.cost = ledger.cost + cost
    <3>1. ledger' = [requests |-> ledger.requests, tokens |-> ledger.tokens + 1,
                     cost |-> ledger.cost + cost]
      BY <1>1, <2>1
    <3>2. ledger.tokens + 1 \in Nat /\ ledger.cost + cost \in Nat
      BY <1>2, <2>2
    <3> QED BY <1>2, <3>1, <3>2
  <2> QED BY <1>1, <1>2, <2>1, <2>2, <2>3, <2>4 DEF LedgerInv, LedgerType, Outstanding
<1> QED BY <1>3, <1>4, <1>5

(* Every step of the run, and of whoever changes or imports its file.       *)
LEMMA LedgerStep ==
  ASSUME Seed!SeedAssumption, LedgerInv, [Seed!Next]_(Seed!vars)
  PROVE  LedgerInv'
<1>1. CASE Seed!Deadline \/ Seed!Slow \/ Seed!Import \/ UNCHANGED Seed!vars
  <2>1. UNCHANGED <<ledger, provider, pc>>
    BY <1>1 DEF Seed!Deadline, Seed!Slow, Seed!Import, Seed!vars
  <2> QED BY <2>1, LedgerStays
<1>2. CASE \/ Seed!Start \/ Seed!Expire \/ Seed!Begin \/ Seed!Report \/ Seed!Break
           \/ Seed!Conclude \/ Seed!Accept \/ Seed!Execute \/ Seed!Verify
           \/ Seed!Complete \/ Seed!Change
  <2>1. UNCHANGED <<ledger, provider>>
    BY <1>2 DEF Seed!Start, Seed!Expire, Seed!Begin, Seed!Report, Seed!Break, Seed!Conclude,
                Seed!Accept, Seed!Execute, Seed!Verify, Seed!Complete, Seed!Change
  <2>2. pc \notin {"sent", "aborted"} /\ pc' # "sent"
    BY <1>2 DEF Seed!Start, Seed!Expire, Seed!Begin, Seed!Report, Seed!Break, Seed!Conclude,
                Seed!Accept, Seed!Execute, Seed!Verify, Seed!Complete, Seed!Change, Seed!Abort
  <2> QED BY <2>1, <2>2, NothingIsRequested
<1>3. CASE \/ Seed!Reserve \/ Seed!Lose \/ Seed!Misaccount
           \/ \E cost \in Seed!MayCharge, faithful \in BOOLEAN : Seed!Receive(cost, faithful)
  BY <1>3, RequestsAreAccounted
<1> QED BY <1>1, <1>2, <1>3 DEF Seed!Next

(* openrouter.py: the provider never saw a request that was not reserved,   *)
(* none was repeated, and all that it charged for is in the ledger, but for *)
(* the one with which the run ended; for any prices, budgets and any fate   *)
(* of the answers.                                                          *)
THEOREM TheSeedIsAccounted ==
  ASSUME Seed!SeedAssumption
  PROVE  Seed!Spec => []Seed!EveryRequestIsAccounted
<1>1. Seed!Init => LedgerInv
  BY DEF Seed!Init, Seed!Nothing, Seed!SeedAssumption, LedgerInv, LedgerType, Outstanding
<1>2. LedgerInv /\ [Seed!Next]_(Seed!vars) => LedgerInv'
  BY LedgerStep
<1>3. LedgerInv => Seed!EveryRequestIsAccounted
  <2> SUFFICES ASSUME LedgerInv PROVE Seed!EveryRequestIsAccounted
    OBVIOUS
  <2>1. ledger.requests \in Nat /\ provider.answers \in Nat /\ provider.seen \in Nat
    BY DEF LedgerInv, LedgerType
  <2> QED BY <2>1 DEF LedgerInv, Outstanding, Seed!EveryRequestIsAccounted
<1> QED BY <1>1, <1>2, <1>3, PTL DEF Seed!Spec
=============================================================================
