---------------------------- MODULE CampaignLemmas ----------------------------
(***************************************************************************)
(* What one transaction of the campaign database does, whatever its        *)
(* arguments: lemmas for the proofs about every module that composes       *)
(* Campaigns with the variables of its own.  At the end, facts about       *)
(* numbers and sums that the proofs about the gates share.                 *)
(***************************************************************************)
EXTENDS Campaigns, FiniteSetTheorems, TLAPS

(* What a caller of repository.transition asks for in src: the two states  *)
(* of submit_evaluation, and the closing ones.                             *)
CallerStates == {"evaluation_pending", "approval_pending"} \cup ClosedStates

(* A transaction that writes to campaign c at time t.  A reservation that   *)
(* finds its campaign open writes nothing.                                  *)
Transaction(c, t) ==
  \/ \E g \in Target, f \in Fingerprint, gen \in Actor, need \in Nat \ {0},
        initial \in InitialStates : InsertCampaign(c, g, f, gen, need, initial, t)
  \/ \E cand \in Candidate : AttachCandidate(c, cand, camp[c].rev, t)
  \/ \E to \in CallerStates, cool \in Nat : Transition(c, to, camp[c].rev, cool, t)
  \/ \E a \in Actor, decision \in Decisions, cool \in Nat :
       RecordApproval(c, a, decision, camp[c].rev, cool, t)

BeforeApproval == {"open", "evidence_accumulating", "candidate_ready",
                   "evaluation_pending"}
WithCandidate == {"candidate_ready", "evaluation_pending", "approval_pending",
                  "authorized", "completed"}

(* The inductive invariant of one campaign: nobody decides before the      *)
(* approval phase, the generator never does, and what is approved exists.  *)
ApprovalInvAt(c) ==
  /\ ~Exists(c) \/ camp[c].state \in BeforeApproval =>
       \A a \in Actor : approvals[c][a] = "none"
  /\ Exists(c) => approvals[c][camp[c].gen] = "none"
  /\ camp[c].state \in WithCandidate => camp[c].cand # NoCandidate
  /\ camp[c].state = "approval_pending" => Cardinality(Approvers(c)) < camp[c].need
  /\ camp[c].state \in {"authorized", "completed"} =>
       Cardinality(Approvers(c)) >= camp[c].need
  /\ \A a \in Actor : approvals[c][a] = "reject" => camp[c].state = "rejected"

ApprovalInv == \A c \in CampaignId : ApprovalInvAt(c)

-----------------------------------------------------------------------------
(* The repository's transactions *)

(* A stored row is well typed, an absent one has no state.                 *)
LEMMA RowFacts ==
  ASSUME CampaignsTypeOK, NEW c \in CampaignId
  PROVE  /\ Exists(c) <=> camp[c] \in RowBy(Actor)
         /\ ~Exists(c) <=> camp[c] = NoRow
         /\ camp[c].state \in States <=> Exists(c)
BY DEF CampaignsTypeOK, Exists, RowBy, NoRow, States, OpenStates, ClosedStates

LEMMA UpdatedRow ==
  ASSUME NEW r \in RowBy(Actor), NEW to \in States, NEW t \in Nat, NEW until \in Nat,
         NEW n \in Nat
  PROVE  [r EXCEPT !.state = to, !.upd = t, !.rev = n, !.cool = until] \in RowBy(Actor)
BY DEF RowBy

LEMMA AttachedRow ==
  ASSUME NEW r \in RowBy(Actor), NEW to \in States, NEW t \in Nat, NEW cand \in Candidate,
         NEW n \in Nat
  PROVE  [r EXCEPT !.cand = cand, !.state = to, !.upd = t, !.rev = n] \in RowBy(Actor)
BY DEF RowBy

(* The audit log and the rows written by the helpers of the transactions.  *)
LEMMA AppendEventType ==
  ASSUME CampaignsTypeOK, NEW c \in CampaignId, NEW state \in States,
         AppendEvent(c, state)
  PROVE  audit' \in [CampaignId -> [writes: Nat, state: States \cup {"absent"}]]
<1>1. PICK told \in [writes: Nat, state: States \cup {"absent"}], n \in Nat :
        told = audit[c] /\ n = told.writes + 1
  BY DEF CampaignsTypeOK
<1>2. audit' = [audit EXCEPT ![c] = [told EXCEPT !.writes = n, !.state = state]]
  BY <1>1 DEF AppendEvent, CampaignsTypeOK
<1> QED BY <1>2 DEF CampaignsTypeOK

LEMMA WriteStateType ==
  ASSUME CampaignsTypeOK, NEW c \in CampaignId, Exists(c),
         NEW to \in States, NEW cool \in Nat, NEW t \in Nat, WriteState(c, to, cool, t)
  PROVE  camp' \in [CampaignId -> RowBy(Actor) \cup {NoRow}]
<1>1. PICK r \in RowBy(Actor), n \in Nat, until \in Nat :
        /\ r = camp[c] /\ n = r.rev + 1
        /\ until = IF cool = 0 THEN 0 ELSE t + cool
  BY RowFacts DEF RowBy
<1>2. camp' = [camp EXCEPT ![c] =
        [r EXCEPT !.state = to, !.upd = t, !.rev = n, !.cool = until]]
  BY <1>1 DEF WriteState, CampaignsTypeOK
<1>3. [r EXCEPT !.state = to, !.upd = t, !.rev = n, !.cool = until] \in RowBy(Actor)
  BY UpdatedRow
<1> QED BY <1>2, <1>3 DEF CampaignsTypeOK

(* Every transaction keeps the three tables well typed.                    *)
LEMMA TransactionType ==
  ASSUME CampaignsTypeOK, CampaignsAssumption,
         NEW c \in CampaignId, NEW t \in Nat, Transaction(c, t)
  PROVE  CampaignsTypeOK'
<1>2. ASSUME NEW g \in Target, NEW f \in Fingerprint, NEW gen \in Actor,
             NEW need \in Nat \ {0}, NEW initial \in InitialStates,
             InsertCampaign(c, g, f, gen, need, initial, t)
      PROVE  CampaignsTypeOK'
  <2>1. initial \in States
    BY DEF InitialStates, States, OpenStates
  <2>2. camp' \in [CampaignId -> RowBy(Actor) \cup {NoRow}]
    BY <1>2, <2>1 DEF InsertCampaign, RowBy, CampaignsTypeOK
  <2> QED BY <1>2, <2>1, <2>2, AppendEventType
          DEF InsertCampaign, CampaignsTypeOK
<1>3. ASSUME NEW cand \in Candidate,
             AttachCandidate(c, cand, camp[c].rev, t)
      PROVE  CampaignsTypeOK'
  <2>1. "candidate_ready" \in States
    BY DEF States, OpenStates
  <2>2. camp' \in [CampaignId -> RowBy(Actor) \cup {NoRow}]
    <3>1. PICK r \in RowBy(Actor), n \in Nat : r = camp[c] /\ n = r.rev + 1
      BY <1>3, RowFacts DEF AttachCandidate, RowBy
    <3>2. camp' = [camp EXCEPT ![c] = [r EXCEPT !.cand = cand,
                     !.state = "candidate_ready", !.upd = t, !.rev = n]]
      BY <1>3, <3>1 DEF AttachCandidate, CampaignsTypeOK
    <3>3. [r EXCEPT !.cand = cand, !.state = "candidate_ready", !.upd = t, !.rev = n]
            \in RowBy(Actor)
      BY <2>1, AttachedRow
    <3> QED BY <3>2, <3>3 DEF CampaignsTypeOK
  <2> QED BY <1>3, <2>1, <2>2, AppendEventType
          DEF AttachCandidate, CampaignsTypeOK
<1>4. ASSUME NEW to \in CallerStates, NEW cool \in Nat,
             Transition(c, to, camp[c].rev, cool, t)
      PROVE  CampaignsTypeOK'
  <2>1. to \in States
    BY DEF CallerStates, States, OpenStates
  <2>2. camp' \in [CampaignId -> RowBy(Actor) \cup {NoRow}]
    BY <1>4, <2>1, WriteStateType DEF Transition
  <2> QED BY <1>4, <2>1, <2>2, AppendEventType DEF Transition, CampaignsTypeOK
<1>5. ASSUME NEW a \in Actor, NEW decision \in Decisions,
             NEW cool \in Nat,
             RecordApproval(c, a, decision, camp[c].rev, cool, t)
      PROVE  CampaignsTypeOK'
  <2>1. PICK next \in States, d \in Nat :
          WriteState(c, next, d, t) /\ AppendEvent(c, next)
    BY <1>5 DEF RecordApproval, States, OpenStates, ClosedStates
  <2>2. camp' \in [CampaignId -> RowBy(Actor) \cup {NoRow}]
    BY <1>5, <2>1, WriteStateType DEF RecordApproval
  <2> QED BY <1>5, <2>1, <2>2, AppendEventType
          DEF RecordApproval, CampaignsTypeOK
<1> QED BY <1>2, <1>3, <1>4, <1>5 DEF Transaction

(* What the write of a state leaves of the row it writes to.               *)
LEMMA WriteStateEffect ==
  ASSUME CampaignsTypeOK, NEW c \in CampaignId, Exists(c),
         NEW to \in States, NEW cool \in Nat, NEW t \in Nat, WriteState(c, to, cool, t)
  PROVE  /\ camp'[c].state = to
         /\ camp'[c].rev = camp[c].rev + 1
         /\ camp'[c].target = camp[c].target
         /\ camp'[c].gen = camp[c].gen
         /\ camp'[c].need = camp[c].need
         /\ camp'[c].cand = camp[c].cand
BY RowFacts DEF CampaignsTypeOK, WriteState, RowBy

-----------------------------------------------------------------------------
(* What a transaction tells its caller *)

(* It inserts a row ...                                                     *)
Inserted(c, t) ==
  /\ ~Exists(c) /\ camp'[c] \in RowBy(Actor) /\ camp'[c].state \in InitialStates
  /\ camp'[c].rev = 0 /\ camp'[c].cool = 0 /\ camp'[c].cand = NoCandidate
  /\ OpenOn(camp'[c].target) = {} /\ CooldownOver(camp'[c].target, t)

(* ... or replaces an open one, whose deadline it sets only to close it.    *)
Rewritten(c, t) ==
  /\ camp[c] \in RowBy(Actor) /\ camp[c].state \in OpenStates
  /\ camp'[c] \in RowBy(Actor) /\ camp'[c].rev = camp[c].rev + 1
  /\ camp'[c].target = camp[c].target /\ camp'[c].fp = camp[c].fp
  /\ camp'[c].gen = camp[c].gen /\ camp'[c].need = camp[c].need
  /\ camp[c].state \notin InitialStates => camp'[c].cand = camp[c].cand
  /\ \/ camp'[c].cool \in {0, camp[c].cool}
     \/ camp'[c].cool > t /\ camp'[c].state \in ClosedStates

LEMMA TransactionEffect ==
  ASSUME CampaignsTypeOK, NEW c \in CampaignId, NEW t \in Nat, Transaction(c, t)
  PROVE  /\ Inserted(c, t) \/ Rewritten(c, t)
         /\ camp'[c].upd = t
         /\ audit'[c] = [writes |-> audit[c].writes + 1, state |-> camp'[c].state]
         /\ \A a \in Actor : approvals[c][a] # "none" => approvals'[c][a] = approvals[c][a]
         /\ \A d \in CampaignId \ {c} :
              camp'[d] = camp[d] /\ approvals'[d] = approvals[d] /\ audit'[d] = audit[d]
<1> USE DEF CampaignsTypeOK
<1> DEFINE Others == \A d \in CampaignId \ {c} :
                       camp'[d] = camp[d] /\ approvals'[d] = approvals[d] /\ audit'[d] = audit[d]
           Told(to) == audit'[c] = [writes |-> audit[c].writes + 1, state |-> to]
           Kept == \A a \in Actor : approvals[c][a] # "none" =>
                     approvals'[c][a] = approvals[c][a]
<1>1. ASSUME NEW to \in States, AppendEvent(c, to)
      PROVE  Told(to) /\ \A d \in CampaignId \ {c} : audit'[d] = audit[d]
  BY <1>1 DEF AppendEvent
<1>2. ASSUME NEW to \in States, NEW cool \in Nat, WriteState(c, to, cool, t),
             camp[c] \in RowBy(Actor)
      PROVE  /\ camp'[c].state = to /\ camp'[c].upd = t /\ camp'[c].rev = camp[c].rev + 1
             /\ camp'[c].target = camp[c].target /\ camp'[c].fp = camp[c].fp
             /\ camp'[c].gen = camp[c].gen /\ camp'[c].need = camp[c].need
             /\ camp'[c].cand = camp[c].cand
             /\ camp'[c].cool = IF cool = 0 THEN 0 ELSE t + cool
             /\ \A d \in CampaignId \ {c} : camp'[d] = camp[d]
  BY <1>2 DEF WriteState, RowBy
<1>3. ASSUME NEW g \in Target, NEW f \in Fingerprint, NEW gen \in Actor,
             NEW need \in Nat \ {0}, NEW initial \in InitialStates,
             InsertCampaign(c, g, f, gen, need, initial, t)
      PROVE  Inserted(c, t) /\ camp'[c].upd = t /\ Told(camp'[c].state) /\ Others /\ Kept
  <2>1. initial \in States
    BY DEF InitialStates, States, OpenStates
  <2>2. /\ camp'[c] = [state |-> initial, target |-> g, fp |-> f, gen |-> gen, need |-> need,
                        cand |-> NoCandidate, upd |-> t, cool |-> 0, rev |-> 0]
        /\ \A d \in CampaignId \ {c} : camp'[d] = camp[d] /\ approvals'[d] = approvals[d]
    BY <1>3 DEF InsertCampaign
  <2>3. camp'[c] \in RowBy(Actor)
    BY <2>1, <2>2 DEF RowBy
  <2> QED BY <1>3, <2>1, <2>2, <2>3, <1>1 DEF InsertCampaign, Inserted
<1>4. ASSUME NEW cand \in Candidate, AttachCandidate(c, cand, camp[c].rev, t)
      PROVE  Rewritten(c, t) /\ camp'[c].upd = t /\ Told(camp'[c].state) /\ Others /\ Kept
  <2>1. /\ "candidate_ready" \in States /\ camp[c].state \in OpenStates
        /\ camp[c].state \in InitialStates /\ camp[c] \in RowBy(Actor)
    BY <1>4, RowFacts
       DEF AttachCandidate, MayAttach, LegalTransitions, States, OpenStates, InitialStates
  <2>2. camp'[c] \in RowBy(Actor)
    <3>1. PICK r \in RowBy(Actor), n \in Nat : r = camp[c] /\ n = r.rev + 1
      BY <2>1 DEF RowBy
    <3>2. camp'[c] = [r EXCEPT !.cand = cand, !.state = "candidate_ready", !.upd = t, !.rev = n]
      BY <1>4, <3>1 DEF AttachCandidate
    <3>3. [r EXCEPT !.cand = cand, !.state = "candidate_ready", !.upd = t, !.rev = n]
            \in RowBy(Actor)
      BY <2>1, AttachedRow
    <3> QED BY <3>2, <3>3
  <2>3. /\ camp'[c].state = "candidate_ready" /\ camp'[c].upd = t
        /\ camp'[c].rev = camp[c].rev + 1 /\ camp'[c].cool = camp[c].cool
        /\ camp'[c].target = camp[c].target /\ camp'[c].fp = camp[c].fp
        /\ camp'[c].gen = camp[c].gen /\ camp'[c].need = camp[c].need
        /\ \A d \in CampaignId \ {c} : camp'[d] = camp[d] /\ approvals'[d] = approvals[d]
    BY <1>4, <2>1 DEF AttachCandidate, RowBy
  <2>4. AppendEvent(c, "candidate_ready") /\ approvals' = approvals
    BY <1>4 DEF AttachCandidate
  <2> QED BY <2>1, <2>2, <2>3, <2>4, <1>1 DEF Rewritten
<1>5. ASSUME NEW to \in CallerStates, NEW cool \in Nat,
             Transition(c, to, camp[c].rev, cool, t)
      PROVE  Rewritten(c, t) /\ camp'[c].upd = t /\ Told(camp'[c].state) /\ Others /\ Kept
  <2>1. /\ to \in States /\ camp[c].state \in OpenStates /\ camp[c] \in RowBy(Actor)
    BY <1>5, RowFacts DEF Transition, LegalTransitions, CallerStates, States, OpenStates
  <2>2. PICK wait \in Nat : /\ WriteState(c, to, wait, t)
                            /\ wait # 0 => to \in ClosedStates
    BY <1>5 DEF Transition, ClosedStates
  <2>3. camp'[c] \in RowBy(Actor)
    <3>1. Exists(c) /\ camp'[c] # NoRow
      BY <1>5, <1>2, <2>1, <2>2 DEF Transition, NoRow, States, OpenStates, ClosedStates
    <3> QED BY <2>1, <2>2, <3>1, WriteStateType
  <2>4. AppendEvent(c, to) /\ approvals' = approvals
    BY <1>5 DEF Transition
  <2> QED BY <1>1, <1>2, <2>1, <2>2, <2>3, <2>4 DEF Rewritten
<1>6. ASSUME NEW a \in Actor, NEW decision \in Decisions, NEW cool \in Nat,
             RecordApproval(c, a, decision, camp[c].rev, cool, t)
      PROVE  Rewritten(c, t) /\ camp'[c].upd = t /\ Told(camp'[c].state) /\ Others /\ Kept
  <2>1. Exists(c) /\ camp[c].state \in OpenStates /\ camp[c] \in RowBy(Actor)
    BY <1>6, RowFacts DEF RecordApproval, OpenStates
  <2>2. PICK to \in States, wait \in Nat :
          /\ WriteState(c, to, wait, t) /\ AppendEvent(c, to)
          /\ wait # 0 => to \in ClosedStates
    BY <1>6 DEF RecordApproval, States, OpenStates, ClosedStates
  <2>3. camp'[c] \in RowBy(Actor)
    <3>1. camp'[c] # NoRow
      BY <1>2, <2>1, <2>2 DEF NoRow, States, OpenStates, ClosedStates
    <3> QED BY <2>1, <2>2, <3>1, WriteStateType
  <2>4. Kept /\ \A d \in CampaignId \ {c} : approvals'[d] = approvals[d]
    BY <1>6 DEF RecordApproval
  <2> QED BY <1>1, <1>2, <2>1, <2>2, <2>3, <2>4 DEF Rewritten
<1> QED BY <1>3, <1>4, <1>5, <1>6 DEF Transaction

LEMMA OthersUntouched ==
  ASSUME CampaignsTypeOK, NEW c \in CampaignId, NEW t \in Nat, Transaction(c, t),
         NEW d \in CampaignId, d # c
  PROVE  camp'[d] = camp[d] /\ approvals'[d] = approvals[d] /\ audit'[d] = audit[d]
<1>1. d \in CampaignId \ {c}
  OBVIOUS
<1> QED BY <1>1, TransactionEffect

(* No transaction deletes a row.                                           *)
LEMMA TransactionKeepsRow ==
  ASSUME CampaignsTypeOK, NEW c \in CampaignId, NEW t \in Nat, Transaction(c, t)
  PROVE  camp'[c] \in RowBy(Actor) /\ Exists(c)'
<1>1. camp'[c] \in RowBy(Actor)
  BY TransactionEffect DEF Inserted, Rewritten
<1> QED BY <1>1 DEF Exists, RowBy, States, OpenStates, ClosedStates

(* The states that the operations write.                                    *)
LEMMA StatesWritten ==
  ASSUME CampaignsTypeOK, NEW c \in CampaignId, NEW t \in Nat, NEW rev
  PROVE  /\ \A g, f, gen, need, initial :
              InsertCampaign(c, g, f, gen, need, initial, t) => camp'[c].state = initial
         /\ \A cand : AttachCandidate(c, cand, rev, t) => camp'[c].state = "candidate_ready"
         /\ \A to, cool : Transition(c, to, rev, cool, t) => camp'[c].state = to
         /\ \A a, cool : RecordApproval(c, a, "reject", rev, cool, t) => camp'[c].state = "rejected"
         /\ \A a, cool : RecordApproval(c, a, "approve", rev, cool, t) =>
              camp'[c].state \in {"authorized", "approval_pending"}
<1> USE DEF CampaignsTypeOK
<1>1. ASSUME NEW g, NEW f, NEW gen, NEW need, NEW initial,
             InsertCampaign(c, g, f, gen, need, initial, t)
      PROVE  camp'[c].state = initial
  BY <1>1 DEF InsertCampaign
<1>2. ASSUME NEW cand, AttachCandidate(c, cand, rev, t)
      PROVE  camp'[c].state = "candidate_ready"
  BY <1>2, RowFacts DEF AttachCandidate, RowBy
<1>3. ASSUME NEW to, NEW cool, WriteState(c, to, cool, t), Exists(c)
      PROVE  camp'[c].state = to
  BY <1>3, RowFacts DEF WriteState, RowBy
<1>4. ASSUME NEW to, NEW cool, Transition(c, to, rev, cool, t)
      PROVE  camp'[c].state = to
  BY <1>3, <1>4 DEF Transition
<1>5. ASSUME NEW a, NEW cool, RecordApproval(c, a, "reject", rev, cool, t)
      PROVE  camp'[c].state = "rejected"
  BY <1>3, <1>5 DEF RecordApproval
<1>6. ASSUME NEW a, NEW cool, RecordApproval(c, a, "approve", rev, cool, t)
      PROVE  camp'[c].state \in {"authorized", "approval_pending"}
  BY <1>3, <1>6 DEF RecordApproval
<1> QED BY <1>1, <1>2, <1>4, <1>5, <1>6

(* What the operations that replace a row write, whatever their caller      *)
(* expected of it.                                                          *)
LEMMA TransitionWrites ==
  ASSUME CampaignsTypeOK, NEW c \in CampaignId, NEW to, NEW rev, NEW t \in Nat,
         Transition(c, to, rev, 0, t)
  PROVE  /\ Exists(c) /\ <<camp[c].state, to>> \in LegalTransitions
         /\ camp'[c].state = to /\ camp'[c].rev = camp[c].rev + 1
         /\ camp'[c].cand = camp[c].cand /\ approvals' = approvals
<1>1. to \in States /\ WriteState(c, to, 0, t) /\ Exists(c)
  BY DEF Transition, LegalTransitions, States, OpenStates, ClosedStates
<1>2. /\ camp'[c].state = to /\ camp'[c].rev = camp[c].rev + 1 /\ camp'[c].cand = camp[c].cand
  BY <1>1, WriteStateEffect
<1> QED BY <1>2 DEF Transition

LEMMA AttachWrites ==
  ASSUME CampaignsTypeOK, NEW c \in CampaignId, NEW cand \in Candidate, NEW rev,
         NEW t \in Nat, AttachCandidate(c, cand, rev, t)
  PROVE  /\ Exists(c) /\ camp[c].state \in InitialStates
         /\ camp'[c].state = "candidate_ready" /\ camp'[c].cand = cand
         /\ camp'[c].rev = camp[c].rev + 1 /\ approvals' = approvals
<1>1. PICK r \in RowBy(Actor), n \in Nat : r = camp[c] /\ n = r.rev + 1
  BY RowFacts DEF AttachCandidate, RowBy
<1>2. camp'[c] = [r EXCEPT !.cand = cand, !.state = "candidate_ready", !.upd = t, !.rev = n]
  BY <1>1 DEF AttachCandidate, CampaignsTypeOK
<1>3. Exists(c) /\ camp[c].state \in InitialStates /\ approvals' = approvals
  BY DEF AttachCandidate, MayAttach, LegalTransitions, InitialStates
<1> QED BY <1>1, <1>2, <1>3 DEF RowBy

(* A vote adds one approver, or none; the one that is needed authorizes.    *)
LEMMA ApprovalWrites ==
  ASSUME CampaignsTypeOK, CampaignsAssumption, NEW c \in CampaignId, NEW a \in Actor,
         NEW decision \in Decisions, NEW rev, NEW t \in Nat,
         RecordApproval(c, a, decision, rev, 0, t)
  PROVE  /\ Exists(c) /\ camp[c].state = "approval_pending" /\ approvals[c][a] = "none"
         /\ camp'[c].rev = camp[c].rev + 1 /\ camp'[c].cand = camp[c].cand
         /\ decision = "reject" => Approvers(c)' = Approvers(c) /\ camp'[c].state = "rejected"
         /\ decision = "approve" =>
              /\ Approvers(c)' = Approvers(c) \cup {a}
              /\ IsFiniteSet(Approvers(c))
              /\ Cardinality(Approvers(c)') = Cardinality(Approvers(c)) + 1
              /\ camp'[c].state = IF Cardinality(Approvers(c)') >= camp[c].need THEN "authorized"
                                  ELSE "approval_pending"
         /\ \A d \in CampaignId \ {c} : Approvers(d)' = Approvers(d)
<1> DEFINE next == IF decision = "reject" THEN "rejected"
                   ELSE IF ThresholdMet(c, a) THEN "authorized" ELSE "approval_pending"
<1>1. /\ Exists(c) /\ camp[c].state = "approval_pending" /\ approvals[c][a] = "none"
      /\ WriteState(c, next, 0, t) /\ approvals' = [approvals EXCEPT ![c][a] = decision]
  BY DEF RecordApproval
<1>2. next \in States
  BY DEF States, OpenStates, ClosedStates
<1>3. camp'[c].state = next /\ camp'[c].rev = camp[c].rev + 1 /\ camp'[c].cand = camp[c].cand
  <2> HIDE DEF next
  <2> QED BY <1>1, <1>2, WriteStateEffect
<1>4. /\ \A b \in Actor : approvals'[c][b] = IF b = a THEN decision ELSE approvals[c][b]
      /\ \A d \in CampaignId \ {c} : Approvers(d)' = Approvers(d)
  BY <1>1 DEF CampaignsTypeOK, Approvers
<1>5. CASE decision = "reject"
  <2>1. Approvers(c)' = Approvers(c)
    BY <1>1, <1>4, <1>5 DEF Approvers
  <2> QED BY <1>1, <1>3, <1>4, <1>5, <2>1
<1>6. CASE decision = "approve"
  <2>1. Approvers(c)' = Approvers(c) \cup {a} /\ a \notin Approvers(c)
    BY <1>1, <1>4, <1>6 DEF Approvers
  <2>2. IsFiniteSet(Approvers(c))
    BY FS_Subset DEF CampaignsAssumption, Approvers
  <2>3. Cardinality(Approvers(c) \cup {a}) = Cardinality(Approvers(c)) + 1
    BY <2>1, <2>2, FS_AddElement
  <2> QED BY <1>1, <1>3, <1>4, <1>6, <2>1, <2>2, <2>3 DEF ThresholdMet
<1> QED BY <1>5, <1>6 DEF Decisions

(* A transaction keeps the approvals sound.                                 *)
LEMMA TransactionApproval ==
  ASSUME CampaignsTypeOK, CampaignsAssumption,
         NEW c \in CampaignId, NEW t \in Nat, Transaction(c, t),
         ApprovalInv
  PROVE  ApprovalInv'
<1>0. /\ ApprovalInvAt(c) /\ CampaignsTypeOK'
  BY TransactionType DEF ApprovalInv
<1>1. ASSUME NEW d \in CampaignId, d # c
      PROVE  ApprovalInvAt(d)'
  <2>1. camp'[d] = camp[d] /\ approvals'[d] = approvals[d] /\ ApprovalInvAt(d)
    BY <1>1, OthersUntouched DEF ApprovalInv
  <2> QED BY <2>1 DEF ApprovalInvAt, Exists, Approvers
<1>3. ASSUME NEW g \in Target, NEW f \in Fingerprint, NEW gen \in Actor,
             NEW need \in Nat \ {0}, NEW initial \in InitialStates,
             InsertCampaign(c, g, f, gen, need, initial, t)
      PROVE  ApprovalInvAt(c)'
  <2>1. /\ camp'[c].state = initial /\ camp'[c].gen = gen
        /\ approvals' = approvals /\ \A a \in Actor : approvals[c][a] = "none"
    BY <1>0, <1>3 DEF InsertCampaign, CampaignsTypeOK, ApprovalInvAt
  <2> QED BY <2>1 DEF ApprovalInvAt, InitialStates, WithCandidate, Exists, Approvers
<1>4. ASSUME NEW cand \in Candidate,
             AttachCandidate(c, cand, camp[c].rev, t)
      PROVE  ApprovalInvAt(c)'
  <2>1. /\ camp'[c].state = "candidate_ready" /\ camp'[c].gen = camp[c].gen
        /\ camp'[c].cand = cand /\ approvals' = approvals
    BY <1>4, RowFacts DEF AttachCandidate, CampaignsTypeOK, RowBy
  <2>2. camp[c].state \in BeforeApproval /\ Exists(c)
    BY <1>4 DEF AttachCandidate, MayAttach, LegalTransitions, BeforeApproval
  <2> QED BY <1>0, <2>1, <2>2 DEF ApprovalInvAt, CampaignsAssumption, Exists, Approvers
<1>5. ASSUME NEW to \in CallerStates, NEW cool \in Nat,
             Transition(c, to, camp[c].rev, cool, t)
      PROVE  ApprovalInvAt(c)'
  <2>1. Exists(c) /\ approvals' = approvals /\ to \in States
    BY <1>5 DEF Transition, CallerStates, States, OpenStates
  <2>2. /\ camp'[c].state = to /\ camp'[c].gen = camp[c].gen
        /\ camp'[c].cand = camp[c].cand /\ camp'[c].need = camp[c].need
    BY <1>5, <2>1, WriteStateEffect DEF Transition
  <2>3. to \in WithCandidate => camp[c].state \in WithCandidate
    BY <1>5 DEF Transition, LegalTransitions, WithCandidate, CallerStates, ClosedStates
  <2>4. to \in BeforeApproval => camp[c].state \in BeforeApproval
    BY <1>5 DEF Transition, LegalTransitions, BeforeApproval
  <2>5. CASE to = "approval_pending"
    <3>1. \A a \in Actor : approvals[c][a] = "none"
      BY <1>0, <1>5, <2>5 DEF Transition, LegalTransitions, ApprovalInvAt, BeforeApproval
    <3>2. Approvers(c)' = {}
      BY <2>1, <3>1 DEF Approvers
    <3>3. Cardinality(Approvers(c)') = 0
      BY <3>2, FS_EmptySet
    <3>4. camp'[c].need > 0
      BY <2>1, <2>2, RowFacts DEF RowBy
    <3> QED BY <1>0, <2>1, <2>2, <2>3, <2>5, <3>1, <3>3, <3>4
            DEF ApprovalInvAt, Exists, BeforeApproval
  <2>6. CASE to # "approval_pending"
    <3>1. to # "authorized" /\ (to = "completed" => camp[c].state = "authorized")
      BY <1>5 DEF Transition, LegalTransitions, CallerStates, ClosedStates
    <3>2. camp[c].state # "rejected"
      BY <1>5 DEF Transition, LegalTransitions
    <3>3. to # "absent" /\ Approvers(c)' = Approvers(c)
      BY <2>1 DEF States, OpenStates, ClosedStates, Approvers
    <3> QED BY <1>0, <2>1, <2>2, <2>3, <2>4, <2>6, <3>1, <3>2, <3>3
            DEF ApprovalInvAt, Exists
  <2> QED BY <2>5, <2>6
<1>6. ASSUME NEW a \in Actor, NEW decision \in Decisions,
             NEW cool \in Nat,
             RecordApproval(c, a, decision, camp[c].rev, cool, t)
      PROVE  ApprovalInvAt(c)'
  <2> DEFINE next == IF decision = "reject" THEN "rejected"
                     ELSE IF ThresholdMet(c, a) THEN "authorized" ELSE "approval_pending"
             wait == IF decision = "reject" THEN cool ELSE 0
  <2>1. /\ Exists(c) /\ camp[c].state = "approval_pending" /\ a # camp[c].gen
        /\ approvals[c][a] = "none" /\ WriteState(c, next, wait, t)
        /\ approvals' = [approvals EXCEPT ![c][a] = decision]
    BY <1>6 DEF RecordApproval
  <2>2. next \in States /\ wait \in Nat
    BY DEF States, OpenStates, ClosedStates
  <2>3. /\ camp'[c].state = next /\ camp'[c].gen = camp[c].gen
        /\ camp'[c].cand = camp[c].cand /\ camp'[c].need = camp[c].need
    <3> HIDE DEF next, wait
    <3> QED BY <2>1, <2>2, WriteStateEffect
  <2>4. \A b \in Actor : approvals'[c][b] = IF b = a THEN decision ELSE approvals[c][b]
    BY <2>1 DEF CampaignsTypeOK
  <2>5. camp[c].gen \in Actor /\ camp[c].need \in Nat
    BY <2>1, RowFacts DEF RowBy
  <2>6. CASE decision = "reject"
    BY <1>0, <2>1, <2>3, <2>4, <2>5, <2>6
       DEF ApprovalInvAt, Exists, BeforeApproval, WithCandidate
  <2>7. CASE decision = "approve"
    <3>1. Approvers(c)' = Approvers(c) \cup {a}
      BY <2>4, <2>7 DEF Approvers
    <3>2. Cardinality(Approvers(c) \cup {a}) \in Nat
      <4>1. IsFiniteSet(Approvers(c) \cup {a})
        BY FS_Subset DEF CampaignsAssumption, Approvers
      <4> QED BY <4>1, FS_CardinalityType
    <3>3. /\ camp'[c].state = "approval_pending" => Cardinality(Approvers(c)') < camp'[c].need
          /\ camp'[c].state = "authorized" => Cardinality(Approvers(c)') >= camp'[c].need
      BY <2>3, <2>5, <2>7, <3>1, <3>2 DEF ThresholdMet
    <3>4. camp'[c].state \in {"approval_pending", "authorized"}
      BY <2>3, <2>7
    <3> QED BY <1>0, <2>1, <2>3, <2>4, <2>5, <2>7, <3>3, <3>4
            DEF ApprovalInvAt, Exists, BeforeApproval, WithCandidate
  <2> QED BY <2>6, <2>7 DEF Decisions
<1>7. ApprovalInvAt(c)'
  BY <1>3, <1>4, <1>5, <1>6 DEF Transaction
<1> QED BY <1>1, <1>7 DEF ApprovalInv

(* Once somebody approved a campaign its row stands for the same candidate  *)
(* for ever, and approvals are only added.                                  *)
LEMMA ApprovalsStay ==
  ASSUME CampaignsTypeOK, ApprovalInv, NEW c \in CampaignId, NEW t \in Nat, Transaction(c, t),
         NEW d \in CampaignId, Exists(d), Approvers(d) # {}
  PROVE  /\ Exists(d)' /\ camp'[d].cand = camp[d].cand /\ camp'[d].target = camp[d].target
         /\ camp'[d].fp = camp[d].fp /\ camp'[d].gen = camp[d].gen
         /\ camp'[d].need = camp[d].need
         /\ Approvers(d) \subseteq Approvers(d)'
<1>1. CASE d # c
  BY <1>1, OthersUntouched DEF Exists, Approvers
<1>2. CASE d = c
  <2>1. Rewritten(c, t) /\ Exists(c)'
    BY <1>2, TransactionEffect, TransactionKeepsRow DEF Inserted
  <2>2. camp[c].state \notin InitialStates
    BY <1>2 DEF ApprovalInv, ApprovalInvAt, Approvers, InitialStates, BeforeApproval
  <2>3. Approvers(c) \subseteq Approvers(c)'
    BY TransactionEffect DEF Approvers
  <2> QED BY <1>2, <2>1, <2>2, <2>3 DEF Rewritten
<1> QED BY <1>1, <1>2

(* A campaign on which all have voted or that is closed.                    *)
Decided(c) == Exists(c) /\ camp[c].state \in {"authorized"} \cup ClosedStates

(* A decided campaign has all its votes.                                    *)
LEMMA DecidedStays ==
  ASSUME CampaignsTypeOK, NEW c \in CampaignId, NEW t \in Nat, Transaction(c, t),
         NEW d \in CampaignId, Exists(d)
  PROVE  /\ Exists(d)' /\ camp'[d].fp = camp[d].fp
         /\ camp'[d].target = camp[d].target /\ camp'[d].gen = camp[d].gen
         /\ camp'[d].need = camp[d].need
         /\ Decided(d) => /\ Decided(d)' /\ camp'[d].cand = camp[d].cand
                          /\ approvals'[d] = approvals[d] /\ Approvers(d)' = Approvers(d)
         /\ camp[d].state = "completed" => camp'[d] = camp[d]
<1>1. CASE d # c
  BY <1>1, OthersUntouched DEF Exists, Decided, Approvers
<1>2. CASE d = c
  <2>1. Rewritten(c, t) /\ Exists(c)'
    BY <1>2, TransactionEffect, TransactionKeepsRow DEF Inserted
  <2>2. ASSUME Decided(c)
        PROVE  Decided(c)' /\ approvals' = approvals /\ camp[c].state # "completed"
    <3>1. camp[c].state = "authorized"
      BY <2>1, <2>2 DEF Decided, Rewritten, OpenStates, ClosedStates
    <3>2. PICK to \in {"completed", "cancelled"}, cool \in Nat :
            Transition(c, to, camp[c].rev, cool, t)
      BY <1>2, <2>1, <3>1
         DEF Transaction, InsertCampaign, AttachCandidate, MayAttach, LegalTransitions,
             RecordApproval, Transition
    <3>3. camp'[c].state = to
      BY <3>2, StatesWritten
    <3> QED BY <2>1, <3>1, <3>2, <3>3 DEF Decided, Transition, ClosedStates
  <2>3. camp[c].state = "completed" => Decided(c)
    BY <1>2 DEF Decided, ClosedStates
  <2> QED BY <1>2, <2>1, <2>2, <2>3 DEF Rewritten, Approvers, Decided, InitialStates,
                                               ClosedStates
<1> QED BY <1>1, <1>2

-----------------------------------------------------------------------------
(* Numbers and sums, for the decision rules of the gates *)

(* Some number of a set is the least: this stands for induction below.      *)
LEMMA LeastNatural ==
  ASSUME NEW S \in SUBSET Nat, S # {}
  PROVE  \E n \in S : \A m \in S : n <= m
<1> DEFINE R == OpToRel(<, Nat)
<1>1. IsWellFoundedOn(R, Nat)
  BY NatLessThanWellFounded
<1>2. PICK x \in S : \A y \in S : ~(<<y, x>> \in R)
  <2> HIDE DEF R
  <2> QED BY <1>1, WFMin
<1>3. ASSUME NEW y \in S PROVE x <= y
  <2>1. ~(<<y, x>> \in R) BY <1>2
  <2>2. y \in Nat /\ x \in Nat OBVIOUS
  <2>3. ~(y < x)
    BY <2>1, <2>2 DEF OpToRel
  <2> QED BY <2>2, <2>3
<1> QED BY <1>3

(* A finite set of indices has one with the greatest value.                 *)
LEMMA GreatestValue ==
  ASSUME NEW D, IsFiniteSet(D), D # {}, NEW u, \A i \in D : u[i] \in Nat
  PROVE  \E j \in D : \A i \in D : u[i] <= u[j]
<1> DEFINE Below(j) == {i \in D : u[i] <= u[j]}
           C == {Cardinality(D) - Cardinality(Below(j)) : j \in D}
<1>1. \A j \in D : /\ IsFiniteSet(Below(j)) /\ Cardinality(Below(j)) \in Nat
                   /\ Cardinality(Below(j)) <= Cardinality(D)
  BY FS_Subset, FS_CardinalityType
<1>2. C \in SUBSET Nat /\ C # {}
  <2>1. Cardinality(D) \in Nat
    BY FS_CardinalityType
  <2>2. \A j \in D : Cardinality(D) - Cardinality(Below(j)) \in Nat
    <3> HIDE DEF Below
    <3> QED BY <1>1, <2>1
  <2> QED BY <2>2
<1>3. PICK n \in C : \A m \in C : n <= m
  BY <1>2, LeastNatural
<1>4. PICK j \in D : n = Cardinality(D) - Cardinality(Below(j))
  OBVIOUS
<1>5. ASSUME NEW k \in D, ~(u[k] <= u[j]) PROVE FALSE
  <2>1. Below(j) \subseteq Below(k) /\ k \in Below(k) /\ k \notin Below(j)
    BY <1>5
  <2>2. Cardinality(Below(j)) < Cardinality(Below(k))
    <3> HIDE DEF Below
    <3> QED BY <1>1, <2>1, FS_Subset, FS_CardinalityType
  <2>3. n <= Cardinality(D) - Cardinality(Below(k))
    BY <1>3
  <2> QED BY <1>1, <1>4, <2>2, <2>3, FS_CardinalityType
<1> QED BY <1>5

(* A part has no more members than the whole.                               *)
LEMMA Counts ==
  ASSUME NEW D, IsFiniteSet(D), NEW A \in SUBSET D, NEW B \in SUBSET A
  PROVE  Cardinality(B) \in Nat /\ Cardinality(A) \in Nat /\ Cardinality(B) <= Cardinality(A)
<1>1. IsFiniteSet(A)
  BY FS_Subset
<1>2. IsFiniteSet(B) /\ Cardinality(B) <= Cardinality(A)
  BY <1>1, FS_Subset
<1> QED BY <1>1, <1>2, FS_CardinalityType

(* A sum of naturals, as the number of the units that it is made of.        *)
SumUnits(D, u) == UNION {{i} \X (1 .. u[i]) : i \in D}

(* The units of finitely many summands are finitely many.                   *)
LEMMA SumIsNatural ==
  ASSUME NEW D, IsFiniteSet(D), NEW u, \A i \in D : u[i] \in Nat
  PROVE  IsFiniteSet(SumUnits(D, u)) /\ Cardinality(SumUnits(D, u)) \in Nat
<1> DEFINE f == [i \in D |-> {i} \X (1 .. u[i])]
           S == {f[i] : i \in D}
<1>1. f \in Surjection(D, S)
  <2>1. f \in [D -> S]
    OBVIOUS
  <2>2. \A T \in S : \E i \in D : f[i] = T
    OBVIOUS
  <2> HIDE DEF f, S
  <2> QED BY <2>1, <2>2 DEF Surjection
<1>2. IsFiniteSet(S)
  <2> HIDE DEF f, S
  <2> QED BY <1>1, FS_Surjection
<1>3. ASSUME NEW i \in D PROVE IsFiniteSet(f[i])
  <2>1. IsFiniteSet({i})
    BY FS_Singleton
  <2>2. u[i] \in Int
    OBVIOUS
  <2>3. IsFiniteSet(1 .. u[i])
    BY <2>2, FS_Interval
  <2> QED BY <2>1, <2>3, FS_Product
<1>4. \A T \in S : IsFiniteSet(T)
  BY <1>3
<1>5. SumUnits(D, u) = UNION S
  BY DEF SumUnits
<1>6. IsFiniteSet(SumUnits(D, u))
  BY <1>2, <1>4, <1>5, FS_UNION
<1> QED BY <1>6, FS_CardinalityType

(* The greater the summands the greater the sum; and if it is not, none of  *)
(* them is greater.                                                         *)
LEMMA SumIsMonotone ==
  ASSUME NEW D, IsFiniteSet(D), NEW u, NEW v,
         \A i \in D : u[i] \in Nat /\ v[i] \in Nat /\ u[i] <= v[i]
  PROVE  /\ Cardinality(SumUnits(D, u)) <= Cardinality(SumUnits(D, v))
         /\ Cardinality(SumUnits(D, u)) = Cardinality(SumUnits(D, v)) => \A i \in D : u[i] = v[i]
<1>1. SumUnits(D, u) \subseteq SumUnits(D, v)
  <2> SUFFICES ASSUME NEW i \in D, NEW p \in {i} \X (1 .. u[i]) PROVE p \in {i} \X (1 .. v[i])
    BY DEF SumUnits
  <2>1. 1 .. u[i] \subseteq 1 .. v[i]
    OBVIOUS
  <2> QED BY <2>1
<1>2. IsFiniteSet(SumUnits(D, v))
  BY SumIsNatural
<1>3. ASSUME SumUnits(D, u) = SumUnits(D, v), NEW i \in D, u[i] # v[i] PROVE FALSE
  <2>1. v[i] \in 1 .. v[i] /\ v[i] \notin 1 .. u[i]
    BY <1>3
  <2>2. <<i, v[i]>> \in SumUnits(D, u)
    BY <1>3, <2>1 DEF SumUnits
  <2>3. PICK j \in D : <<i, v[i]>> \in {j} \X (1 .. u[j])
    BY <2>2 DEF SumUnits
  <2> QED BY <2>1, <2>3
<1> QED BY <1>1, <1>2, <1>3, FS_Subset
=============================================================================
