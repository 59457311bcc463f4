----------------------------- MODULE ModelProofs -----------------------------
(***************************************************************************)
(* Proofs about the activation of models: the registry and the campaigns   *)
(* are two databases, calls stop or are overtaken between their            *)
(* transactions, and an activation may be given another model's campaign.  *)
(***************************************************************************)
EXTENDS ModelActivation, CampaignLemmas, SequenceTheorems

AllAssumptions == CampaignsAssumption /\ ModelAssumption

Proposed == {"candidate", "evaluated", "rejected"}
Applied == {"active", "superseded"}

(* Once there is an active model, it is the only one; the family has a      *)
(* root, and whoever else is known descends from somebody known.            *)
FamilyInv ==
  /\ active.m = NoModel => \A m \in Model : ~Known(m)
  /\ active.m # NoModel =>
       /\ \A m \in Model : model[m].status = "active" <=> m = active.m
       /\ \E r \in Model : Known(r) /\ parent[r] = NoModel
  /\ \A m \in Model : Known(m) =>
       IF parent[m] = NoModel THEN model[m].status \in Applied /\ model[m].camp = NoCampaign
                              ELSE Known(parent[m])

(* What a campaign says of its model, and what of its course the model      *)
(* knows: it is evaluated, and voted on, only once the registry points to   *)
(* it.                                                                      *)
CampaignInvAt(c) ==
  LET m == camp[c].target IN
  Exists(c) =>
    /\ m \in Model /\ parent[m] # NoModel /\ trainer[m] \notin judges[m]
    /\ camp[c].need = 2 /\ camp[c].fp = m /\ camp[c].gen = trainer[m]
    /\ camp[c].state # "evidence_accumulating"
    /\ camp[c].cand \in {NoCandidate, m}
    /\ camp[c].state \notin {"open", "cancelled"} => camp[c].cand = m
    /\ \/ camp[c].state \in {"evaluation_pending", "approval_pending", "authorized", "completed"}
       \/ Approvers(c) # {}
       => model[m].camp = c
    /\ camp[c].state \in {"approval_pending", "authorized", "completed"} => m \in passing
CampaignInv == \A c \in CampaignId : CampaignInvAt(c)

RevisionInvAt(c) ==
  /\ camp[c].state = "open" => camp[c].rev = 0
  /\ camp[c].state = "candidate_ready" => camp[c].rev = 1
  /\ camp[c].state = "evaluation_pending" => camp[c].rev = 2
  /\ camp[c].state \in {"approval_pending", "authorized"} =>
       camp[c].rev = 3 + Cardinality(Approvers(c))
  /\ camp[c].state = "completed" => camp[c].rev = 4 + Cardinality(Approvers(c))
RevisionInv == \A c \in CampaignId : RevisionInvAt(c)

(* A campaign that two people outside the model's team decided.             *)
IsApproved(c) == Decided(c) /\ ApprovalsAreValid(c)

(* A campaign that has got the model as its candidate.                      *)
IsFor(c, m) ==
  /\ Exists(c) /\ camp[c].target = m /\ camp[c].cand = m /\ camp[c].state \notin InitialStates

(* A candidate that the registry points away from passed and was approved.  *)
ModelInvAt(m) ==
  /\ model[m].status = "candidate" => model[m].camp = NoCampaign
  /\ parent[m] # NoModel /\ Known(m) /\ model[m].status # "candidate" => model[m].camp # NoCampaign
  /\ parent[m] # NoModel /\ model[m].status \in {"evaluated", "authorized", "rolled_back"} \cup Applied =>
       m \in passing
  /\ \A c \in CampaignId :
       model[m].camp = c =>
         /\ IsFor(c, m)
         /\ model[m].status \in {"authorized", "rolled_back"} \cup Applied => IsApproved(c)
ModelInv == \A m \in Model : ModelInvAt(m)

(* What a call relies on from the step in which it checked it.              *)
JobHolds(j) ==
  LET IsCandidate == Known(j.m) /\ parent[j.m] # NoModel /\ trainer[j.m] \notin judges[j.m] IN
  /\ j.pc \in {"reserve", "attach", "record", "submit", "finish"} => IsCandidate
  /\ j.pc = "attach" => j.c \in CampaignId /\ Exists(j.c) /\ camp[j.c].target = j.m
  /\ j.pc \in {"record", "submit", "finish"} => j.c \in CampaignId /\ IsFor(j.c, j.m)
  /\ j.pc \in {"submit", "finish"} => model[j.m].camp = j.c
  /\ j.pc \in {"mark", "move", "complete"} => IsApproved(j.c) /\ j.row.cand = camp[j.c].cand
JobInvAt(w) == \A j \in {job[w]} : JobHolds(j)
JobInv == \A w \in Worker : JobInvAt(w)

IInv ==
  /\ TypeOK /\ ApprovalInv
  /\ FamilyInv /\ CampaignInv /\ RevisionInv /\ ModelInv /\ JobInv

-----------------------------------------------------------------------------
(* The events of a family with one candidate tell the candidate's story.    *)

KnownModels == {m \in Model : Known(m)}
IsOnlyCandidate(m) == m \in Candidates /\ KnownModels = {m, parent[m]}

Event(m, i) ==
  IF i = 1 THEN [type |-> "registered", m |-> parent[m]]
  ELSE [type |-> <<"candidate_admitted", "evaluated", "authorized", "activated", "rolled_back">>[i - 1],
        m |-> m]

(* The first n events of the model's lifecycle, and the pointer after them. *)
Tells(m, n) ==
  /\ Len(events) = n /\ \A i \in 1..n : events[i] = Event(m, i)
  /\ active = [m |-> IF n = 5 THEN m ELSE parent[m], rev |-> IF n < 5 THEN 0 ELSE n - 4]

StoryAt(m) ==
  LET status == model[m].status IN
  IsOnlyCandidate(m) =>
    /\ status # "superseded"
    /\ status = "candidate" => Tells(m, 2)
    /\ status = "evaluated" => Tells(m, 3)
    /\ status = "authorized" => Tells(m, 4)
    /\ status = "active" => Tells(m, 5)
    /\ status = "rolled_back" => Tells(m, 6)
StoryInv ==
  /\ KnownModels = {} => events = <<>>
  /\ \A p \in Model : KnownModels = {p} =>
       events = <<[type |-> "registered", m |-> p]>> /\ active = [m |-> p, rev |-> 0]
  /\ \A m \in Model : StoryAt(m)

-----------------------------------------------------------------------------
(* What there is *)

EvaluatePcs == {"reserve", "attach", "record", "submit", "finish"}
DecidedPcs == {"mark", "move", "complete"}

LEMMA JobFacts ==
  ASSUME TypeOK, NEW w \in Worker
  PROVE  /\ job[w] = Idle \/ job[w] \in Jobs
         /\ job[w] = Idle \/ job[w].pc \in EvaluatePcs \cup DecidedPcs
         /\ job[w].pc \in EvaluatePcs =>
              /\ job[w].m \in Model /\ job[w].c \in CampaignId \cup {NoCampaign}
              /\ job[w].row \in RowBy(Actor) \cup {NoRow}
              /\ job[w] = [pc |-> job[w].pc, m |-> job[w].m, c |-> job[w].c, row |-> job[w].row]
         /\ job[w].pc \in DecidedPcs =>
              /\ job[w].m \in Model /\ job[w].c \in CampaignId /\ job[w].row \in RowBy(Actor)
              /\ job[w].rev \in Nat
              /\ job[w] = [pc |-> job[w].pc, m |-> job[w].m, c |-> job[w].c, row |-> job[w].row,
                           rev |-> job[w].rev]
BY DEF TypeOK, Jobs, Idle, EvaluatePcs, DecidedPcs

LEMMA ModelFacts ==
  ASSUME TypeOK, NEW m \in Model
  PROVE  /\ Known(m) <=> model[m] \in Record
         /\ Known(m) <=> model[m].status # "absent"
         /\ Known(m) <=> model[m].status \in Statuses
         /\ model[m].camp # NoCampaign => Known(m) /\ model[m].camp \in CampaignId
BY DEF TypeOK, Known, Record, NoRecord, Statuses

(* Writing a status leaves the campaign, and makes the model known.         *)
LEMMA Restatus ==
  ASSUME TypeOK, NEW m \in Model, NEW s \in Statuses, model' = [model EXCEPT ![m].status = s]
  PROVE  /\ model'[m].status = s /\ model'[m].camp = model[m].camp
         /\ \A n \in Model \ {m} : model'[n] = model[n]
         /\ Known(m)' /\ model' \in [Model -> Record \cup {NoRecord}]
<1>1. PICK r : r = model[m] /\ r \in Record \cup {NoRecord}
  BY DEF TypeOK
<1>2. [r EXCEPT !.status = s] = [status |-> s, camp |-> r.camp] /\ r.camp \in CampaignId \cup {NoCampaign}
  BY <1>1 DEF Record, NoRecord
<1>3. model' = [model EXCEPT ![m] = [status |-> s, camp |-> r.camp]]
  BY <1>1, <1>2 DEF TypeOK
<1>4. [status |-> s, camp |-> r.camp] \in Record
  BY <1>2 DEF Record
<1>5. model'[m] = [status |-> s, camp |-> r.camp]
  BY <1>3 DEF TypeOK
<1>6. s # "absent"
  BY DEF Statuses
<1> QED BY <1>1, <1>3, <1>4, <1>5, <1>6 DEF TypeOK, Known, NoRecord

(* Writing two.                                                             *)
WritesBoth(m, s, n, t) == model' = [model EXCEPT ![m].status = s, ![n].status = t]

LEMMA Restatuses ==
  ASSUME TypeOK, NEW m \in Model, NEW n \in Model, m # n, NEW s \in Statuses, NEW t \in Statuses,
         WritesBoth(m, s, n, t)
  PROVE  /\ model'[m].status = s /\ model'[m].camp = model[m].camp
         /\ model'[n].status = t /\ model'[n].camp = model[n].camp
         /\ \A k \in Model \ {m, n} : model'[k] = model[k]
         /\ Known(m)' /\ Known(n)' /\ model' \in [Model -> Record \cup {NoRecord}]
<1>1. PICK r, q : /\ r = model[m] /\ r \in Record \cup {NoRecord}
                  /\ q = model[n] /\ q \in Record \cup {NoRecord}
  BY DEF TypeOK
<1>2. /\ [r EXCEPT !.status = s] = [status |-> s, camp |-> r.camp]
      /\ [q EXCEPT !.status = t] = [status |-> t, camp |-> q.camp]
      /\ r.camp \in CampaignId \cup {NoCampaign} /\ q.camp \in CampaignId \cup {NoCampaign}
  BY <1>1 DEF Record, NoRecord
<1>3. model' = [model EXCEPT ![m] = [status |-> s, camp |-> r.camp],
                             ![n] = [status |-> t, camp |-> q.camp]]
  BY <1>1, <1>2 DEF TypeOK, WritesBoth
<1>4. [status |-> s, camp |-> r.camp] \in Record /\ [status |-> t, camp |-> q.camp] \in Record
  BY <1>2 DEF Record
<1>5. /\ model'[m] = [status |-> s, camp |-> r.camp]
      /\ model'[n] = [status |-> t, camp |-> q.camp]
  BY <1>3 DEF TypeOK
<1>6. s # "absent" /\ t # "absent"
  BY DEF Statuses
<1> QED BY <1>1, <1>3, <1>4, <1>5, <1>6 DEF TypeOK, Known, NoRecord

-----------------------------------------------------------------------------
(* Steps: what a transaction of either database does, whoever called it.    *)

Opens(c, m) ==
  /\ parent[m] # NoModel /\ trainer[m] \notin judges[m]
  /\ InsertCampaign(c, m, m, trainer[m], 2, "open", 0)
Attaches(c) == AttachCandidate(c, camp[c].target, camp[c].rev, 0)
Closes(c) == \E to \in {"cancelled", "completed"} : Transition(c, to, camp[c].rev, 0, 0)
Judges(c) ==
  /\ model[camp[c].target].camp = c
  /\ \E to \in {"evaluation_pending", "approval_pending", "rejected"} :
       /\ Transition(c, to, camp[c].rev, 0, 0)
       /\ to = "approval_pending" => camp[c].target \in passing
Votes(c) == \E a \in Actor, decision \in Decisions : RecordApproval(c, a, decision, camp[c].rev, 0, 0)

Change(c) == (\E m \in Model : Opens(c, m)) \/ Attaches(c) \/ Closes(c) \/ Judges(c) \/ Votes(c)

Records(m, c) ==
  /\ model[m].status = "candidate" /\ parent[m] # NoModel /\ IsFor(c, m)
  /\ model' = [model EXCEPT ![m] = [status |-> Result(m), camp |-> c]]
  /\ Log(Result(m), m) /\ UNCHANGED active
Marks(m, c) ==
  /\ model[m].status = "evaluated" /\ model[m].camp = c /\ IsApproved(c)
  /\ model' = [model EXCEPT ![m].status = "authorized"]
  /\ Log("authorized", m) /\ UNCHANGED active
Moves(m) ==
  /\ model[m].status = "authorized" /\ active.m = parent[m]
  /\ model' = [model EXCEPT ![active.m].status = "superseded", ![m].status = "active"]
  /\ active' = [m |-> m, rev |-> active.rev + 1]
  /\ Log("activated", m)

RegistryChange ==
  \E m \in Model :
    \/ RegisterInitial(m) \/ AddCandidate(m) \/ Rollback(m)
    \/ Moves(m) \/ \E c \in CampaignId : Records(m, c) \/ Marks(m, c)

LEMMA ChangeIsTransaction ==
  ASSUME TypeOK, CampaignInv, AllAssumptions, NEW c \in CampaignId, Change(c)
  PROVE  Transaction(c, 0)
<1>1. ASSUME NEW m \in Model, Opens(c, m)
      PROVE  Transaction(c, 0)
  BY <1>1 DEF Opens, Transaction, AllAssumptions, ModelAssumption, InitialStates
<1>2. CASE Attaches(c)
  <2>1. camp[c].target \in Candidate
    BY <1>2 DEF Attaches, AttachCandidate, CampaignInv, CampaignInvAt, AllAssumptions, ModelAssumption
  <2> QED BY <1>2, <2>1 DEF Attaches, Transaction
<1>3. CASE Closes(c) \/ Judges(c)
  BY <1>3 DEF Closes, Judges, Transaction, CallerStates, ClosedStates
<1>4. CASE Votes(c)
  BY <1>4 DEF Votes, Transaction
<1> QED BY <1>1, <1>2, <1>3, <1>4 DEF Change

LEMMA StepOnCampaigns ==
  ASSUME IInv, AllAssumptions, [Next]_vars
  PROVE  UNCHANGED campaignVars \/ (UNCHANGED registryVars /\ \E c \in CampaignId : Change(c))
<1> DEFINE Goal == UNCHANGED campaignVars \/ (UNCHANGED registryVars /\ \E c \in CampaignId : Change(c))
<1> SUFFICES Goal
  OBVIOUS
<1>0. TypeOK /\ JobInv
  BY DEF IInv
<1>1. ASSUME NEW w \in Worker, EvaluateReserve(w)
      PROVE  Goal
  <2>1. /\ job[w].m \in Model /\ parent[job[w].m] # NoModel
        /\ trainer[job[w].m] \notin judges[job[w].m] /\ UNCHANGED registryVars
    BY <1>0, <1>1, JobFacts DEF EvaluateReserve, EvaluatePcs, JobInv, JobInvAt, JobHolds
  <2>2. PICK c \in CampaignId :
          \/ InsertCampaign(c, job[w].m, job[w].m, trainer[job[w].m], 2, "open", 0)
          \/ UNCHANGED campaignVars
    BY <1>1 DEF EvaluateReserve, ReuseCampaign
  <2> QED BY <2>1, <2>2 DEF Change, Opens
<1>2. ASSUME NEW w \in Worker, EvaluateAttach(w)
      PROVE  Goal
  <2>1. /\ job[w].c \in CampaignId /\ camp[job[w].c].target = job[w].m
    BY <1>0, <1>2 DEF EvaluateAttach, JobInv, JobInvAt, JobHolds
  <2>2. AttachCandidate(job[w].c, job[w].m, camp[job[w].c].rev, 0)
    BY <1>2 DEF EvaluateAttach, AttachCandidate
  <2> QED BY <1>2, <2>1, <2>2 DEF EvaluateAttach, Change, Attaches
<1>3. ASSUME NEW w \in Worker, EvaluateSubmit(w)
      PROVE  Goal
  <2>1. /\ job[w].c \in CampaignId /\ camp[job[w].c].target = job[w].m
        /\ model[job[w].m].camp = job[w].c
    BY <1>0, <1>3 DEF EvaluateSubmit, JobInv, JobInvAt, JobHolds, IsFor
  <2>2. CASE Transition(job[w].c, "evaluation_pending", job[w].row.rev, 0, 0)
    <3>1. Transition(job[w].c, "evaluation_pending", camp[job[w].c].rev, 0, 0)
      BY <2>2 DEF Transition
    <3> QED BY <1>3, <2>1, <3>1 DEF EvaluateSubmit, Change, Judges
  <2> QED BY <1>3, <2>2 DEF EvaluateSubmit
<1>4. ASSUME NEW w \in Worker, EvaluateFinish(w)
      PROVE  Goal
  <2>1. /\ job[w].c \in CampaignId /\ camp[job[w].c].target = job[w].m
        /\ model[job[w].m].camp = job[w].c
    BY <1>0, <1>4 DEF EvaluateFinish, JobInv, JobInvAt, JobHolds, IsFor
  <2>2. PICK to \in {"approval_pending", "rejected"} :
          Transition(job[w].c, to, job[w].row.rev, 0, 0) /\ (to = "approval_pending" => job[w].m \in passing)
    BY <1>4 DEF EvaluateFinish
  <2>3. Transition(job[w].c, to, camp[job[w].c].rev, 0, 0)
    BY <2>2 DEF Transition
  <2> QED BY <1>4, <2>1, <2>2, <2>3 DEF EvaluateFinish, Change, Judges
<1>5. ASSUME NEW w \in Worker, ActivateComplete(w)
      PROVE  Goal
  <2>1. job[w].c \in CampaignId
    BY <1>0, <1>5, JobFacts DEF ActivateComplete, DecidedPcs
  <2> QED BY <1>5, <2>1 DEF ActivateComplete, Change, Closes
<1>6. ASSUME NEW c \in CampaignId, NEW a \in Approver, Approve(c, a) \/ ApproveDirectly(c, a) \/ Close(c, a)
      PROVE  Goal
  <2>1. a \in Actor /\ {"approve", "reject"} = Decisions
    BY DEF AllAssumptions, ModelAssumption, Decisions
  <2>2. CASE Transition(c, "cancelled", camp[c].rev, 0, 0)
    BY <1>6, <2>2 DEF Approve, ApproveDirectly, Close, Change, Closes
  <2>3. CASE \E decision \in Decisions : RecordApproval(c, a, decision, camp[c].rev, 0, 0)
    BY <1>6, <2>1, <2>3 DEF Approve, ApproveDirectly, Close, Change, Votes
  <2> QED BY <1>6, <2>1, <2>2, <2>3 DEF Approve, ApproveDirectly, Close
<1>7. CASE \E m \in Model : RegisterInitial(m) \/ AddCandidate(m) \/ Rollback(m)
  BY <1>7 DEF RegisterInitial, AddCandidate, Rollback
<1>8. ASSUME NEW w \in Worker,
             \/ \E m \in Model : EvaluateStart(w, m)
             \/ \E m \in Model, c \in CampaignId : SynchronizeStart(w, m, c) \/ ActivateStart(w, m, c)
             \/ EvaluateRecord(w) \/ SynchronizeMark(w) \/ ActivateMove(w) \/ Abort(w)
      PROVE  Goal
  BY <1>8 DEF EvaluateStart, SynchronizeStart, ActivateStart, EvaluateRecord, SynchronizeMark,
              ActivateMove, Abort
<1>9. CASE UNCHANGED vars
  BY <1>9 DEF vars, campaignVars
<1> HIDE DEF Goal
<1> QED BY <1>1, <1>2, <1>3, <1>4, <1>5, <1>6, <1>7, <1>8, <1>9 DEF Next

LEMMA StepOnRegistry ==
  ASSUME IInv, AllAssumptions, [Next]_vars
  PROVE  UNCHANGED registryVars \/ (UNCHANGED campaignVars /\ RegistryChange)
<1> DEFINE Goal == UNCHANGED registryVars \/ (UNCHANGED campaignVars /\ RegistryChange)
<1> SUFFICES Goal
  OBVIOUS
<1>0. TypeOK /\ JobInv
  BY DEF IInv
<1>1. ASSUME NEW w \in Worker, EvaluateRecord(w)
      PROVE  Goal
  <2>1. /\ job[w].m \in Model /\ job[w].c \in CampaignId
        /\ parent[job[w].m] # NoModel /\ IsFor(job[w].c, job[w].m)
    BY <1>0, <1>1, JobFacts DEF EvaluateRecord, EvaluatePcs, JobInv, JobInvAt, JobHolds
  <2>2. RecordEvaluation(job[w].m, job[w].c) /\ UNCHANGED campaignVars
    BY <1>1 DEF EvaluateRecord
  <2> QED BY <2>1, <2>2 DEF RecordEvaluation, RegistryChange, Records
<1>2. ASSUME NEW w \in Worker, SynchronizeMark(w)
      PROVE  Goal
  <2>1. job[w].m \in Model /\ job[w].c \in CampaignId /\ IsApproved(job[w].c)
    BY <1>0, <1>2, JobFacts DEF SynchronizeMark, DecidedPcs, JobInv, JobInvAt, JobHolds
  <2>2. MarkAuthorized(job[w].m, job[w].c, job[w].row) /\ UNCHANGED campaignVars
    BY <1>2 DEF SynchronizeMark
  <2> QED BY <2>1, <2>2 DEF MarkAuthorized, Presents, RegistryChange, Marks
<1>3. ASSUME NEW w \in Worker, ActivateMove(w)
      PROVE  Goal
  <2>1. job[w].m \in Model
    BY <1>0, <1>3, JobFacts DEF ActivateMove, DecidedPcs
  <2>2. Activate(job[w].m, job[w].c, job[w].row, job[w].rev) /\ UNCHANGED campaignVars
    BY <1>3 DEF ActivateMove
  <2> QED BY <2>1, <2>2 DEF Activate, MayActivate, RegistryChange, Moves
<1>4. CASE \E m \in Model : RegisterInitial(m) \/ AddCandidate(m) \/ Rollback(m)
  BY <1>4 DEF RegistryChange, RegisterInitial, AddCandidate, Rollback
<1>5. ASSUME NEW w \in Worker,
             \/ \E m \in Model : EvaluateStart(w, m)
             \/ \E m \in Model, c \in CampaignId : SynchronizeStart(w, m, c) \/ ActivateStart(w, m, c)
             \/ EvaluateReserve(w) \/ EvaluateAttach(w) \/ EvaluateSubmit(w) \/ EvaluateFinish(w)
             \/ ActivateComplete(w) \/ Abort(w)
      PROVE  Goal
  BY <1>5 DEF EvaluateStart, SynchronizeStart, ActivateStart, EvaluateReserve, EvaluateAttach,
              EvaluateSubmit, EvaluateFinish, ActivateComplete, Abort
<1>6. ASSUME NEW c \in CampaignId, NEW a \in Approver, Approve(c, a) \/ ApproveDirectly(c, a) \/ Close(c, a)
      PROVE  Goal
  BY <1>6 DEF Approve, ApproveDirectly, Close
<1>7. CASE UNCHANGED vars
  BY <1>7 DEF vars
<1> HIDE DEF Goal
<1> QED BY <1>1, <1>2, <1>3, <1>4, <1>5, <1>6, <1>7 DEF Next

-----------------------------------------------------------------------------
(* What a step leaves as it was                                             *)

CampaignsGoOn ==
  \A c \in CampaignId :
    /\ Exists(c) => Exists(c)' /\ camp'[c].target = camp[c].target
    /\ Exists(c) /\ camp[c].state \notin InitialStates =>
         camp'[c].state \notin InitialStates /\ camp'[c].cand = camp[c].cand
    /\ IsApproved(c) =>
         /\ IsApproved(c)' /\ camp'[c].cand = camp[c].cand /\ camp'[c].target = camp[c].target
         /\ Approvers(c)' = Approvers(c)

ModelsGoOn ==
  \A m \in Model :
    /\ Known(m) => Known(m)'
    /\ model[m].camp # NoCampaign => model'[m].camp = model[m].camp

LEMMA ChangeGoesOn ==
  ASSUME TypeOK, CampaignInv, AllAssumptions, NEW c \in CampaignId, Change(c)
  PROVE  CampaignsGoOn
<1>0. CampaignsTypeOK /\ Transaction(c, 0) /\ 0 \in Nat
  BY ChangeIsTransaction DEF TypeOK
<1> SUFFICES ASSUME NEW d \in CampaignId
             PROVE  /\ Exists(d) => Exists(d)' /\ camp'[d].target = camp[d].target
                    /\ Exists(d) /\ camp[d].state \notin InitialStates =>
                         camp'[d].state \notin InitialStates /\ camp'[d].cand = camp[d].cand
                    /\ IsApproved(d) =>
                         /\ IsApproved(d)' /\ camp'[d].cand = camp[d].cand
                         /\ camp'[d].target = camp[d].target
                         /\ Approvers(d)' = Approvers(d)
  BY DEF CampaignsGoOn
<1>1. Exists(d) => Exists(d)' /\ camp'[d].target = camp[d].target
  BY <1>0, DecidedStays
<1>2. ASSUME Exists(d), camp[d].state \notin InitialStates
      PROVE  camp'[d].state \notin InitialStates /\ camp'[d].cand = camp[d].cand
  <2>1. CASE d # c
    BY <1>0, <1>2, <2>1, OthersUntouched
  <2>2. CASE d = c
    <3>1. Rewritten(c, 0)
      BY <1>0, <1>2, <2>2, TransactionEffect DEF Inserted
    <3>2. camp'[c].state \notin InitialStates
      BY <1>0, <1>2, <2>2, StatesWritten
         DEF Transaction, InsertCampaign, CallerStates, ClosedStates, InitialStates, Decisions
    <3> QED BY <1>2, <2>2, <3>1, <3>2 DEF Rewritten
  <2> QED BY <2>1, <2>2
<1>3. ASSUME IsApproved(d)
      PROVE  IsApproved(d)' /\ camp'[d].cand = camp[d].cand /\ camp'[d].target = camp[d].target
             /\ Approvers(d)' = Approvers(d)
  <2>1. Exists(d) /\ Decided(d)
    BY <1>3 DEF IsApproved, Decided
  <2>2. /\ Decided(d)' /\ camp'[d].cand = camp[d].cand /\ camp'[d].target = camp[d].target
        /\ camp'[d].need = camp[d].need /\ approvals'[d] = approvals[d] /\ Approvers(d)' = Approvers(d)
    BY <1>0, <2>1, DecidedStays
  <2> QED BY <1>3, <2>2 DEF IsApproved, ApprovalsAreValid
<1> QED BY <1>1, <1>2, <1>3

LEMMA RegistryGoesOn ==
  ASSUME TypeOK, FamilyInv, ModelInv, AllAssumptions, RegistryChange
  PROVE  ModelsGoOn /\ model' \in [Model -> Record \cup {NoRecord}]
<1>1. ASSUME NEW m \in Model, NEW s \in Statuses, model' = [model EXCEPT ![m].status = s]
      PROVE  ModelsGoOn /\ model' \in [Model -> Record \cup {NoRecord}]
  BY <1>1, Restatus DEF ModelsGoOn, Known
<1>2. ASSUME NEW m \in Model, NEW n \in Model, m # n, NEW s \in Statuses, NEW t \in Statuses,
             WritesBoth(m, s, n, t)
      PROVE  ModelsGoOn /\ model' \in [Model -> Record \cup {NoRecord}]
  BY <1>2, Restatuses DEF ModelsGoOn, Known
<1>3. {"active", "candidate", "evaluated", "rejected", "authorized", "superseded", "rolled_back"}
        \subseteq Statuses
  BY DEF Statuses
<1>4. ASSUME NEW m \in Model,
             RegisterInitial(m) \/ AddCandidate(m) \/ \E c \in CampaignId : Marks(m, c)
      PROVE  ModelsGoOn /\ model' \in [Model -> Record \cup {NoRecord}]
  BY <1>1, <1>3, <1>4 DEF RegisterInitial, AddCandidate, Marks
<1>5. ASSUME NEW m \in Model, Rollback(m)
      PROVE  ModelsGoOn /\ model' \in [Model -> Record \cup {NoRecord}]
  <2>1. parent[m] \in Model /\ parent[m] # m
    BY <1>5 DEF Rollback, AllAssumptions, ModelAssumption
  <2> QED BY <1>2, <1>3, <1>5, <2>1 DEF Rollback, WritesBoth
<1>6. ASSUME NEW m \in Model, Moves(m)
      PROVE  ModelsGoOn /\ model' \in [Model -> Record \cup {NoRecord}]
  <2>1. active.m \in Model /\ active.m # m
    <3>1. Known(m)
      BY <1>6, ModelFacts DEF Moves, Statuses
    <3>2. active.m # NoModel
      BY <3>1 DEF FamilyInv
    <3>3. active.m \in Model
      BY <3>2 DEF TypeOK
    <3>4. model[active.m].status = "active"
      BY <3>2, <3>3 DEF FamilyInv
    <3> QED BY <1>6, <3>3, <3>4 DEF Moves
  <2> QED BY <1>2, <1>3, <1>6, <2>1 DEF Moves, WritesBoth
<1>7. ASSUME NEW m \in Model, NEW c \in CampaignId, Records(m, c)
      PROVE  ModelsGoOn /\ model' \in [Model -> Record \cup {NoRecord}]
  <2>1. [status |-> Result(m), camp |-> c] \in Record
    BY DEF Record, Result, Statuses
  <2>2. model' = [model EXCEPT ![m] = [status |-> Result(m), camp |-> c]]
    BY <1>7 DEF Records
  <2>3. model[m].camp = NoCampaign
    BY <1>7 DEF Records, ModelInv, ModelInvAt
  <2>4. model' \in [Model -> Record \cup {NoRecord}]
    BY <2>1, <2>2 DEF TypeOK
  <2>5. model'[m] # NoRecord /\ \A n \in Model \ {m} : model'[n] = model[n]
    BY <2>2 DEF TypeOK, NoRecord, Result
  <2> QED BY <2>3, <2>4, <2>5 DEF ModelsGoOn, Known
<1> QED BY <1>4, <1>5, <1>6, <1>7 DEF RegistryChange

LEMMA StepFacts ==
  ASSUME IInv, AllAssumptions, [Next]_vars
  PROVE  CampaignsGoOn /\ ModelsGoOn
<1>1. CampaignsGoOn
  <2>1. CASE UNCHANGED campaignVars
    BY <2>1 DEF CampaignsGoOn, campaignVars, Exists, IsApproved, Decided, ApprovalsAreValid, Approvers
  <2>2. CASE \E c \in CampaignId : Change(c)
    BY <2>2, ChangeGoesOn DEF IInv
  <2> QED BY <2>1, <2>2, StepOnCampaigns
<1>2. ModelsGoOn
  <2>1. CASE UNCHANGED registryVars
    BY <2>1 DEF ModelsGoOn, registryVars, Known
  <2>2. CASE RegistryChange
    BY <2>2, RegistryGoesOn DEF IInv
  <2> QED BY <2>1, <2>2, StepOnRegistry
<1> QED BY <1>1, <1>2

-----------------------------------------------------------------------------
(* The campaigns                                                            *)

LEMMA CampaignRow ==
  ASSUME TypeOK, NEW c \in CampaignId, Exists(c)
  PROVE  camp[c] \in RowBy(Actor) /\ camp[c].state \in States /\ camp[c].rev \in Nat
BY RowFacts DEF TypeOK, RowBy

LEMMA ChangeKeepsRevision ==
  ASSUME TypeOK, AllAssumptions, ApprovalInv, CampaignInv, RevisionInv,
         NEW c \in CampaignId, Change(c)
  PROVE  RevisionInv'
<1>0. /\ CampaignsTypeOK /\ CampaignsAssumption /\ Transaction(c, 0) /\ 0 \in Nat
  BY ChangeIsTransaction DEF TypeOK, AllAssumptions
<1>1. ASSUME NEW d \in CampaignId, d # c
      PROVE  RevisionInvAt(d)'
  BY <1>0, <1>1, OthersUntouched DEF RevisionInv, RevisionInvAt, Approvers
<1>2. RevisionInvAt(c) /\ ApprovalInvAt(c) /\ CampaignInvAt(c)
  BY DEF RevisionInv, ApprovalInv, CampaignInv
<1>3. ASSUME NEW m \in Model, Opens(c, m)
      PROVE  RevisionInvAt(c)'
  <2>1. camp'[c].state = "open" /\ camp'[c].rev = 0
    BY <1>0, <1>3 DEF Opens, InsertCampaign, CampaignsTypeOK
  <2> QED BY <2>1 DEF RevisionInvAt
<1>4. ASSUME Attaches(c)
      PROVE  RevisionInvAt(c)'
  <2>1. camp[c].target \in Candidate /\ Exists(c)
    BY <1>2, <1>4 DEF Attaches, AttachCandidate, CampaignInvAt, AllAssumptions, ModelAssumption
  <2>2. /\ camp[c].state \in InitialStates /\ camp'[c].state = "candidate_ready"
        /\ camp'[c].rev = camp[c].rev + 1
    BY <1>0, <1>4, <2>1, AttachWrites DEF Attaches
  <2>3. camp[c].state = "open"
    BY <1>2, <2>1, <2>2 DEF CampaignInvAt, InitialStates
  <2> QED BY <1>2, <2>2, <2>3 DEF RevisionInvAt
<1>5. ASSUME NEW to, Transition(c, to, camp[c].rev, 0, 0), to # "authorized", to # "open",
             to # "candidate_ready"
      PROVE  RevisionInvAt(c)'
  <2>1. /\ Exists(c) /\ <<camp[c].state, to>> \in LegalTransitions
        /\ camp'[c].state = to /\ camp'[c].rev = camp[c].rev + 1
        /\ Approvers(c)' = Approvers(c)
    BY <1>0, <1>5, TransitionWrites DEF Approvers
  <2>2. CASE to = "approval_pending"
    <3>1. camp[c].state = "evaluation_pending"
      BY <2>1, <2>2 DEF LegalTransitions
    <3>2. Approvers(c) = {}
      BY <1>2, <3>1 DEF ApprovalInvAt, BeforeApproval, Approvers
    <3>3. Cardinality(Approvers(c)') = 0
      BY <2>1, <3>2, FS_EmptySet
    <3> QED BY <1>2, <2>1, <2>2, <3>1, <3>3 DEF RevisionInvAt
  <2>3. CASE to = "evaluation_pending"
    <3>1. camp[c].state = "candidate_ready"
      BY <2>1, <2>3 DEF LegalTransitions
    <3> QED BY <1>2, <2>1, <2>3, <3>1 DEF RevisionInvAt
  <2>4. CASE to = "completed"
    <3>1. camp[c].state = "authorized"
      BY <2>1, <2>4 DEF LegalTransitions
    <3>2. Cardinality(Approvers(c)) \in Nat
      BY <1>0, FS_Subset, FS_CardinalityType DEF CampaignsAssumption, Approvers
    <3> QED BY <1>2, <2>1, <2>4, <3>1, <3>2 DEF RevisionInvAt
  <2>5. CASE to \notin {"approval_pending", "evaluation_pending", "completed"}
    BY <1>5, <2>1, <2>5 DEF RevisionInvAt
  <2> QED BY <2>2, <2>3, <2>4, <2>5
<1>6. ASSUME Closes(c) \/ Judges(c)
      PROVE  RevisionInvAt(c)'
  BY <1>5, <1>6 DEF Closes, Judges
<1>7. ASSUME NEW a \in Actor, NEW decision \in Decisions,
             RecordApproval(c, a, decision, camp[c].rev, 0, 0)
      PROVE  RevisionInvAt(c)'
  <2>1. /\ camp[c].state = "approval_pending" /\ camp'[c].rev = camp[c].rev + 1
        /\ decision = "reject" => camp'[c].state = "rejected"
        /\ decision = "approve" =>
             /\ IsFiniteSet(Approvers(c))
             /\ Cardinality(Approvers(c)') = Cardinality(Approvers(c)) + 1
             /\ camp'[c].state \in {"authorized", "approval_pending"}
    BY <1>0, <1>7, ApprovalWrites
  <2>2. CASE decision = "reject"
    BY <2>1, <2>2 DEF RevisionInvAt
  <2>3. CASE decision = "approve"
    <3>1. Cardinality(Approvers(c)) \in Nat
      BY <2>1, <2>3, FS_CardinalityType
    <3>2. camp'[c].rev = 3 + Cardinality(Approvers(c)')
      BY <1>2, <2>1, <2>3, <3>1 DEF RevisionInvAt
    <3> QED BY <2>1, <2>3, <3>2 DEF RevisionInvAt
  <2> QED BY <2>2, <2>3 DEF Decisions
<1>8. RevisionInvAt(c)'
  BY <1>3, <1>4, <1>6, <1>7 DEF Change, Votes
<1> QED BY <1>1, <1>8 DEF RevisionInv

LEMMA ChangeKeepsCampaigns ==
  ASSUME IInv, AllAssumptions, NEW c \in CampaignId, Change(c), model' = model
  PROVE  CampaignInv'
<1>0. /\ CampaignsTypeOK /\ CampaignsAssumption /\ Transaction(c, 0) /\ 0 \in Nat
      /\ CampaignsTypeOK'
  BY ChangeIsTransaction, TransactionType DEF TypeOK, AllAssumptions, IInv
<1>1. ASSUME NEW d \in CampaignId, d # c
      PROVE  CampaignInvAt(d)'
  BY <1>0, <1>1, OthersUntouched DEF IInv, CampaignInv, CampaignInvAt, Exists, Approvers
<1>2. CampaignInvAt(c) /\ ApprovalInvAt(c)
  BY DEF IInv, CampaignInv, ApprovalInv
<1>3. ASSUME NEW m \in Model, Opens(c, m)
      PROVE  CampaignInvAt(c)'
  <2>1. /\ camp'[c].state = "open" /\ camp'[c].target = m /\ camp'[c].fp = m
        /\ camp'[c].gen = trainer[m] /\ camp'[c].need = 2 /\ camp'[c].cand = NoCandidate
        /\ approvals' = approvals /\ ~Exists(c)
    BY <1>0, <1>3 DEF Opens, InsertCampaign, CampaignsTypeOK
  <2>2. Approvers(c)' = {}
    BY <1>2, <2>1 DEF ApprovalInvAt, Approvers
  <2> QED BY <1>3, <2>1, <2>2 DEF CampaignInvAt, Opens
<1>4. ASSUME ~\E m \in Model : Opens(c, m)
      PROVE  CampaignInvAt(c)'
  <2>1. Exists(c) /\ Rewritten(c, 0)
    <3>1. Exists(c)
      BY <1>4 DEF Change, Attaches, AttachCandidate, Closes, Judges, Transition, Votes, RecordApproval
    <3> QED BY <1>0, <3>1, TransactionEffect DEF Inserted
  <2>2. PICK m \in Model : m = camp[c].target
    BY <1>2, <2>1 DEF CampaignInvAt
  <2>3. /\ camp'[c].target = m /\ camp'[c].fp = m /\ camp'[c].gen = trainer[m] /\ camp'[c].need = 2
        /\ parent[m] # NoModel /\ trainer[m] \notin judges[m]
    BY <1>2, <2>1, <2>2 DEF CampaignInvAt, Rewritten
  <2>4. CASE Attaches(c)
    <3>1. camp'[c].state = "candidate_ready" /\ camp'[c].cand = m /\ approvals' = approvals
          /\ camp[c].state \in InitialStates
      BY <1>0, <2>2, <2>4, AttachWrites DEF Attaches, AllAssumptions, ModelAssumption
    <3>2. Approvers(c)' = {}
      BY <1>2, <3>1 DEF ApprovalInvAt, Approvers, BeforeApproval, InitialStates
    <3> QED BY <2>2, <2>3, <3>1, <3>2 DEF CampaignInvAt
  <2>5. ASSUME NEW to \in {"cancelled", "completed"}, Transition(c, to, camp[c].rev, 0, 0)
        PROVE  CampaignInvAt(c)'
    <3>1. /\ <<camp[c].state, to>> \in LegalTransitions /\ camp'[c].state = to
          /\ camp'[c].cand = camp[c].cand /\ Approvers(c)' = Approvers(c)
      BY <1>0, <2>5, TransitionWrites DEF Approvers
    <3>2. to = "completed" => camp[c].state = "authorized"
      BY <3>1 DEF LegalTransitions
    <3> QED BY <1>2, <2>1, <2>2, <2>3, <3>1, <3>2 DEF CampaignInvAt
  <2>6. CASE Judges(c)
    <3>1. PICK to \in {"evaluation_pending", "approval_pending", "rejected"} :
            Transition(c, to, camp[c].rev, 0, 0) /\ (to = "approval_pending" => m \in passing)
      BY <2>2, <2>6 DEF Judges
    <3>2. /\ <<camp[c].state, to>> \in LegalTransitions /\ camp'[c].state = to
          /\ camp'[c].cand = camp[c].cand
      BY <1>0, <3>1, TransitionWrites
    <3>3. camp[c].state \notin {"open", "cancelled"}
      BY <3>1, <3>2 DEF LegalTransitions
    <3>4. camp'[c].cand = m /\ model'[m].camp = c
      BY <1>2, <2>1, <2>2, <2>6, <3>2, <3>3 DEF CampaignInvAt, Judges
    <3> QED BY <2>2, <2>3, <3>1, <3>2, <3>4 DEF CampaignInvAt
  <2>7. CASE Votes(c)
    <3>1. PICK a \in Actor, decision \in Decisions : RecordApproval(c, a, decision, camp[c].rev, 0, 0)
      BY <2>7 DEF Votes
    <3>2. /\ camp[c].state = "approval_pending" /\ camp'[c].cand = camp[c].cand
      BY <1>0, <3>1, ApprovalWrites
    <3>3. camp'[c].state \in {"rejected", "authorized", "approval_pending"}
      BY <1>0, <3>1, StatesWritten DEF Decisions
    <3>4. camp[c].cand = m /\ model'[m].camp = c /\ m \in passing
      BY <1>2, <2>1, <2>2, <3>2 DEF CampaignInvAt
    <3> QED BY <2>2, <2>3, <3>2, <3>3, <3>4 DEF CampaignInvAt
  <2> QED BY <1>4, <2>4, <2>5, <2>6, <2>7 DEF Change, Closes
<1> QED BY <1>1, <1>3, <1>4 DEF CampaignInv

LEMMA CampaignInvariants ==
  ASSUME IInv, AllAssumptions, [Next]_vars
  PROVE  CampaignsTypeOK' /\ ApprovalInv' /\ CampaignInv' /\ RevisionInv'
<1>1. CASE UNCHANGED campaignVars
  <2>1. CampaignsTypeOK' /\ ApprovalInv' /\ RevisionInv'
    <3>1. camp' = camp /\ approvals' = approvals /\ audit' = audit
      BY <1>1 DEF campaignVars
    <3>2. CampaignsTypeOK'
      BY <3>1 DEF IInv, TypeOK, CampaignsTypeOK
    <3>3. ApprovalInv'
      BY <3>1 DEF IInv, ApprovalInv, ApprovalInvAt, Exists, Approvers
    <3>4. RevisionInv'
      BY <3>1 DEF IInv, RevisionInv, RevisionInvAt, Approvers
    <3> QED BY <3>2, <3>3, <3>4
  <2>2. CampaignInv'
    <3> SUFFICES ASSUME NEW c \in CampaignId
                 PROVE  CampaignInvAt(c)'
      BY DEF CampaignInv
    <3>1. CampaignInvAt(c) /\ camp'[c] = camp[c] /\ Exists(c)' = Exists(c) /\ Approvers(c)' = Approvers(c)
      BY <1>1 DEF IInv, CampaignInv, campaignVars, Exists, Approvers
    <3>2. \A m \in Model : model[m].camp = c => model'[m].camp = c
      BY StepFacts DEF ModelsGoOn, AllAssumptions, ModelAssumption
    <3> QED BY <3>1, <3>2 DEF CampaignInvAt
  <2> QED BY <2>1, <2>2
<1>2. CASE UNCHANGED registryVars /\ \E c \in CampaignId : Change(c)
  <2>1. PICK c \in CampaignId : Change(c)
    BY <1>2
  <2>2. TypeOK /\ CampaignInv /\ RevisionInv /\ ApprovalInv /\ CampaignsTypeOK /\ CampaignsAssumption
    BY DEF IInv, TypeOK, AllAssumptions
  <2>3. Transaction(c, 0) /\ 0 \in Nat /\ model' = model
    BY <1>2, <2>1, <2>2, ChangeIsTransaction DEF registryVars
  <2> QED BY <2>1, <2>2, <2>3, TransactionType, TransactionApproval, ChangeKeepsRevision,
             ChangeKeepsCampaigns
<1> QED BY <1>1, <1>2, StepOnCampaigns

-----------------------------------------------------------------------------
(* The family *)

LEMMA LogType ==
  ASSUME TypeOK, NEW m \in Model, NEW type \in EventTypes, Log(type, m)
  PROVE  events' \in Seq([type: EventTypes, m: Model])
BY DEF TypeOK, Log

(* The campaign of a model is its own for ever.                             *)
LEMMA CampaignOfModel ==
  ASSUME IInv, AllAssumptions, CampaignsGoOn, NEW m \in Model, NEW c \in CampaignId,
         model[m].camp = c
  PROVE  /\ Known(m) /\ IsFor(c, m) /\ IsFor(c, m)'
         /\ IsApproved(c) => IsApproved(c)'
<1>1. IsFor(c, m) /\ Known(m)
  BY ModelFacts DEF IInv, ModelInv, ModelInvAt, AllAssumptions, ModelAssumption
<1> QED BY <1>1 DEF IsFor, CampaignsGoOn

(* What the registry says of a model stays true when the record does.       *)
LEMMA UntouchedModel ==
  ASSUME IInv, AllAssumptions, CampaignsGoOn, NEW m \in Model, model'[m] = model[m]
  PROVE  ModelInvAt(m)'
<1>1. ModelInvAt(m) /\ Known(m)' = Known(m)
  BY DEF IInv, ModelInv, Known
<1>2. ASSUME NEW c \in CampaignId, model'[m].camp = c
      PROVE  IsFor(c, m)' /\ (model'[m].status \in {"authorized", "rolled_back"} \cup Applied => IsApproved(c)')
  BY <1>1, <1>2, CampaignOfModel DEF ModelInvAt
<1> QED BY <1>1, <1>2 DEF ModelInvAt, Applied

LEMMA HeadFacts ==
  ASSUME TypeOK, FamilyInv, AllAssumptions, NEW m \in Model, Known(m)
  PROVE  /\ active.m \in Model /\ Known(active.m) /\ model[active.m].status = "active"
         /\ active.m # NoModel /\ active.rev \in Nat
         /\ \A n \in Model : model[n].status = "active" <=> n = active.m
<1>1. active.m # NoModel /\ active.m \in Model /\ active.rev \in Nat
  BY DEF TypeOK, FamilyInv
<1>2. \A n \in Model : model[n].status = "active" <=> n = active.m
  BY <1>1 DEF FamilyInv
<1> QED BY <1>1, <1>2, ModelFacts

(* The steps of the registry, in terms of the records they leave.           *)
LEMMA MovesWrites ==
  ASSUME IInv, AllAssumptions, NEW m \in Model, Moves(m)
  PROVE  /\ Known(m) /\ parent[m] # NoModel /\ parent[m] \in Model /\ active.m = parent[m] /\ m # parent[m]
         /\ model'[m].status = "active" /\ model'[m].camp = model[m].camp
         /\ model'[parent[m]].status = "superseded" /\ model'[parent[m]].camp = model[parent[m]].camp
         /\ \A n \in Model \ {m, parent[m]} : model'[n] = model[n]
         /\ model[parent[m]].status = "active" /\ Known(parent[m])
         /\ model[m].status = "authorized"
<1>1. TypeOK /\ FamilyInv
  BY DEF IInv
<1>2. Known(m) /\ model[m].status = "authorized" /\ active.m = parent[m]
  BY <1>1, ModelFacts DEF Moves, Statuses
<1>3. /\ parent[m] \in Model /\ model[parent[m]].status = "active" /\ parent[m] # m /\ parent[m] # NoModel
      /\ Known(parent[m])
  BY <1>1, <1>2, HeadFacts
<1>4. PICK p \in Model : p = parent[m] /\ p # m
  BY <1>3
<1>5. WritesBoth(p, "superseded", m, "active")
  BY <1>2, <1>4 DEF Moves, WritesBoth
<1>6. "superseded" \in Statuses /\ "active" \in Statuses
  BY DEF Statuses
<1>7. /\ model'[m].status = "active" /\ model'[m].camp = model[m].camp
      /\ model'[p].status = "superseded" /\ model'[p].camp = model[p].camp
      /\ \A n \in Model \ {p, m} : model'[n] = model[n]
  BY <1>1, <1>4, <1>5, <1>6, Restatuses
<1> QED BY <1>2, <1>3, <1>4, <1>7

LEMMA RollbackWrites ==
  ASSUME IInv, AllAssumptions, NEW m \in Model, Rollback(m)
  PROVE  /\ Known(m) /\ parent[m] # NoModel /\ parent[m] \in Model /\ active.m = m /\ m # parent[m]
         /\ model'[m].status = "rolled_back" /\ model'[m].camp = model[m].camp
         /\ model'[parent[m]].status = "active" /\ model'[parent[m]].camp = model[parent[m]].camp
         /\ \A n \in Model \ {m, parent[m]} : model'[n] = model[n]
         /\ model[m].status = "active" /\ model[parent[m]].status = "superseded" /\ Known(parent[m])
<1>1. TypeOK /\ FamilyInv
  BY DEF IInv
<1>2. /\ active.m = m /\ model[m].status = "active" /\ parent[m] # NoModel
      /\ model[parent[m]].status = "superseded" /\ parent[m] \in Model /\ m # parent[m]
      /\ model' = [model EXCEPT ![m].status = "rolled_back", ![parent[m]].status = "active"]
  BY DEF Rollback, AllAssumptions, ModelAssumption
<1>3. "rolled_back" \in Statuses /\ "active" \in Statuses /\ "superseded" \in Statuses
  BY DEF Statuses
<1>4. Known(m) /\ Known(parent[m])
  BY <1>1, <1>2, <1>3, ModelFacts
<1>5. PICK p \in Model : p = parent[m] /\ p # m
  BY <1>2
<1>6. WritesBoth(m, "rolled_back", p, "active")
  BY <1>2, <1>5 DEF WritesBoth
<1>7. /\ model'[m].status = "rolled_back" /\ model'[m].camp = model[m].camp
      /\ model'[p].status = "active" /\ model'[p].camp = model[p].camp
      /\ \A n \in Model \ {m, p} : model'[n] = model[n]
  BY <1>1, <1>3, <1>5, <1>6, Restatuses
<1> QED BY <1>2, <1>4, <1>5, <1>7

LEMMA RecordsWrites ==
  ASSUME IInv, AllAssumptions, NEW m \in Model, NEW c \in CampaignId, Records(m, c)
  PROVE  /\ Known(m) /\ parent[m] # NoModel /\ model[m].status = "candidate" /\ model[m].camp = NoCampaign
         /\ model'[m].status = Result(m) /\ model'[m].camp = c
         /\ \A n \in Model \ {m} : model'[n] = model[n]
<1>1. TypeOK
  BY DEF IInv
<1>2. Known(m) /\ model[m].camp = NoCampaign
  BY <1>1, ModelFacts DEF Records, Statuses, IInv, ModelInv, ModelInvAt
<1> QED BY <1>1, <1>2 DEF Records, TypeOK

LEMMA MarksWrites ==
  ASSUME IInv, AllAssumptions, NEW m \in Model, NEW c \in CampaignId, Marks(m, c)
  PROVE  /\ Known(m) /\ parent[m] # NoModel /\ model[m].status = "evaluated" /\ model[m].camp = c
         /\ model'[m].status = "authorized" /\ model'[m].camp = c
         /\ \A n \in Model \ {m} : model'[n] = model[n]
<1>1. TypeOK /\ FamilyInv
  BY DEF IInv
<1>2. Known(m) /\ "authorized" \in Statuses
  BY <1>1, ModelFacts DEF Marks, Statuses
<1>3. parent[m] # NoModel
  BY <1>1, <1>2 DEF Marks, FamilyInv, Applied
<1> QED BY <1>1, <1>2, <1>3, Restatus DEF Marks

LEMMA AddWrites ==
  ASSUME IInv, AllAssumptions, NEW m \in Model, AddCandidate(m)
  PROVE  /\ ~Known(m) /\ parent[m] # NoModel /\ parent[m] \in Model /\ active.m = parent[m]
         /\ model[m].camp = NoCampaign /\ model[m].status = "absent"
         /\ model'[m].status = "candidate" /\ model'[m].camp = NoCampaign /\ Known(m)'
         /\ \A n \in Model \ {m} : model'[n] = model[n]
<1>1. TypeOK /\ "candidate" \in Statuses
  BY DEF IInv, Statuses
<1>2. model[m] = NoRecord
  BY DEF AddCandidate, Known
<1>3. parent[m] # NoModel /\ parent[m] \in Model /\ active.m = parent[m]
  BY DEF AddCandidate, AllAssumptions, ModelAssumption
<1>4. /\ model'[m].status = "candidate" /\ model'[m].camp = model[m].camp /\ Known(m)'
      /\ \A n \in Model \ {m} : model'[n] = model[n]
  BY <1>1, Restatus DEF AddCandidate
<1> QED BY <1>2, <1>3, <1>4 DEF AddCandidate, NoRecord

LEMMA RegisterWrites ==
  ASSUME IInv, AllAssumptions, NEW m \in Model, RegisterInitial(m)
  PROVE  /\ \A n \in Model : ~Known(n) /\ model[n] = NoRecord
         /\ active.m = NoModel /\ parent[m] = NoModel
         /\ model'[m].status = "active" /\ model'[m].camp = NoCampaign /\ Known(m)'
         /\ \A n \in Model \ {m} : model'[n] = NoRecord /\ ~Known(n)'
<1>1. TypeOK /\ "active" \in Statuses
  BY DEF IInv, Statuses
<1>2. \A n \in Model : ~Known(n) /\ model[n] = NoRecord
  BY DEF RegisterInitial, IInv, FamilyInv, Known
<1>3. /\ model'[m].status = "active" /\ model'[m].camp = model[m].camp
      /\ \A n \in Model \ {m} : model'[n] = model[n]
      /\ Known(m)'
  BY <1>1, Restatus DEF RegisterInitial
<1> QED BY <1>2, <1>3 DEF RegisterInitial, NoRecord, Known

(* No step of the registry but those that write a status of its own.        *)
LEMMA WrittenModel ==
  ASSUME IInv, AllAssumptions, CampaignsGoOn, NEW m \in Model, Known(m),
         model'[m].camp = model[m].camp, model'[m].status # "candidate",
         model[m].status # "candidate",
         parent[m] # NoModel /\ model'[m].status \in {"evaluated", "authorized", "rolled_back"} \cup Applied =>
           model[m].status \in {"evaluated", "authorized", "rolled_back"} \cup Applied,
         \A c \in CampaignId :
           /\ model[m].camp = c
           /\ model'[m].status \in {"authorized", "rolled_back"} \cup Applied
           => IsApproved(c) \/ model[m].status \in {"authorized", "rolled_back"} \cup Applied
  PROVE  ModelInvAt(m)'
<1>1. ModelInvAt(m)
  BY DEF IInv, ModelInv
<1>2. ASSUME NEW c \in CampaignId, model'[m].camp = c
      PROVE  IsFor(c, m)' /\ (model'[m].status \in {"authorized", "rolled_back"} \cup Applied => IsApproved(c)')
  BY <1>1, <1>2, CampaignOfModel DEF ModelInvAt
<1> QED BY <1>1, <1>2 DEF ModelInvAt

LEMMA FamilyStep ==
  ASSUME IInv, AllAssumptions, RegistryChange
  PROVE  FamilyInv'
<1>0. TypeOK /\ FamilyInv /\ ModelsGoOn
  BY RegistryGoesOn DEF IInv
<1> DEFINE Rooted == \E r \in Model : Known(r) /\ parent[r] = NoModel
           Legal(m) == Known(m) => IF parent[m] = NoModel THEN model[m].status \in Applied /\ model[m].camp = NoCampaign
                                                          ELSE Known(parent[m])
<1>1. ASSUME NEW m \in Model, Known(m)
      PROVE  Rooted /\ Rooted'
  BY <1>0, <1>1 DEF FamilyInv, ModelsGoOn
<1>2. ASSUME NEW m \in Model
      PROVE  /\ Legal(m)
             /\ parent[m] # NoModel => parent[m] \in Model
             /\ Known(m) /\ parent[m] # NoModel => Known(parent[m])'
             /\ model'[m] = model[m] => Legal(m)'
  BY <1>0 DEF FamilyInv, ModelsGoOn, Known, AllAssumptions, ModelAssumption
<1>3. ASSUME NEW m \in Model, RegisterInitial(m)
      PROVE  FamilyInv'
  <2>1. active'.m = m /\ m # NoModel
    BY <1>3 DEF RegisterInitial, AllAssumptions, ModelAssumption
  <2> QED BY <1>3, <2>1, RegisterWrites DEF FamilyInv, NoRecord, Applied
<1>4. ASSUME NEW m \in Model, AddCandidate(m)
      PROVE  FamilyInv'
  <2>1. /\ ~Known(m) /\ parent[m] # NoModel /\ parent[m] \in Model /\ active.m = parent[m]
        /\ model'[m].status = "candidate" /\ active' = active
        /\ \A n \in Model \ {m} : model'[n] = model[n]
    BY <1>4, AddWrites DEF AddCandidate
  <2>2. Known(parent[m]) /\ \A n \in Model : model[n].status = "active" <=> n = active.m
    BY <1>0, <2>1, ModelFacts DEF FamilyInv, Statuses
  <2>3. Known(parent[m])' /\ Rooted' /\ m # parent[m]
    BY <1>0, <1>1, <2>1, <2>2 DEF ModelsGoOn
  <2>4. \A n \in Model : Legal(n)'
    BY <1>2, <2>1, <2>3
  <2> QED BY <2>1, <2>2, <2>3, <2>4 DEF FamilyInv
<1>5. ASSUME NEW m \in Model, NEW c \in CampaignId, Records(m, c) \/ Marks(m, c)
      PROVE  FamilyInv'
  <2>1. /\ Known(m) /\ parent[m] # NoModel /\ model[m].status # "active" /\ model'[m].status # "active"
        /\ \A n \in Model \ {m} : model'[n] = model[n]
    BY <1>5, RecordsWrites, MarksWrites DEF Result
  <2>2. active' = active
    BY <1>5 DEF Records, Marks
  <2>3. active.m # NoModel /\ Rooted' /\ \A n \in Model : model[n].status = "active" <=> n = active.m
    BY <1>0, <1>1, <2>1, HeadFacts
  <2>4. \A n \in Model : Legal(n)'
    BY <1>2, <2>1
  <2>5. \A n \in Model : model'[n].status = "active" <=> n = active.m
    BY <2>1, <2>3
  <2> QED BY <2>2, <2>3, <2>4, <2>5 DEF FamilyInv
<1>6. ASSUME NEW m \in Model, Moves(m)
      PROVE  FamilyInv'
  <2>1. /\ Known(m) /\ parent[m] # NoModel /\ parent[m] \in Model /\ active.m = parent[m] /\ m # parent[m]
        /\ model'[m].status = "active"
        /\ model'[parent[m]].status = "superseded" /\ model'[parent[m]].camp = model[parent[m]].camp
        /\ \A n \in Model \ {m, parent[m]} : model'[n] = model[n]
        /\ Known(parent[m])
    BY <1>6, MovesWrites
  <2>2. active'.m = m
    BY <1>6 DEF Moves
  <2>3. Rooted' /\ \A n \in Model : model[n].status = "active" <=> n = active.m
    BY <1>0, <1>1, <2>1, HeadFacts
  <2>4. \A n \in Model : Legal(n)'
    BY <1>2, <2>1 DEF Applied
  <2>5. \A n \in Model : model'[n].status = "active" <=> n = m
    BY <2>1, <2>3
  <2> QED BY <2>2, <2>3, <2>4, <2>5 DEF FamilyInv, AllAssumptions, ModelAssumption
<1>7. ASSUME NEW m \in Model, Rollback(m)
      PROVE  FamilyInv'
  <2>1. /\ Known(m) /\ parent[m] # NoModel /\ parent[m] \in Model /\ active.m = m /\ m # parent[m]
        /\ model'[m].status = "rolled_back"
        /\ model'[parent[m]].status = "active" /\ model'[parent[m]].camp = model[parent[m]].camp
        /\ \A n \in Model \ {m, parent[m]} : model'[n] = model[n]
        /\ Known(parent[m])
    BY <1>7, RollbackWrites
  <2>2. active'.m = parent[m]
    BY <1>7 DEF Rollback
  <2>3. Rooted' /\ \A n \in Model : model[n].status = "active" <=> n = active.m
    BY <1>0, <1>1, <2>1, HeadFacts
  <2>4. \A n \in Model : Legal(n)'
    BY <1>2, <2>1 DEF Applied
  <2>5. \A n \in Model : model'[n].status = "active" <=> n = parent[m]
    BY <2>1, <2>3
  <2> QED BY <2>1, <2>2, <2>3, <2>4, <2>5 DEF FamilyInv, AllAssumptions, ModelAssumption
<1> QED BY <1>3, <1>4, <1>5, <1>6, <1>7 DEF RegistryChange

LEMMA ModelStep ==
  ASSUME IInv, AllAssumptions, CampaignsGoOn, RegistryChange
  PROVE  ModelInv'
<1>1. ASSUME NEW n \in Model, model'[n] = model[n]
      PROVE  ModelInvAt(n)'
  BY <1>1, UntouchedModel
<1>2. ASSUME NEW n \in Model, model'[n].camp = NoCampaign,
             model'[n].status = "candidate" \/ parent[n] = NoModel
      PROVE  ModelInvAt(n)'
  BY <1>2 DEF ModelInvAt, AllAssumptions, ModelAssumption, Applied
<1>3. ASSUME NEW m \in Model, RegisterInitial(m)
      PROVE  ModelInv'
  <2>1. ModelInvAt(m)'
    BY <1>2, <1>3, RegisterWrites
  <2>2. \A n \in Model \ {m} : ModelInvAt(n)'
    BY <1>1, <1>3, RegisterWrites
  <2> QED BY <2>1, <2>2 DEF ModelInv
<1>4. ASSUME NEW m \in Model, AddCandidate(m)
      PROVE  ModelInv'
  <2>1. ModelInvAt(m)'
    BY <1>2, <1>4, AddWrites
  <2>2. \A n \in Model \ {m} : ModelInvAt(n)'
    BY <1>1, <1>4, AddWrites
  <2> QED BY <2>1, <2>2 DEF ModelInv
<1>5. ASSUME NEW m \in Model, NEW c \in CampaignId, Records(m, c)
      PROVE  ModelInv'
  <2>1. /\ model'[m].status = Result(m) /\ model'[m].camp = c
        /\ \A n \in Model \ {m} : model'[n] = model[n]
    BY <1>5, RecordsWrites
  <2>2. IsFor(c, m)'
    BY <1>5 DEF Records, IsFor, CampaignsGoOn
  <2>3. ModelInvAt(m)'
    BY <2>1, <2>2 DEF ModelInvAt, Result, Applied, AllAssumptions, ModelAssumption
  <2> QED BY <1>1, <2>1, <2>3 DEF ModelInv
<1>6. ASSUME NEW m \in Model, NEW c \in CampaignId, Marks(m, c)
      PROVE  ModelInv'
  <2>1. /\ Known(m) /\ parent[m] # NoModel /\ model[m].status = "evaluated" /\ model[m].camp = c
        /\ model'[m].status = "authorized" /\ model'[m].camp = c
        /\ \A n \in Model \ {m} : model'[n] = model[n]
        /\ IsApproved(c)
    BY <1>6, MarksWrites DEF Marks
  <2>2. ModelInvAt(m)'
    BY <2>1, WrittenModel
  <2> QED BY <1>1, <2>1, <2>2 DEF ModelInv
<1>7. ASSUME NEW m \in Model, Moves(m)
      PROVE  ModelInv'
  <2>1. PICK p \in Model : p = parent[m]
    BY <1>7, MovesWrites
  <2>2. /\ Known(m) /\ model'[m].status = "active" /\ model'[m].camp = model[m].camp
        /\ model[m].status = "authorized"
        /\ Known(p) /\ model'[p].status = "superseded" /\ model'[p].camp = model[p].camp
        /\ model[p].status = "active"
        /\ \A n \in Model \ {m, p} : model'[n] = model[n]
    BY <1>7, <2>1, MovesWrites
  <2>3. ModelInvAt(m)' /\ ModelInvAt(p)'
    BY <2>2, WrittenModel DEF Applied
  <2> QED BY <1>1, <2>2, <2>3 DEF ModelInv
<1>8. ASSUME NEW m \in Model, Rollback(m)
      PROVE  ModelInv'
  <2>1. PICK p \in Model : p = parent[m]
    BY <1>8, RollbackWrites
  <2>2. /\ Known(m) /\ model'[m].status = "rolled_back" /\ model'[m].camp = model[m].camp
        /\ model[m].status = "active"
        /\ Known(p) /\ model'[p].status = "active" /\ model'[p].camp = model[p].camp
        /\ model[p].status = "superseded"
        /\ \A n \in Model \ {m, p} : model'[n] = model[n]
    BY <1>8, <2>1, RollbackWrites
  <2>3. ModelInvAt(m)' /\ ModelInvAt(p)'
    BY <2>2, WrittenModel DEF Applied
  <2> QED BY <1>1, <2>2, <2>3 DEF ModelInv
<1> QED BY <1>3, <1>4, <1>5, <1>6, <1>7, <1>8 DEF RegistryChange

-----------------------------------------------------------------------------
(* The calls *)

LEMMA HoldsOn ==
  ASSUME AllAssumptions, CampaignsGoOn, ModelsGoOn, NEW j \in Jobs \cup {Idle}, JobHolds(j)
  PROVE  JobHolds(j)'
<1>1. CASE j.pc \in EvaluatePcs
  <2>1. j.m \in Model /\ j.pc \notin DecidedPcs
    BY <1>1 DEF Jobs, Idle, EvaluatePcs, DecidedPcs
  <2>2. Known(j.m) => Known(j.m)'
    BY <2>1 DEF ModelsGoOn
  <2>3. \A c \in CampaignId : model[j.m].camp = c => model'[j.m].camp = c
    BY <2>1 DEF ModelsGoOn, AllAssumptions, ModelAssumption
  <2>4. \A c \in CampaignId : Exists(c) => Exists(c)' /\ camp'[c].target = camp[c].target
    BY DEF CampaignsGoOn
  <2>5. \A c \in CampaignId : IsFor(c, j.m) => IsFor(c, j.m)'
    BY DEF CampaignsGoOn, IsFor
  <2> QED BY <2>1, <2>2, <2>3, <2>4, <2>5 DEF JobHolds, DecidedPcs
<1>2. CASE j.pc \in DecidedPcs
  <2>1. j.c \in CampaignId /\ j.pc \notin EvaluatePcs
    BY <1>2 DEF Jobs, Idle, EvaluatePcs, DecidedPcs
  <2>2. IsApproved(j.c) => IsApproved(j.c)' /\ camp'[j.c].cand = camp[j.c].cand
    BY <2>1 DEF CampaignsGoOn
  <2> QED BY <2>1, <2>2 DEF JobHolds, EvaluatePcs
<1>3. CASE j.pc \notin EvaluatePcs \cup DecidedPcs
  BY <1>3 DEF JobHolds, EvaluatePcs, DecidedPcs
<1> QED BY <1>1, <1>2, <1>3

JobsAreSound == job' \in [Worker -> Jobs \cup {Idle}] /\ JobInv'

(* One call goes on.                                                        *)
LEMMA OneJob ==
  ASSUME IInv, AllAssumptions, CampaignsGoOn, ModelsGoOn, NEW w \in Worker,
         NEW j \in Jobs \cup {Idle}, job' = [job EXCEPT ![w] = j], JobHolds(j)'
  PROVE  JobsAreSound
<1>1. job \in [Worker -> Jobs \cup {Idle}]
  BY DEF IInv, TypeOK
<1>2. ASSUME NEW v \in Worker, v # w
      PROVE  JobInvAt(v)'
  <2>1. PICK i \in Jobs \cup {Idle} : i = job[v]
    BY <1>1
  <2>2. JobHolds(i)
    BY <2>1 DEF IInv, JobInv, JobInvAt
  <2>3. JobHolds(i)' /\ job'[v] = i
    BY <1>1, <1>2, <2>1, <2>2, HoldsOn
  <2> QED BY <2>3 DEF JobInvAt
<1>3. JobInvAt(w)'
  BY <1>1 DEF JobInvAt
<1> QED BY <1>1, <1>2, <1>3 DEF JobsAreSound, JobInv

LEMMA NoJob ==
  ASSUME IInv, AllAssumptions, CampaignsGoOn, ModelsGoOn, job' = job
  PROVE  JobsAreSound
<1>1. job \in [Worker -> Jobs \cup {Idle}]
  BY DEF IInv, TypeOK
<1>2. ASSUME NEW v \in Worker
      PROVE  JobInvAt(v)'
  <2>1. PICK i \in Jobs \cup {Idle} : i = job[v]
    BY <1>1
  <2>2. JobHolds(i)
    BY <2>1 DEF IInv, JobInv, JobInvAt
  <2>3. JobHolds(i)'
    BY <2>2, HoldsOn
  <2> QED BY <2>1, <2>3 DEF JobInvAt
<1> QED BY <1>1, <1>2 DEF JobsAreSound, JobInv

(* A call that is done holds on to nothing.                                 *)
LEMMA JobDone ==
  ASSUME IInv, AllAssumptions, CampaignsGoOn, ModelsGoOn, NEW w \in Worker, Done(w)
  PROVE  JobsAreSound
<1>1. job' = [job EXCEPT ![w] = Idle] /\ Idle \in Jobs \cup {Idle}
  BY DEF Done
<1>2. JobHolds(Idle)'
  BY DEF JobHolds, Idle
<1> QED BY <1>1, <1>2, OneJob

(* What an evaluation remembers, and how its steps rewrite it.              *)
LEMMA EvaluateJob ==
  ASSUME TypeOK, NEW w \in Worker, job[w].pc \in EvaluatePcs
  PROVE  \E m \in Model : \E c \in CampaignId \cup {NoCampaign} :
         \E row \in RowBy(Actor) \cup {NoRow} :
           job[w] = [pc |-> job[w].pc, m |-> m, c |-> c, row |-> row]
BY JobFacts

LEMMA DecidedJob ==
  ASSUME TypeOK, NEW w \in Worker, job[w].pc \in DecidedPcs
  PROVE  \E m \in Model : \E c \in CampaignId : \E row \in RowBy(Actor) : \E n \in Nat :
           job[w] = [pc |-> job[w].pc, m |-> m, c |-> c, row |-> row, rev |-> n]
BY JobFacts

LEMMA NextPc ==
  ASSUME TypeOK, NEW w \in Worker, NEW p, NEW m, NEW c, NEW row, NEW pc,
         job[w] = [pc |-> p, m |-> m, c |-> c, row |-> row], Goto(w, pc)
  PROVE  job' = [job EXCEPT ![w] = [pc |-> pc, m |-> m, c |-> c, row |-> row]]
<1>1. [[pc |-> p, m |-> m, c |-> c, row |-> row] EXCEPT !.pc = pc]
        = [pc |-> pc, m |-> m, c |-> c, row |-> row]
  OBVIOUS
<1> QED BY <1>1 DEF Goto, TypeOK

Continues(w, pc, r) == job' = [job EXCEPT ![w].pc = pc, ![w].row = r]

LEMMA NextPcAndRow ==
  ASSUME TypeOK, NEW w \in Worker, NEW p, NEW m, NEW c, NEW row, NEW pc, NEW r,
         job[w] = [pc |-> p, m |-> m, c |-> c, row |-> row], Continues(w, pc, r)
  PROVE  job' = [job EXCEPT ![w] = [pc |-> pc, m |-> m, c |-> c, row |-> r]]
<1>1. /\ [[pc |-> p, m |-> m, c |-> c, row |-> row] EXCEPT !.pc = pc]
           = [pc |-> pc, m |-> m, c |-> c, row |-> row]
      /\ [[pc |-> pc, m |-> m, c |-> c, row |-> row] EXCEPT !.row = r]
           = [pc |-> pc, m |-> m, c |-> c, row |-> r]
  OBVIOUS
<1>2. job' = [[job EXCEPT ![w] = [pc |-> pc, m |-> m, c |-> c, row |-> row]] EXCEPT ![w].row = r]
  BY <1>1 DEF Continues
<1> QED BY <1>1, <1>2 DEF TypeOK

ContinuesOn(w, c, pc, r) == job' = [job EXCEPT ![w].c = c, ![w].row = r, ![w].pc = pc]

LEMMA NextCampaign ==
  ASSUME TypeOK, NEW w \in Worker, NEW p, NEW m, NEW c, NEW row, NEW d, NEW r, NEW pc,
         job[w] = [pc |-> p, m |-> m, c |-> c, row |-> row], ContinuesOn(w, d, pc, r)
  PROVE  job' = [job EXCEPT ![w] = [pc |-> pc, m |-> m, c |-> d, row |-> r]]
<1>1. /\ [[pc |-> p, m |-> m, c |-> c, row |-> row] EXCEPT !.c = d]
           = [pc |-> p, m |-> m, c |-> d, row |-> row]
      /\ [[pc |-> p, m |-> m, c |-> d, row |-> row] EXCEPT !.row = r]
           = [pc |-> p, m |-> m, c |-> d, row |-> r]
      /\ [[pc |-> p, m |-> m, c |-> d, row |-> r] EXCEPT !.pc = pc]
           = [pc |-> pc, m |-> m, c |-> d, row |-> r]
  OBVIOUS
<1>2. job' = [[job EXCEPT ![w] = [pc |-> p, m |-> m, c |-> d, row |-> row]]
                EXCEPT ![w].row = r, ![w].pc = pc]
  BY <1>1 DEF ContinuesOn
<1>3. job' = [[job EXCEPT ![w] = [pc |-> p, m |-> m, c |-> d, row |-> r]] EXCEPT ![w].pc = pc]
  BY <1>1, <1>2 DEF TypeOK
<1> QED BY <1>1, <1>3 DEF TypeOK

(* A call that was started stands on what it has just read.                 *)
LEMMA EvaluateStarts ==
  ASSUME IInv, AllAssumptions, CampaignsGoOn, ModelsGoOn, NEW w \in Worker, NEW m \in Model,
         EvaluateStart(w, m)
  PROVE  JobsAreSound
<1> DEFINE j == [pc |-> "reserve", m |-> m, c |-> NoCampaign, row |-> NoRow]
<1>1. j \in Jobs \cup {Idle} /\ job' = [job EXCEPT ![w] = j]
  BY DEF EvaluateStart, Jobs
<1>2. Known(m) /\ parent[m] # NoModel /\ trainer[m] \notin judges[m]
  <2>1. Known(m)
    BY ModelFacts DEF EvaluateStart, IInv, Statuses
  <2> QED BY <2>1 DEF EvaluateStart, IInv, FamilyInv, Applied
<1>3. JobHolds(j)'
  BY <1>2 DEF JobHolds, ModelsGoOn
<1> QED BY <1>1, <1>3, OneJob

LEMMA DecidedStarts ==
  ASSUME IInv, AllAssumptions, CampaignsGoOn, ModelsGoOn, NEW w \in Worker, NEW m \in Model,
         NEW c \in CampaignId, SynchronizeStart(w, m, c) \/ ActivateStart(w, m, c)
  PROVE  JobsAreSound
<1>1. /\ camp[c].state \in {"authorized", "completed"} /\ ApprovalsAreValid(c)
      /\ \E pc \in {"mark", "move"}, n \in Nat :
           job' = [job EXCEPT ![w] = [pc |-> pc, m |-> m, c |-> c, row |-> camp[c], rev |-> n]]
  BY DEF SynchronizeStart, ActivateStart, IInv, TypeOK
<1>2. PICK row : row = camp[c]
  OBVIOUS
<1>3. PICK pc \in {"mark", "move"}, n \in Nat :
        job' = [job EXCEPT ![w] = [pc |-> pc, m |-> m, c |-> c, row |-> camp[c], rev |-> n]]
  BY <1>1
<1>4. /\ row = camp[c]
      /\ job' = [job EXCEPT ![w] = [pc |-> pc, m |-> m, c |-> c, row |-> row, rev |-> n]]
  BY <1>2, <1>3
<1>5. Exists(c) /\ IsApproved(c)
  BY <1>1 DEF Exists, IsApproved, Decided, ClosedStates
<1>6. row \in RowBy(Actor)
  BY <1>4, <1>5, CampaignRow DEF IInv
<1> DEFINE j == [pc |-> pc, m |-> m, c |-> c, row |-> row, rev |-> n]
<1>7. j \in Jobs \cup {Idle}
  BY <1>6 DEF Jobs
<1>8. IsApproved(c)' /\ camp'[c].cand = row.cand
  BY <1>4, <1>5 DEF CampaignsGoOn
<1>9. JobHolds(j)'
  BY <1>8 DEF JobHolds
<1> QED BY <1>4, <1>7, <1>9, OneJob

Reserves(w, c, m) ==
  /\ InsertCampaign(c, m, m, trainer[m], 2, "open", 0) \/ ReuseCampaign(c, m, m)
  /\ camp'[c].state # "open" => camp'[c].cand = m
  /\ ContinuesOn(w, c, IF camp'[c].state = "open" THEN "attach" ELSE "record", camp'[c])

LEMMA ReserveGoesOn ==
  ASSUME IInv, AllAssumptions, [Next]_vars, NEW w \in Worker, EvaluateReserve(w)
  PROVE  JobsAreSound
<1>0. TypeOK /\ CampaignsGoOn /\ ModelsGoOn /\ CampaignsTypeOK' /\ CampaignInv'
  BY StepFacts, CampaignInvariants DEF IInv
<1>1. job[w].pc = "reserve" /\ job[w].pc \in EvaluatePcs
  BY DEF EvaluateReserve, EvaluatePcs
<1>2. PICK m \in Model, d \in CampaignId \cup {NoCampaign}, old \in RowBy(Actor) \cup {NoRow} :
        job[w] = [pc |-> "reserve", m |-> m, c |-> d, row |-> old]
  BY <1>0, <1>1, EvaluateJob
<1>3. PICK c \in CampaignId : Reserves(w, c, m)
  <2>1. job[w].m = m
    BY <1>2
  <2>2. \E c \in CampaignId : \E n \in {job[w].m} : Reserves(w, c, n)
    BY Zenon DEF EvaluateReserve, Reserves, ContinuesOn
  <2> QED BY <2>1, <2>2
<1>4. Exists(c)' /\ camp'[c].target = m
  <2>1. CASE InsertCampaign(c, m, m, trainer[m], 2, "open", 0)
    BY <1>0, <2>1 DEF InsertCampaign, CampaignsTypeOK, Exists, TypeOK
  <2>2. CASE ReuseCampaign(c, m, m)
    BY <2>2 DEF ReuseCampaign, OpenOn, OpenStates, Exists, campaignVars
  <2> QED BY <1>3, <2>1, <2>2 DEF Reserves
<1>5. camp'[c] \in RowBy(Actor) /\ camp'[c].state # "evidence_accumulating"
  BY <1>0, <1>4 DEF CampaignsTypeOK, Exists, NoRow, CampaignInv, CampaignInvAt
<1>6. PICK row \in RowBy(Actor) : row = camp'[c]
  BY <1>5
<1> DEFINE pc == IF row.state = "open" THEN "attach" ELSE "record"
<1> DEFINE j == [pc |-> pc, m |-> m, c |-> c, row |-> row]
<1>7. j \in Jobs \cup {Idle} /\ job' = [job EXCEPT ![w] = j]
  <2>1. ContinuesOn(w, c, pc, row)
    BY <1>3, <1>6, Zenon DEF Reserves
  <2>2. pc \in {"attach", "record"}
    OBVIOUS
  <2> HIDE DEF pc
  <2>3. job' = [job EXCEPT ![w] = j]
    BY <1>0, <1>2, <2>1, NextCampaign
  <2> QED BY <2>2, <2>3 DEF Jobs
<1>8. Known(m) /\ parent[m] # NoModel /\ trainer[m] \notin judges[m]
  BY <1>2 DEF IInv, JobInv, JobInvAt, JobHolds
<1>9. pc = "record" => IsFor(c, m)'
  BY <1>3, <1>4, <1>5, <1>6 DEF IsFor, InitialStates, Reserves
<1>10. JobHolds(j)'
  BY <1>0, <1>4, <1>8, <1>9 DEF JobHolds, ModelsGoOn
<1> QED BY <1>0, <1>7, <1>10, OneJob

LEMMA AttachGoesOn ==
  ASSUME IInv, AllAssumptions, [Next]_vars, NEW w \in Worker, EvaluateAttach(w)
  PROVE  JobsAreSound
<1>0. TypeOK /\ CampaignsTypeOK /\ CampaignsGoOn /\ ModelsGoOn
  BY StepFacts DEF IInv, TypeOK
<1>1. job[w].pc = "attach" /\ job[w].pc \in EvaluatePcs
  BY DEF EvaluateAttach, EvaluatePcs
<1>2. PICK m \in Model, c \in CampaignId \cup {NoCampaign}, row \in RowBy(Actor) \cup {NoRow} :
        job[w] = [pc |-> "attach", m |-> m, c |-> c, row |-> row]
  BY <1>0, <1>1, EvaluateJob
<1>3. /\ Known(m) /\ parent[m] # NoModel /\ trainer[m] \notin judges[m]
      /\ c \in CampaignId /\ Exists(c) /\ camp[c].target = m
  BY <1>2 DEF IInv, JobInv, JobInvAt, JobHolds
<1>4. AttachCandidate(c, m, row.rev, 0) /\ m \in Candidate
  BY <1>2 DEF EvaluateAttach, AllAssumptions, ModelAssumption
<1>5. camp'[c].state = "candidate_ready" /\ camp'[c].cand = m
  BY <1>0, <1>3, <1>4, AttachWrites
<1>6. IsFor(c, m)'
  BY <1>0, <1>3, <1>5 DEF IsFor, InitialStates, CampaignsGoOn
<1> DEFINE j == [pc |-> "record", m |-> m, c |-> c, row |-> row]
<1>7. j \in Jobs \cup {Idle} /\ job' = [job EXCEPT ![w] = j]
  <2>1. job' = [job EXCEPT ![w] = j]
    BY <1>0, <1>2, NextPc DEF EvaluateAttach
  <2> QED BY <2>1 DEF Jobs
<1>8. JobHolds(j)'
  BY <1>0, <1>3, <1>6 DEF JobHolds, ModelsGoOn
<1> QED BY <1>0, <1>7, <1>8, OneJob

LEMMA RecordGoesOn ==
  ASSUME IInv, AllAssumptions, [Next]_vars, NEW w \in Worker, EvaluateRecord(w)
  PROVE  JobsAreSound
<1>0. TypeOK /\ CampaignsGoOn /\ ModelsGoOn
  BY StepFacts DEF IInv
<1>1. job[w].pc = "record" /\ job[w].pc \in EvaluatePcs
  BY DEF EvaluateRecord, EvaluatePcs
<1>2. PICK m \in Model, c \in CampaignId \cup {NoCampaign}, old \in RowBy(Actor) \cup {NoRow} :
        job[w] = [pc |-> "record", m |-> m, c |-> c, row |-> old]
  BY <1>0, <1>1, EvaluateJob
<1>3. /\ Known(m) /\ parent[m] # NoModel /\ trainer[m] \notin judges[m]
      /\ c \in CampaignId /\ IsFor(c, m)
  BY <1>2 DEF IInv, JobInv, JobInvAt, JobHolds
<1>4. RecordEvaluation(m, c) /\ job' = [job EXCEPT ![w].pc = "submit", ![w].row = camp[c]]
  BY <1>2 DEF EvaluateRecord
<1>5. model'[m].camp = c
  BY <1>0, <1>4 DEF RecordEvaluation, registryVars, TypeOK
<1>6. PICK row \in RowBy(Actor) : row = camp[c]
  BY <1>0, <1>3, CampaignRow DEF IsFor
<1> DEFINE j == [pc |-> "submit", m |-> m, c |-> c, row |-> row]
<1>7. j \in Jobs \cup {Idle} /\ job' = [job EXCEPT ![w] = j]
  <2>1. Continues(w, "submit", row)
    BY <1>4, <1>6 DEF Continues
  <2>2. job' = [job EXCEPT ![w] = j]
    BY <1>0, <1>2, <2>1, NextPcAndRow
  <2> QED BY <2>2 DEF Jobs
<1>8. IsFor(c, m)' /\ Known(m)'
  BY <1>0, <1>3 DEF IsFor, CampaignsGoOn, ModelsGoOn
<1>9. JobHolds(j)'
  BY <1>3, <1>5, <1>8 DEF JobHolds
<1> QED BY <1>0, <1>7, <1>9, OneJob

LEMMA SubmitGoesOn ==
  ASSUME IInv, AllAssumptions, [Next]_vars, NEW w \in Worker, EvaluateSubmit(w)
  PROVE  JobsAreSound
<1>0. TypeOK /\ CampaignsGoOn /\ ModelsGoOn /\ CampaignsTypeOK'
  BY StepFacts, CampaignInvariants DEF IInv
<1>1. job[w].pc = "submit" /\ job[w].pc \in EvaluatePcs
  BY DEF EvaluateSubmit, EvaluatePcs
<1>2. PICK m \in Model, c \in CampaignId \cup {NoCampaign}, old \in RowBy(Actor) \cup {NoRow} :
        job[w] = [pc |-> "submit", m |-> m, c |-> c, row |-> old]
  BY <1>0, <1>1, EvaluateJob
<1>3. /\ Known(m) /\ parent[m] # NoModel /\ trainer[m] \notin judges[m]
      /\ c \in CampaignId /\ IsFor(c, m) /\ model[m].camp = c
  BY <1>2 DEF IInv, JobInv, JobInvAt, JobHolds
<1>4. IsFor(c, m)' /\ Known(m)' /\ model'[m].camp = c
  BY <1>0, <1>3 DEF IsFor, CampaignsGoOn, ModelsGoOn, AllAssumptions, ModelAssumption
<1>5. camp'[c] \in RowBy(Actor)
  BY <1>0, <1>3, <1>4 DEF CampaignsTypeOK, IsFor, Exists, NoRow
<1>6. \E row \in RowBy(Actor) \cup {NoRow} :
        job' = [job EXCEPT ![w] = [pc |-> "finish", m |-> m, c |-> c, row |-> row]]
  <2>1. CASE job' = [job EXCEPT ![w].pc = "finish", ![w].row = camp'[c]]
    <3>1. PICK row \in RowBy(Actor) : row = camp'[c]
      BY <1>5
    <3>2. Continues(w, "finish", row)
      BY <2>1, <3>1 DEF Continues
    <3>3. job' = [job EXCEPT ![w] = [pc |-> "finish", m |-> m, c |-> c, row |-> row]]
      BY <1>0, <1>2, <3>2, NextPcAndRow
    <3> QED BY <3>3
  <2>2. CASE Goto(w, "finish")
    <3>1. job' = [job EXCEPT ![w] = [pc |-> "finish", m |-> m, c |-> c, row |-> old]]
      BY <1>0, <1>2, <2>2, NextPc
    <3> QED BY <3>1
  <2> QED BY <1>2, <2>1, <2>2 DEF EvaluateSubmit
<1>10. PICK row \in RowBy(Actor) \cup {NoRow} :
        job' = [job EXCEPT ![w] = [pc |-> "finish", m |-> m, c |-> c, row |-> row]]
  BY <1>6
<1> DEFINE j == [pc |-> "finish", m |-> m, c |-> c, row |-> row]
<1>7. j \in Jobs \cup {Idle}
  BY <1>3 DEF Jobs
<1>8. JobHolds(j)'
  BY <1>3, <1>4 DEF JobHolds
<1> QED BY <1>0, <1>7, <1>8, <1>10, OneJob

LEMMA MoveGoesOn ==
  ASSUME IInv, AllAssumptions, CampaignsGoOn, ModelsGoOn, NEW w \in Worker, ActivateMove(w)
  PROVE  JobsAreSound
<1>1. job[w].pc = "move" /\ job[w].pc \in DecidedPcs /\ TypeOK
  BY DEF ActivateMove, IInv, DecidedPcs
<1>2. PICK m \in Model, c \in CampaignId, row \in RowBy(Actor), n \in Nat :
        job[w] = [pc |-> "move", m |-> m, c |-> c, row |-> row, rev |-> n]
  <2>1. \E m \in Model : \E c \in CampaignId : \E row \in RowBy(Actor) : \E n \in Nat :
          job[w] = [pc |-> job[w].pc, m |-> m, c |-> c, row |-> row, rev |-> n]
    BY <1>1, DecidedJob
  <2> QED BY <1>1, <2>1
<1> DEFINE j == [pc |-> "complete", m |-> m, c |-> c, row |-> row, rev |-> n]
<1>3. [[pc |-> "move", m |-> m, c |-> c, row |-> row, rev |-> n] EXCEPT !.pc = "complete"] = j
  OBVIOUS
<1>4. job' = [job EXCEPT ![w] = j] /\ j \in Jobs \cup {Idle}
  BY <1>2, <1>3 DEF ActivateMove, Goto, Jobs
<1>5. IsApproved(c) /\ row.cand = camp[c].cand
  BY <1>2 DEF IInv, JobInv, JobInvAt, JobHolds
<1>6. JobHolds(j)'
  BY <1>5 DEF JobHolds, CampaignsGoOn
<1> QED BY <1>4, <1>6, OneJob

LEMMA JobStep ==
  ASSUME IInv, AllAssumptions, [Next]_vars
  PROVE  JobsAreSound
<1>0. CampaignsGoOn /\ ModelsGoOn
  BY StepFacts
<1>1. CASE job' = job
  BY <1>0, <1>1, NoJob
<1>2. ASSUME NEW w \in Worker,
             EvaluateFinish(w) \/ SynchronizeMark(w) \/ ActivateComplete(w) \/ Abort(w)
      PROVE  JobsAreSound
  BY <1>0, <1>2, JobDone DEF EvaluateFinish, SynchronizeMark, ActivateComplete, Abort
<1>3. CASE \E m \in Model : RegisterInitial(m) \/ AddCandidate(m) \/ Rollback(m)
  BY <1>1, <1>3 DEF RegisterInitial, AddCandidate, Rollback
<1>4. CASE \E c \in CampaignId, a \in Approver : Approve(c, a) \/ ApproveDirectly(c, a) \/ Close(c, a)
  BY <1>1, <1>4 DEF Approve, ApproveDirectly, Close
<1>5. CASE UNCHANGED vars
  BY <1>1, <1>5 DEF vars
<1> QED BY <1>0, <1>2, <1>3, <1>4, <1>5, EvaluateStarts, DecidedStarts, ReserveGoesOn, AttachGoesOn,
           RecordGoesOn, SubmitGoesOn, MoveGoesOn DEF Next

-----------------------------------------------------------------------------

LEMMA InvariantStarts ==
  ASSUME Init, AllAssumptions
  PROVE  IInv
<1> USE DEF Init, CampaignsInit
<1>1. /\ \A c \in CampaignId : camp[c] = NoRow /\ ~Exists(c) /\ Approvers(c) = {}
      /\ \A m \in Model : model[m] = NoRecord /\ ~Known(m)
  BY DEF Exists, NoRow, Approvers, Known
<1>2. TypeOK
  <2>1. CampaignsTypeOK
    BY DEF CampaignsTypeOK
  <2> QED BY <2>1 DEF TypeOK
<1>3. FamilyInv /\ ModelInv
  BY <1>1 DEF FamilyInv, ModelInv, ModelInvAt, NoRecord, Applied, AllAssumptions, ModelAssumption
<1>4. ApprovalInv
  BY <1>1 DEF ApprovalInv, ApprovalInvAt, NoRow, WithCandidate
<1>5. CampaignInv /\ RevisionInv
  BY <1>1 DEF CampaignInv, CampaignInvAt, RevisionInv, RevisionInvAt, NoRow
<1>6. JobInv
  BY DEF JobInv, JobInvAt, JobHolds, Idle
<1> QED BY <1>2, <1>3, <1>4, <1>5, <1>6 DEF IInv

LEMMA RegistryTypes ==
  ASSUME IInv, AllAssumptions, RegistryChange
  PROVE  /\ active' \in [m: Model \cup {NoModel}, rev: Nat]
         /\ events' \in Seq([type: EventTypes, m: Model])
<1>0. TypeOK
  BY DEF IInv
<1> USE DEF EventTypes
<1>1. ASSUME NEW m \in Model, RegisterInitial(m)
      PROVE  active' \in [m: Model \cup {NoModel}, rev: Nat] /\ events' \in Seq([type: EventTypes, m: Model])
  BY <1>0, <1>1, LogType DEF RegisterInitial
<1>2. ASSUME NEW m \in Model, AddCandidate(m)
      PROVE  active' \in [m: Model \cup {NoModel}, rev: Nat] /\ events' \in Seq([type: EventTypes, m: Model])
  BY <1>0, <1>2, LogType DEF AddCandidate, TypeOK
<1>3. ASSUME NEW m \in Model, Rollback(m)
      PROVE  active' \in [m: Model \cup {NoModel}, rev: Nat] /\ events' \in Seq([type: EventTypes, m: Model])
  <2>1. parent[m] \in Model
    BY <1>3, RollbackWrites
  <2>2. active' = [m |-> parent[m], rev |-> active.rev + 1] /\ Log("rolled_back", m)
    BY <1>3 DEF Rollback
  <2>3. active' \in [m: Model \cup {NoModel}, rev: Nat]
    BY <1>0, <2>1, <2>2 DEF TypeOK
  <2> QED BY <1>0, <2>2, <2>3, LogType
<1>4. ASSUME NEW m \in Model, Moves(m)
      PROVE  active' \in [m: Model \cup {NoModel}, rev: Nat] /\ events' \in Seq([type: EventTypes, m: Model])
  BY <1>0, <1>4, LogType DEF Moves, TypeOK
<1>5. ASSUME NEW m \in Model, NEW c \in CampaignId, Records(m, c) \/ Marks(m, c)
      PROVE  active' \in [m: Model \cup {NoModel}, rev: Nat] /\ events' \in Seq([type: EventTypes, m: Model])
  BY <1>0, <1>5, LogType DEF Records, Marks, Result, TypeOK
<1> QED BY <1>1, <1>2, <1>3, <1>4, <1>5 DEF RegistryChange

LEMMA ReusedType ==
  ASSUME TypeOK, [Next]_vars
  PROVE  reused' \subseteq CampaignId
<1>0. reused \subseteq CampaignId
  BY DEF TypeOK
<1>1. ASSUME NEW w \in Worker, EvaluateReserve(w)
      PROVE  reused' \subseteq CampaignId
  BY <1>0, <1>1 DEF EvaluateReserve
<1>2. ASSUME NEW w \in Worker,
             \/ EvaluateAttach(w) \/ EvaluateRecord(w) \/ EvaluateSubmit(w) \/ EvaluateFinish(w)
             \/ SynchronizeMark(w) \/ ActivateMove(w) \/ ActivateComplete(w) \/ Abort(w)
      PROVE  reused' = reused
  BY <1>2 DEF EvaluateAttach, EvaluateRecord, EvaluateSubmit, EvaluateFinish, SynchronizeMark,
              ActivateMove, ActivateComplete, Abort
<1>3. ASSUME NEW w \in Worker, NEW m \in Model,
             \/ EvaluateStart(w, m)
             \/ \E c \in CampaignId : SynchronizeStart(w, m, c) \/ ActivateStart(w, m, c)
      PROVE  reused' = reused
  BY <1>3 DEF EvaluateStart, SynchronizeStart, ActivateStart
<1>4. ASSUME \E m \in Model : RegisterInitial(m) \/ AddCandidate(m) \/ Rollback(m)
      PROVE  reused' = reused
  BY <1>4 DEF RegisterInitial, AddCandidate, Rollback
<1>5. ASSUME \E c \in CampaignId, a \in Approver : Approve(c, a) \/ ApproveDirectly(c, a) \/ Close(c, a)
      PROVE  reused' = reused
  BY <1>5 DEF Approve, ApproveDirectly, Close
<1>6. UNCHANGED vars => reused' = reused
  BY DEF vars
<1> QED BY <1>0, <1>1, <1>2, <1>3, <1>4, <1>5, <1>6 DEF Next

LEMMA InvariantStep ==
  ASSUME IInv, AllAssumptions, [Next]_vars
  PROVE  IInv'
<1>0. TypeOK /\ FamilyInv /\ ModelInv /\ CampaignsGoOn
  BY StepFacts DEF IInv
<1>1. CampaignsTypeOK' /\ ApprovalInv' /\ CampaignInv' /\ RevisionInv'
  BY CampaignInvariants
<1>2. job' \in [Worker -> Jobs \cup {Idle}] /\ JobInv'
  BY JobStep DEF JobsAreSound
<1>3. /\ FamilyInv' /\ ModelInv' /\ model' \in [Model -> Record \cup {NoRecord}]
      /\ active' \in [m: Model \cup {NoModel}, rev: Nat]
      /\ events' \in Seq([type: EventTypes, m: Model])
  <2>1. CASE RegistryChange
    BY <1>0, <2>1, FamilyStep, ModelStep, RegistryTypes, RegistryGoesOn
  <2>2. CASE UNCHANGED registryVars
    <3>1. model' = model /\ active' = active /\ events' = events
      BY <2>2 DEF registryVars
    <3>2. FamilyInv'
      BY <1>0, <3>1 DEF FamilyInv, Known
    <3>3. ModelInv'
      BY <1>0, <3>1, UntouchedModel DEF ModelInv
    <3> QED BY <1>0, <3>1, <3>2, <3>3 DEF TypeOK
  <2> QED BY <2>1, <2>2, StepOnRegistry
<1> QED BY <1>0, <1>1, <1>2, <1>3, ReusedType DEF IInv, TypeOK

(* Campaigns, models and calls keep to one another, whatever calls of the   *)
(* service and of the generic campaign surface run, stop and repeat between *)
(* the two databases (activation.py, sqlite_registry.py).                   *)
THEOREM ModelInvariant ==
  ASSUME ModelAssumption
  PROVE  Spec => []IInv
<1> USE CampaignsAssumption DEF AllAssumptions
<1>1. Init => IInv
  BY InvariantStarts
<1>2. IInv /\ [Next]_vars => IInv'
  BY InvariantStep
<1> QED BY <1>1, <1>2, PTL DEF Spec

(* verify_state (sqlite_registry.py) never raises on well-formed records:   *)
(* the pointer names the one active model, and every ancestor is there.     *)
THEOREM ModelStateVerifies ==
  ASSUME ModelAssumption
  PROVE  Spec => [](TypeOK /\ StateVerifies)
<1>1. IInv => TypeOK /\ StateVerifies
  BY DEF IInv, TypeOK, FamilyInv, StateVerifies
<1> QED BY <1>1, ModelInvariant, PTL

-----------------------------------------------------------------------------
(* The registry and the campaigns implement GovernedChange: each step of    *)
(* theirs is a step of it or leaves what it speaks of alone.                *)

Stage == [m \in Model |-> StageOf(m)]
Votings == [m \in Model |-> VotesFor(m)]
NoUndoing == [m \in Model |-> 0]

(* A step of GovernedChange, in terms of what it is mapped to.              *)
GovernedStep == [Governed!Next]_<<Stage, Votings, NoUndoing, active.m>>

LEMMA StageFacts ==
  ASSUME NEW m \in Model
  PROVE  /\ model[m].status \in Proposed => StageOf(m) = "proposed"
         /\ model[m].status = "authorized" => StageOf(m) = "approved"
         /\ model[m].status \in Applied => StageOf(m) = "applied"
         /\ model[m].status = "rolled_back" => StageOf(m) = "undone"
         /\ ~Known(m) => StageOf(m) = "none"
BY DEF StageOf, NoRecord, Proposed, Applied, Known

LEMMA StageStays ==
  ASSUME NEW m \in Model, model'[m].status = model[m].status
  PROVE  StageOf(m)' = StageOf(m)
BY DEF StageOf

(* The votes for a model change only with its campaign's approvals.         *)
LEMMA VotesStay ==
  ASSUME NEW m \in Model, NEW c \in CampaignId \cup {NoCampaign},
         model[m].camp = c, model'[m].camp = c,
         c # NoCampaign => Approvers(c)' = Approvers(c)
  PROVE  VotesFor(m)' = VotesFor(m)
BY DEF VotesFor, Insiders

LEMMA VotesStayOnRegistry ==
  ASSUME TypeOK, UNCHANGED campaignVars, NEW m \in Model, model'[m].camp = model[m].camp
  PROVE  VotesFor(m)' = VotesFor(m)
<1>1. approvals' = approvals
  BY DEF campaignVars
<1>2. model[m].camp \in CampaignId \cup {NoCampaign}
  BY DEF TypeOK, Record, NoRecord
<1> QED BY <1>1, <1>2, VotesStay DEF Approvers

-----------------------------------------------------------------------------
(* The campaigns *)

LEMMA QuietCampaigns ==
  ASSUME TypeOK, UNCHANGED registryVars, \A c \in CampaignId : Approvers(c)' = Approvers(c)
  PROVE  GovernedStep
<1>0. model' = model /\ active' = active
  BY DEF registryVars
<1>1. Stage' = Stage
  BY <1>0, StageStays DEF Stage
<1>2. ASSUME NEW m \in Model
      PROVE  VotesFor(m)' = VotesFor(m)
  <2>1. model[m].camp \in CampaignId \cup {NoCampaign}
    BY DEF TypeOK, Record, NoRecord
  <2> QED BY <1>0, <2>1, VotesStay
<1>3. Votings' = Votings
  BY <1>2 DEF Votings
<1> QED BY <1>0, <1>1, <1>3 DEF GovernedStep, NoUndoing

LEMMA VoteRefines ==
  ASSUME IInv, AllAssumptions, UNCHANGED registryVars,
         NEW c \in CampaignId, NEW a \in Actor, RecordApproval(c, a, "approve", camp[c].rev, 0, 0)
  PROVE  GovernedStep
<1>0. model' = model /\ active' = active /\ TypeOK /\ CampaignsTypeOK
  BY DEF registryVars, IInv, TypeOK
<1>1. /\ Exists(c) /\ camp[c].state = "approval_pending" /\ approvals[c][a] = "none"
      /\ Approvers(c)' = Approvers(c) \cup {a} /\ IsFiniteSet(Approvers(c))
      /\ \A d \in CampaignId \ {c} : Approvers(d)' = Approvers(d)
  BY <1>0, ApprovalWrites DEF Decisions, AllAssumptions
<1>2. PICK x \in Model : camp[c].target = x /\ model[x].camp = c
  BY <1>1 DEF IInv, CampaignInv, CampaignInvAt
<1>3. c # NoCampaign /\ Known(x)
  BY <1>0, <1>2, ModelFacts DEF AllAssumptions, ModelAssumption
<1>4. ~IsApproved(c)
  BY <1>1 DEF IsApproved, Decided, ClosedStates
<1>5. Stage[x] = "proposed"
  <2>1. model[x].status \notin {"authorized", "rolled_back"} \cup Applied
    BY <1>2, <1>4 DEF IInv, ModelInv, ModelInvAt
  <2>2. model[x].status \in Proposed
    BY <1>0, <1>3, <2>1, ModelFacts DEF Statuses, Proposed, Applied
  <2> QED BY <2>2, StageFacts DEF Stage
<1>6. Stage' = Stage
  BY <1>0, StageStays DEF Stage
<1>7. ASSUME NEW m \in Model, m # x
      PROVE  VotesFor(m)' = VotesFor(m)
  <2>1. model[m].camp \in CampaignId \cup {NoCampaign} /\ model'[m].camp = model[m].camp
    BY <1>0 DEF TypeOK, Record, NoRecord
  <2>2. model[m].camp # c
    BY <1>2, <1>7 DEF IInv, ModelInv, ModelInvAt, IsFor
  <2> QED BY <1>1, <2>1, <2>2, VotesStay
<1>8. /\ VotesFor(x) \in Nat
      /\ VotesFor(x)' = VotesFor(x) \/ VotesFor(x)' = VotesFor(x) + 1
  <2> DEFINE others == Approvers(c) \ Insiders(x)
  <2>1. VotesFor(x) = Cardinality(others)
    BY <1>2, <1>3 DEF VotesFor
  <2>2. VotesFor(x)' = Cardinality((Approvers(c) \cup {a}) \ Insiders(x))
    BY <1>0, <1>1, <1>2, <1>3 DEF VotesFor, Insiders
  <2>3. IsFiniteSet(others) /\ a \notin others
    BY <1>1, FS_Subset DEF Approvers
  <2>4. Cardinality(others) \in Nat /\ Cardinality(others \cup {a}) = Cardinality(others) + 1
    BY <2>3, FS_CardinalityType, FS_AddElement
  <2>5. CASE a \in Insiders(x)
    <3>1. (Approvers(c) \cup {a}) \ Insiders(x) = others
      BY <2>5
    <3> QED BY <2>1, <2>2, <2>4, <3>1
  <2>6. CASE a \notin Insiders(x)
    <3>1. (Approvers(c) \cup {a}) \ Insiders(x) = others \cup {a}
      BY <2>6
    <3> QED BY <2>1, <2>2, <2>4, <3>1
  <2> QED BY <2>5, <2>6
<1>9. Votings' = [Votings EXCEPT ![x] = VotesFor(x)'] /\ Votings[x] = VotesFor(x)
  BY <1>7 DEF Votings
<1>10. CASE VotesFor(x)' = VotesFor(x)
  <2>1. Votings' = Votings
    BY <1>7, <1>10 DEF Votings
  <2> QED BY <1>0, <1>6, <2>1 DEF GovernedStep, NoUndoing
<1>11. CASE VotesFor(x)' = VotesFor(x) + 1
  <2>1. Governed!Vote(x)
    BY <1>0, <1>5, <1>6, <1>9, <1>11 DEF Governed!Vote, Stage, Votings
  <2> QED BY <2>1 DEF GovernedStep, Governed!Next
<1> QED BY <1>8, <1>10, <1>11

LEMMA CampaignsRefine ==
  ASSUME IInv, AllAssumptions, UNCHANGED registryVars, NEW c \in CampaignId, Change(c)
  PROVE  GovernedStep
<1>0. TypeOK /\ CampaignsTypeOK
  BY DEF IInv, TypeOK
<1>1. CASE approvals' = approvals
  BY <1>0, <1>1, QuietCampaigns DEF Approvers
<1>2. CASE Votes(c)
  <2>1. PICK a \in Actor, decision \in Decisions : RecordApproval(c, a, decision, camp[c].rev, 0, 0)
    BY <1>2 DEF Votes
  <2>2. CASE decision = "approve"
    BY <2>1, <2>2, VoteRefines
  <2>3. CASE decision = "reject"
    <3>1. \A d \in CampaignId : Approvers(d)' = Approvers(d)
      BY <1>0, <2>1, <2>3, ApprovalWrites DEF AllAssumptions
    <3> QED BY <1>0, <3>1, QuietCampaigns
  <2> QED BY <2>2, <2>3 DEF Decisions
<1>3. (\E m \in Model : Opens(c, m)) \/ Attaches(c) \/ Closes(c) \/ Judges(c) => approvals' = approvals
  BY DEF Opens, InsertCampaign, Attaches, AttachCandidate, Closes, Judges, Transition
<1> QED BY <1>1, <1>2, <1>3 DEF Change

-----------------------------------------------------------------------------
(* The registry *)

LEMMA RegisterRefines ==
  ASSUME IInv, AllAssumptions, UNCHANGED campaignVars, NEW x \in Model, RegisterInitial(x)
  PROVE  GovernedStep
<1>0. TypeOK
  BY DEF IInv
<1>1. /\ \A m \in Model : ~Known(m) /\ model[m] = NoRecord
      /\ active.m = NoModel /\ active'.m = x
      /\ model'[x].status = "active" /\ model'[x].camp = NoCampaign
      /\ \A m \in Model \ {x} : model'[m] = NoRecord
  BY RegisterWrites DEF RegisterInitial
<1>2. Votings' = Votings
  <2>1. \A m \in Model : VotesFor(m)' = VotesFor(m)
    BY <1>0, <1>1, VotesStayOnRegistry DEF NoRecord
  <2> QED BY <2>1 DEF Votings
<1>3. Stage' = [Stage EXCEPT ![x] = "applied"]
  <2>1. StageOf(x)' = "applied"
    BY <1>1 DEF StageOf
  <2>2. \A m \in Model \ {x} : StageOf(m)' = StageOf(m)
    BY <1>1, StageStays
  <2> QED BY <2>1, <2>2 DEF Stage
<1>4. Stage[x] = "none"
  BY <1>1, StageFacts DEF Stage
<1>5. Governed!Found(x)
  BY <1>1, <1>2, <1>3, <1>4 DEF Governed!Found, Stage, Votings
<1> QED BY <1>5 DEF GovernedStep, Governed!Next

LEMMA AddRefines ==
  ASSUME IInv, AllAssumptions, UNCHANGED campaignVars, NEW x \in Model, AddCandidate(x)
  PROVE  GovernedStep
<1>0. TypeOK
  BY DEF IInv
<1>1. /\ ~Known(x) /\ parent[x] # NoModel /\ active.m = parent[x] /\ active' = active
      /\ model'[x].status = "candidate" /\ model'[x].camp = model[x].camp
      /\ \A m \in Model \ {x} : model'[m] = model[m]
  BY AddWrites DEF AddCandidate
<1>2. Votings' = Votings
  <2>1. \A m \in Model : VotesFor(m)' = VotesFor(m)
    BY <1>0, <1>1, VotesStayOnRegistry
  <2> QED BY <2>1 DEF Votings
<1>3. Stage' = [Stage EXCEPT ![x] = "proposed"]
  <2>1. StageOf(x)' = "proposed"
    BY <1>1 DEF StageOf
  <2>2. \A m \in Model \ {x} : StageOf(m)' = StageOf(m)
    BY <1>1, StageStays
  <2> QED BY <2>1, <2>2 DEF Stage
<1>4. Stage[x] = "none"
  BY <1>1, StageFacts DEF Stage
<1>5. Governed!Propose(x)
  BY <1>1, <1>2, <1>3, <1>4 DEF Governed!Propose, Stage, Votings
<1> QED BY <1>5 DEF GovernedStep, Governed!Next

LEMMA RecordRefines ==
  ASSUME IInv, AllAssumptions, UNCHANGED campaignVars, NEW x \in Model, NEW c \in CampaignId,
         Records(x, c)
  PROVE  GovernedStep
<1>0. TypeOK
  BY DEF IInv
<1>1. /\ Known(x) /\ model[x].status = "candidate" /\ model[x].camp = NoCampaign
      /\ model'[x].status = Result(x) /\ model'[x].camp = c /\ active' = active
      /\ \A m \in Model \ {x} : model'[m] = model[m]
  BY RecordsWrites DEF Records
<1>2. Approvers(c) = {} /\ Approvers(c)' = {} /\ c # NoCampaign
  <2>1. IsFor(c, x) /\ c # NoCampaign
    BY DEF Records, AllAssumptions, ModelAssumption
  <2>2. Approvers(c) = {}
    BY <1>1, <2>1 DEF IsFor, IInv, CampaignInv, CampaignInvAt
  <2>3. approvals' = approvals
    BY DEF campaignVars
  <2> QED BY <2>1, <2>2, <2>3 DEF Approvers
<1>3. VotesFor(x) = 0 /\ VotesFor(x)' = 0
  <2>1. (Approvers(c) \ Insiders(x))' = {}
    BY <1>2
  <2> QED BY <1>1, <1>2, <2>1, FS_EmptySet DEF VotesFor
<1>4. Votings' = Votings
  <2>1. \A m \in Model : VotesFor(m)' = VotesFor(m)
    BY <1>0, <1>1, <1>3, VotesStayOnRegistry
  <2> QED BY <2>1 DEF Votings
<1>5. Stage' = Stage
  <2>1. StageOf(x) = "proposed" /\ StageOf(x)' = "proposed"
    BY <1>1 DEF StageOf, Result
  <2>2. \A m \in Model \ {x} : StageOf(m)' = StageOf(m)
    BY <1>1, StageStays
  <2> QED BY <2>1, <2>2 DEF Stage
<1> QED BY <1>1, <1>4, <1>5 DEF GovernedStep, NoUndoing

LEMMA MarkRefines ==
  ASSUME IInv, AllAssumptions, UNCHANGED campaignVars, NEW x \in Model, NEW c \in CampaignId,
         Marks(x, c)
  PROVE  GovernedStep
<1>0. TypeOK
  BY DEF IInv
<1>1. /\ model[x].status = "evaluated" /\ model[x].camp = c /\ active' = active
      /\ model'[x].status = "authorized" /\ model'[x].camp = c
      /\ \A m \in Model \ {x} : model'[m] = model[m]
      /\ IsApproved(c) /\ c # NoCampaign
  BY MarksWrites DEF Marks, AllAssumptions, ModelAssumption
<1>2. VotesFor(x) = 2
  <2>1. camp[c].target = x
    BY <1>1 DEF IInv, ModelInv, ModelInvAt, IsFor
  <2>2. Cardinality(Approvers(c)) = 2 /\ Approvers(c) \cap Insiders(x) = {}
    BY <1>1, <2>1 DEF IsApproved, ApprovalsAreValid
  <2>3. Approvers(c) \ Insiders(x) = Approvers(c)
    BY <2>2
  <2> QED BY <1>1, <2>2, <2>3 DEF VotesFor
<1>3. Votings' = Votings
  <2>1. \A m \in Model : VotesFor(m)' = VotesFor(m)
    BY <1>0, <1>1, VotesStayOnRegistry
  <2> QED BY <2>1 DEF Votings
<1>4. Stage' = [Stage EXCEPT ![x] = "approved"]
  <2>1. StageOf(x)' = "approved"
    BY <1>1 DEF StageOf
  <2>2. \A m \in Model \ {x} : StageOf(m)' = StageOf(m)
    BY <1>1, StageStays
  <2> QED BY <2>1, <2>2 DEF Stage
<1>5. Stage[x] = "proposed" /\ Votings[x] = 2
  BY <1>1, <1>2, StageFacts DEF Stage, Votings, Proposed
<1>6. Governed!Approve(x)
  BY <1>1, <1>3, <1>4, <1>5 DEF Governed!Approve, Stage, Votings
<1> QED BY <1>6 DEF GovernedStep, Governed!Next

LEMMA MoveRefines ==
  ASSUME IInv, AllAssumptions, UNCHANGED campaignVars, NEW x \in Model, Moves(x)
  PROVE  GovernedStep
<1>0. TypeOK
  BY DEF IInv
<1>1. PICK b \in Model :
        /\ b = parent[x] /\ active.m = b /\ x # b /\ active'.m = x
        /\ model[x].status = "authorized" /\ model[b].status = "active"
        /\ model'[x].status = "active" /\ model'[x].camp = model[x].camp
        /\ model'[b].status = "superseded" /\ model'[b].camp = model[b].camp
        /\ \A m \in Model \ {x, b} : model'[m] = model[m]
  <2>1. active'.m = x
    BY DEF Moves
  <2> QED BY <2>1, MovesWrites
<1>2. Votings' = Votings
  <2>1. \A m \in Model : VotesFor(m)' = VotesFor(m)
    BY <1>0, <1>1, VotesStayOnRegistry
  <2> QED BY <2>1 DEF Votings
<1>3. Stage' = [Stage EXCEPT ![x] = "applied"]
  <2>1. StageOf(x)' = "applied" /\ StageOf(b)' = "applied" /\ StageOf(b) = "applied"
    BY <1>1 DEF StageOf
  <2>2. \A m \in Model \ {x, b} : StageOf(m)' = StageOf(m)
    BY <1>1, StageStays
  <2> QED BY <2>1, <2>2 DEF Stage
<1>4. Stage[x] = "approved"
  BY <1>1, StageFacts DEF Stage
<1>5. Governed!Apply(x)
  BY <1>1, <1>2, <1>3, <1>4 DEF Governed!Apply, Stage, Votings
<1> QED BY <1>5 DEF GovernedStep, Governed!Next

LEMMA RollbackRefines ==
  ASSUME IInv, AllAssumptions, UNCHANGED campaignVars, NEW x \in Model, Rollback(x)
  PROVE  GovernedStep
<1>0. TypeOK
  BY DEF IInv
<1>1. PICK b \in Model :
        /\ b = parent[x] /\ b # NoModel /\ active.m = x /\ x # b /\ active'.m = b
        /\ model[x].status = "active" /\ model[b].status = "superseded"
        /\ model'[x].status = "rolled_back" /\ model'[x].camp = model[x].camp
        /\ model'[b].status = "active" /\ model'[b].camp = model[b].camp
        /\ \A m \in Model \ {x, b} : model'[m] = model[m]
  <2>1. active'.m = parent[x]
    BY DEF Rollback
  <2> QED BY <2>1, RollbackWrites
<1>2. Votings' = Votings
  <2>1. \A m \in Model : VotesFor(m)' = VotesFor(m)
    BY <1>0, <1>1, VotesStayOnRegistry
  <2> QED BY <2>1 DEF Votings
<1>3. Stage' = [Stage EXCEPT ![x] = "undone"]
  <2>1. StageOf(x)' = "undone" /\ StageOf(b)' = "applied" /\ StageOf(b) = "applied"
    BY <1>1 DEF StageOf
  <2>2. \A m \in Model \ {x, b} : StageOf(m)' = StageOf(m)
    BY <1>1, StageStays
  <2> QED BY <2>1, <2>2 DEF Stage
<1>4. Stage[x] = "applied"
  BY <1>1, StageFacts DEF Stage, Applied
<1>5. Governed!Undo(x)
  BY <1>1, <1>2, <1>3, <1>4 DEF Governed!Undo, Stage, Votings
<1> QED BY <1>5 DEF GovernedStep, Governed!Next

LEMMA StepRefines ==
  ASSUME IInv, AllAssumptions, [Next]_vars
  PROVE  GovernedStep
<1>0. TypeOK
  BY DEF IInv
<1>1. CASE UNCHANGED registryVars
  <2>1. CASE UNCHANGED campaignVars
    BY <1>0, <1>1, <2>1, QuietCampaigns DEF campaignVars, Approvers
  <2>2. CASE \E c \in CampaignId : Change(c)
    BY <1>1, <2>2, CampaignsRefine
  <2> QED BY <2>1, <2>2, StepOnCampaigns
<1>2. CASE UNCHANGED campaignVars /\ RegistryChange
  BY <1>2, RegisterRefines, AddRefines, RecordRefines, MarkRefines, MoveRefines, RollbackRefines
  DEF RegistryChange
<1> QED BY <1>1, <1>2, StepOnRegistry

LEMMA StartRefines ==
  ASSUME Init
  PROVE  Governed!Init
<1>1. \A m \in Model : ~Known(m) /\ StageOf(m) = "none" /\ VotesFor(m) = 0
  BY StageFacts DEF Init, Known, VotesFor, NoRecord
<1> QED BY <1>1 DEF Governed!Init, Init

(* A candidate is active only after two people who neither trained nor      *)
(* judged it approved it, on top of the model it was trained from, and what *)
(* was rolled back stays so: for any family and any number of calls of the  *)
(* activation service, each step of both databases is a step of a governed  *)
(* change or none (activation.py).                                          *)
THEOREM ModelsImplementGovernedChange ==
  ASSUME ModelAssumption
  PROVE  Spec => ModelsAreGoverned
<1> USE CampaignsAssumption DEF AllAssumptions
<1>1. Init => Governed!Init
  BY StartRefines
<1>2. IInv /\ [Next]_vars => [Governed!Next]_(Governed!vars)
  BY StepRefines DEF GovernedStep, Governed!vars, Stage, Votings, NoUndoing
<1> QED BY <1>1, <1>2, ModelInvariant, PTL DEF Spec, ModelsAreGoverned, Governed!Spec

-----------------------------------------------------------------------------
(* The story of the only candidate *)

LEMMA EventFacts ==
  ASSUME NEW m \in Model
  PROVE  /\ Event(m, 1) = [type |-> "registered", m |-> parent[m]]
         /\ Event(m, 2) = [type |-> "candidate_admitted", m |-> m]
         /\ Event(m, 3) = [type |-> "evaluated", m |-> m]
         /\ Event(m, 4) = [type |-> "authorized", m |-> m]
         /\ Event(m, 5) = [type |-> "activated", m |-> m]
         /\ Event(m, 6) = [type |-> "rolled_back", m |-> m]
BY DEF Event

LEMMA Longer ==
  ASSUME TypeOK, NEW m \in Model, NEW n \in 1..5, Len(events) = n,
         \A i \in 1..n : events[i] = Event(m, i),
         NEW x \in Model, NEW type \in EventTypes, Log(type, x),
         Event(m, n + 1) = [type |-> type, m |-> x]
  PROVE  Len(events') = n + 1 /\ \A i \in 1..(n + 1) : events'[i] = Event(m, i)
<1>1. events \in Seq([type: EventTypes, m: Model]) /\ [type |-> type, m |-> x] \in [type: EventTypes, m: Model]
  BY DEF TypeOK
<1>2. /\ Len(events') = n + 1
      /\ \A i \in 1..n : events'[i] = events[i]
      /\ events'[n + 1] = [type |-> type, m |-> x]
  BY <1>1 DEF Log
<1> QED BY <1>2

(* Nobody but its candidate and its root is there.                          *)
LEMMA OnlyCandidate ==
  ASSUME IInv, AllAssumptions, NEW m \in Model, IsOnlyCandidate(m)
  PROVE  /\ Known(m) /\ parent[m] \in Model /\ Known(parent[m]) /\ parent[parent[m]] = NoModel
         /\ \A x \in Model : Known(x) /\ parent[x] # NoModel => x = m
<1>1. PICK r \in Model : Known(r) /\ parent[r] = NoModel
  <2>1. Known(m)
    BY DEF IsOnlyCandidate, KnownModels
  <2> QED BY <2>1 DEF IInv, FamilyInv
<1> QED BY <1>1 DEF IsOnlyCandidate, KnownModels, Candidates

(* A step on the one candidate is the next event of its story.              *)
LEMMA StoryGoesOn ==
  ASSUME IInv, AllAssumptions, NEW m \in Model, IsOnlyCandidate(m), StoryAt(m),
         \/ \E c \in CampaignId : Records(m, c) \/ Marks(m, c)
         \/ Moves(m) \/ Rollback(m)
  PROVE  StoryAt(m)'
<1>0. TypeOK /\ m # parent[m]
  BY OnlyCandidate DEF IInv, IsOnlyCandidate, Candidates
<1>1. ASSUME NEW c \in CampaignId, Records(m, c)
      PROVE  StoryAt(m)'
  <2>1. /\ model[m].status = "candidate" /\ model'[m].status = Result(m)
        /\ active' = active /\ Log(Result(m), m)
    BY <1>1, RecordsWrites DEF Records
  <2>2. Tells(m, 2)
    BY <2>1 DEF StoryAt
  <2>3. CASE Result(m) = "evaluated"
    <3>1. Len(events') = 3 /\ \A i \in 1..3 : events'[i] = Event(m, i)
      BY <1>0, <2>1, <2>2, <2>3, EventFacts, Longer DEF Tells, EventTypes
    <3> QED BY <2>1, <2>2, <2>3, <3>1 DEF StoryAt, Tells, Event
  <2>4. CASE Result(m) = "rejected"
    BY <2>1, <2>4 DEF StoryAt
  <2> QED BY <2>3, <2>4 DEF Result
<1>2. ASSUME NEW c \in CampaignId, Marks(m, c)
      PROVE  StoryAt(m)'
  <2>1. /\ model[m].status = "evaluated" /\ model'[m].status = "authorized"
        /\ active' = active /\ Log("authorized", m)
    BY <1>2, MarksWrites DEF Marks
  <2>2. Tells(m, 3)
    BY <2>1 DEF StoryAt
  <2>3. Len(events') = 4 /\ \A i \in 1..4 : events'[i] = Event(m, i)
    BY <1>0, <2>1, <2>2, EventFacts, Longer DEF Tells, EventTypes
  <2> QED BY <2>1, <2>2, <2>3 DEF StoryAt, Tells, Event
<1>3. CASE Moves(m)
  <2>1. /\ model[m].status = "authorized" /\ model'[m].status = "active"
        /\ active' = [m |-> m, rev |-> active.rev + 1] /\ Log("activated", m)
    BY <1>3, MovesWrites DEF Moves
  <2>2. Tells(m, 4)
    BY <2>1 DEF StoryAt
  <2>3. Len(events') = 5 /\ \A i \in 1..5 : events'[i] = Event(m, i)
    BY <1>0, <2>1, <2>2, EventFacts, Longer DEF Tells, EventTypes
  <2>4. active' = [m |-> m, rev |-> 1]
    BY <2>1, <2>2 DEF Tells
  <2> QED BY <2>1, <2>3, <2>4 DEF StoryAt, Tells, Event
<1>4. CASE Rollback(m)
  <2>1. /\ model[m].status = "active" /\ model'[m].status = "rolled_back"
        /\ active' = [m |-> parent[m], rev |-> active.rev + 1] /\ Log("rolled_back", m)
    BY <1>4, RollbackWrites DEF Rollback
  <2>2. Tells(m, 5)
    BY <2>1 DEF StoryAt
  <2>3. Len(events') = 6 /\ \A i \in 1..6 : events'[i] = Event(m, i)
    BY <1>0, <2>1, <2>2, EventFacts, Longer DEF Tells, EventTypes
  <2>4. active' = [m |-> parent[m], rev |-> 2]
    BY <2>1, <2>2 DEF Tells
  <2> QED BY <2>1, <2>3, <2>4 DEF StoryAt, Tells, Event
<1> QED BY <1>1, <1>2, <1>3, <1>4

LEMMA StoryStarts ==
  ASSUME IInv, AllAssumptions, StoryInv, NEW x \in Model, RegisterInitial(x)
  PROVE  StoryInv'
<1>1. /\ \A m \in Model : ~Known(m)
      /\ parent[x] = NoModel /\ Known(x)' /\ \A m \in Model \ {x} : ~Known(m)'
      /\ active' = [m |-> x, rev |-> 0] /\ Log("registered", x)
  BY RegisterWrites DEF RegisterInitial
<1>2. KnownModels = {} /\ KnownModels' = {x}
  BY <1>1 DEF KnownModels
<1>3. events' = <<[type |-> "registered", m |-> x]>>
  BY <1>1, <1>2 DEF StoryInv, Log
<1>4. \A m \in Model : ~IsOnlyCandidate(m)'
  BY <1>1, <1>2 DEF IsOnlyCandidate, Candidates
<1> QED BY <1>1, <1>2, <1>3, <1>4 DEF StoryInv, StoryAt

LEMMA StoryOfAdded ==
  ASSUME IInv, AllAssumptions, StoryInv, NEW x \in Model, AddCandidate(x)
  PROVE  StoryInv'
<1>0. TypeOK
  BY DEF IInv
<1>1. /\ ~Known(x) /\ parent[x] # NoModel /\ parent[x] \in Model /\ active.m = parent[x]
      /\ active' = active /\ Log("candidate_admitted", x)
      /\ model'[x].status = "candidate" /\ Known(x)'
      /\ \A m \in Model \ {x} : model'[m] = model[m]
  BY AddWrites DEF AddCandidate
<1>2. Known(parent[x]) /\ x # parent[x]
  BY <1>0, <1>1, ModelFacts DEF IInv, FamilyInv, Statuses
<1>3. KnownModels' = KnownModels \cup {x}
  BY <1>1 DEF KnownModels, Known
<1>4. KnownModels' # {} /\ \A p \in Model : KnownModels' # {p}
  BY <1>1, <1>2, <1>3 DEF KnownModels
<1>5. ASSUME NEW m \in Model, IsOnlyCandidate(m)'
      PROVE  StoryAt(m)'
  <2>1. KnownModels' = {m, parent[m]} /\ parent[m] # NoModel
    BY <1>5 DEF IsOnlyCandidate, Candidates
  <2>2. CASE x = m
    <3>1. KnownModels = {parent[m]}
      BY <1>1, <1>2, <1>3, <2>1, <2>2 DEF KnownModels
    <3>2. events = <<[type |-> "registered", m |-> parent[m]]>> /\ active = [m |-> parent[m], rev |-> 0]
      BY <1>1, <2>2, <3>1 DEF StoryInv
    <3>3. Len(events) = 1 /\ \A i \in 1..1 : events[i] = Event(m, i)
      BY <3>2, EventFacts
    <3>4. Len(events') = 2 /\ \A i \in 1..2 : events'[i] = Event(m, i)
      BY <1>0, <1>1, <2>2, <3>3, EventFacts, Longer DEF EventTypes
    <3> QED BY <1>1, <2>2, <3>2, <3>4 DEF StoryAt, Tells, Event
  <2>3. CASE x # m
    <3>1. x = parent[m] /\ Known(m)
      BY <1>1, <1>3, <2>1, <2>3 DEF KnownModels
    <3> QED BY <1>1, <2>1, <3>1 DEF IInv, FamilyInv
  <2> QED BY <2>2, <2>3
<1>6. \A m \in Model : StoryAt(m)'
  BY <1>5 DEF StoryAt
<1> QED BY <1>4, <1>6 DEF StoryInv

LEMMA StoryOfOthers ==
  ASSUME IInv, AllAssumptions, StoryInv, NEW x \in Model,
         \/ \E c \in CampaignId : Records(x, c) \/ Marks(x, c)
         \/ Moves(x) \/ Rollback(x)
  PROVE  StoryInv'
<1>1. Known(x) /\ parent[x] # NoModel
  BY RecordsWrites, MarksWrites, MovesWrites, RollbackWrites
<1>2. KnownModels' = KnownModels
  <2>1. ASSUME NEW c \in CampaignId, Records(x, c)
        PROVE  KnownModels' = KnownModels
    <3>1. Known(x)' /\ \A m \in Model \ {x} : model'[m] = model[m]
      BY <1>1, <2>1, RecordsWrites DEF Known, NoRecord, Result
    <3> QED BY <1>1, <3>1 DEF KnownModels, Known
  <2>2. ASSUME NEW c \in CampaignId, Marks(x, c)
        PROVE  KnownModels' = KnownModels
    <3>1. Known(x)' /\ \A m \in Model \ {x} : model'[m] = model[m]
      BY <1>1, <2>2, MarksWrites DEF Known, NoRecord
    <3> QED BY <1>1, <3>1 DEF KnownModels, Known
  <2>3. CASE Moves(x)
    <3>1. PICK b \in Model : /\ Known(b) /\ Known(x)' /\ Known(b)'
                             /\ \A m \in Model \ {x, b} : model'[m] = model[m]
      <4>1. /\ Known(parent[x]) /\ parent[x] \in Model /\ Known(x)' /\ Known(parent[x])'
            /\ \A m \in Model \ {x, parent[x]} : model'[m] = model[m]
        BY <2>3, MovesWrites DEF Known, NoRecord
      <4> QED BY <4>1
    <3> QED BY <1>1, <3>1 DEF KnownModels, Known
  <2>4. CASE Rollback(x)
    <3>1. PICK b \in Model : /\ Known(b) /\ Known(x)' /\ Known(b)'
                             /\ \A m \in Model \ {x, b} : model'[m] = model[m]
      <4>1. /\ Known(parent[x]) /\ parent[x] \in Model /\ Known(x)' /\ Known(parent[x])'
            /\ \A m \in Model \ {x, parent[x]} : model'[m] = model[m]
        BY <2>4, RollbackWrites DEF Known, NoRecord
      <4> QED BY <4>1
    <3> QED BY <1>1, <3>1 DEF KnownModels, Known
  <2> QED BY <2>1, <2>2, <2>3, <2>4
<1>3. KnownModels # {} /\ \A p \in Model : KnownModels # {p}
  BY <1>1 DEF KnownModels, IInv, FamilyInv
<1>4. ASSUME NEW m \in Model, IsOnlyCandidate(m)'
      PROVE  StoryAt(m)'
  <2>1. IsOnlyCandidate(m)
    BY <1>2, <1>4 DEF IsOnlyCandidate, Candidates
  <2>2. x = m
    BY <1>1, <2>1, OnlyCandidate
  <2> QED BY <2>1, <2>2, StoryGoesOn DEF StoryInv
<1>5. \A m \in Model : StoryAt(m)'
  BY <1>4 DEF StoryAt
<1> QED BY <1>2, <1>3, <1>5 DEF StoryInv

LEMMA StoryIsTold ==
  ASSUME IInv, AllAssumptions, StoryInv, [Next]_vars
  PROVE  StoryInv'
<1>1. CASE UNCHANGED registryVars
  <2>1. model' = model /\ active' = active /\ events' = events
    BY <1>1 DEF registryVars
  <2>2. KnownModels' = KnownModels
    BY <2>1 DEF KnownModels, Known
  <2>3. \A m \in Model, n \in Nat : Tells(m, n)' <=> Tells(m, n)
    BY <2>1 DEF Tells, Event
  <2>4. ASSUME NEW m \in Model
        PROVE  StoryAt(m)'
    <3>1. StoryAt(m) /\ IsOnlyCandidate(m)' = IsOnlyCandidate(m)
      BY <2>2 DEF StoryInv, IsOnlyCandidate, Candidates
    <3> QED BY <2>1, <2>3, <3>1 DEF StoryAt
  <2> QED BY <2>1, <2>2, <2>4 DEF StoryInv
<1>2. CASE RegistryChange
  BY <1>2, StoryStarts, StoryOfAdded, StoryOfOthers DEF RegistryChange
<1> QED BY <1>1, <1>2, StepOnRegistry

LEMMA LogIsExemplary ==
  ASSUME IInv, AllAssumptions, NEW m \in Model, IsOnlyCandidate(m), Tells(m, 6)
  PROVE  ModelEventsVerify(m)
<1> DEFINE E == [type: EventTypes, m: Model]
           s == <<[type |-> "registered", m |-> parent[m]]>>
           t == [i \in 1..5 |-> [type |-> <<"candidate_admitted", "evaluated", "authorized",
                                            "activated", "rolled_back">>[i], m |-> m]]
<1>1. parent[m] \in Model /\ events \in Seq(E) /\ Len(events) = 6
  BY OnlyCandidate DEF IInv, TypeOK, Tells
<1>2. /\ s \in Seq(E) /\ Len(s) = 1 /\ s[1] = Event(m, 1)
  BY <1>1, EventFacts DEF EventTypes
<1>3. /\ t \in Seq(E) /\ Len(t) = 5 /\ t[1] = Event(m, 2) /\ t[2] = Event(m, 3)
      /\ t[3] = Event(m, 4) /\ t[4] = Event(m, 5) /\ t[5] = Event(m, 6)
  BY <1>1, EventFacts DEF EventTypes
<1> HIDE DEF s, t, E
<1>4. /\ s \o t \in Seq(E) /\ Len(s \o t) = 6
      /\ \A i \in 1..6 : (s \o t)[i] = IF i <= 1 THEN s[i] ELSE t[i - 1]
  <2>1. /\ s \o t \in Seq(E) /\ Len(s \o t) = Len(s) + Len(t)
        /\ \A i \in 1 .. Len(s) + Len(t) : (s \o t)[i] = IF i <= Len(s) THEN s[i] ELSE t[i - Len(s)]
    BY <1>2, <1>3, ConcatProperties
  <2> QED BY <1>2, <1>3, <2>1
<1>5. \A i \in 1..6 : (s \o t)[i] = Event(m, i)
  <2>1. \A i \in 1..6 : i = 1 \/ i = 2 \/ i = 3 \/ i = 4 \/ i = 5 \/ i = 6
    OBVIOUS
  <2>2. /\ (s \o t)[1] = Event(m, 1) /\ (s \o t)[2] = Event(m, 2) /\ (s \o t)[3] = Event(m, 3)
        /\ (s \o t)[4] = Event(m, 4) /\ (s \o t)[5] = Event(m, 5) /\ (s \o t)[6] = Event(m, 6)
    BY <1>2, <1>3, <1>4
  <2> QED BY <2>1, <2>2
<1>6. events = s \o t
  <2>1. Len(events) = Len(s \o t) /\ \A i \in 1..Len(events) : events[i] = (s \o t)[i]
    BY <1>1, <1>4, <1>5 DEF Tells
  <2> QED BY <1>1, <1>4, <2>1, SeqEqual
<1> QED BY <1>6 DEF ModelEventsVerify, s, t

LEMMA StoryImpliesPackageable ==
  ASSUME IInv, AllAssumptions, StoryInv
  PROVE  LifecycleIsPackageable
<1>1. TypeOK /\ StateVerifies
  BY DEF IInv, TypeOK, FamilyInv, StateVerifies
<1> SUFFICES ASSUME NEW m \in Candidates, {n \in Model : Known(n)} = {m, parent[m]},
                    model[m].status = "rolled_back", reused = {},
                    camp[model[m].camp].state = "completed"
             PROVE  PackageVerifies(m)
  BY <1>1 DEF LifecycleIsPackageable
<1>2. m \in Model /\ parent[m] # NoModel /\ IsOnlyCandidate(m)
  BY DEF Candidates, IsOnlyCandidate, KnownModels
<1>3. /\ Known(m) /\ parent[m] \in Model /\ Known(parent[m]) /\ parent[parent[m]] = NoModel
  BY <1>2, OnlyCandidate
<1>4. PICK c \in CampaignId : model[m].camp = c /\ c # NoCampaign
  BY <1>1, <1>2, <1>3, ModelFacts DEF IInv, ModelInv, ModelInvAt
<1>5. IsFor(c, m) /\ IsApproved(c) /\ m \in passing
  BY <1>2, <1>4 DEF IInv, ModelInv, ModelInvAt
<1>6. Tells(m, 6)
  BY <1>2 DEF StoryInv, StoryAt
<1>7. CampaignVerifies(m, c) /\ trainer[m] \notin judges[m]
  <2>1. Cardinality(Approvers(c)) = 2 /\ camp[c].state = "completed" /\ c \notin reused
    BY <1>4, <1>5 DEF IsApproved, ApprovalsAreValid
  <2>2. camp[c].rev = 6
    BY <2>1 DEF IInv, RevisionInv, RevisionInvAt
  <2>3. /\ camp[c].need = 2 /\ camp[c].fp = m /\ camp[c].gen = trainer[m]
        /\ trainer[m] \notin judges[m] /\ camp[c].target = m /\ camp[c].cand = m
    BY <1>5 DEF IsFor, IInv, CampaignInv, CampaignInvAt
  <2> QED BY <2>1, <2>2, <2>3 DEF CampaignVerifies, CampaignEventsVerify
<1>8. PackagedApprovalsVerify(m, c)
  <2>1. \A a \in Actor : approvals[c][a] # "reject"
    BY <1>7 DEF CampaignVerifies, IInv, ApprovalInv, ApprovalInvAt
  <2> QED BY <1>5, <2>1 DEF IsFor, IsApproved, ApprovalsAreValid, PackagedApprovalsVerify
<1>9. active = [m |-> parent[m], rev |-> 2]
  BY <1>6 DEF Tells
<1>10. RecordsVerify(m)
  <2>1. model[parent[m]].status = "active"
    BY <1>2, <1>3, <1>9 DEF IInv, FamilyInv
  <2> QED BY <2>1 DEF RecordsVerify
<1>11. ModelEventsVerify(m)
  BY <1>2, <1>6, LogIsExemplary
<1> QED BY <1>4, <1>5, <1>7, <1>8, <1>9, <1>10, <1>11 DEF PackageVerifies

(* Once the only candidate of a family was rolled back and its campaign     *)
(* completed, the package builder accepts what the databases hold, however  *)
(* often calls stopped, unless one stopped before its evaluation was        *)
(* recorded (package.py, package_embedded.py).                              *)
THEOREM LifecycleCanBePackaged ==
  ASSUME ModelAssumption
  PROVE  Spec => []LifecycleIsPackageable
<1> USE CampaignsAssumption DEF AllAssumptions
<1>1. Init => StoryInv
  <2> SUFFICES ASSUME Init
               PROVE  StoryInv
    OBVIOUS
  <2>1. events = <<>> /\ KnownModels = {}
    BY DEF Init, KnownModels, Known
  <2> QED BY <2>1 DEF StoryInv, StoryAt, IsOnlyCandidate
<1>2. IInv /\ StoryInv /\ [Next]_vars => StoryInv'
  BY StoryIsTold
<1>3. IInv /\ StoryInv => LifecycleIsPackageable
  BY StoryImpliesPackageable
<1> QED BY <1>1, <1>2, <1>3, ModelInvariant, PTL DEF Spec
=============================================================================
