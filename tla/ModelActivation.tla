---------------------------- MODULE ModelActivation ----------------------------
(***************************************************************************)
(* The models of one family and what activates them: SQLiteModelRegistry   *)
(* (src/evoagent/model_registry/sqlite_registry.py), the admission of      *)
(* externally trained candidates (admission.py), and the                   *)
(* ModelActivationLifecycleService (activation.py) between the registry    *)
(* and the campaigns.  A transaction is one action, job[w] what a call     *)
(* remembers between two of them, and a call may stop anywhere (Abort).    *)
(*                                                                         *)
(* Unlike the other registries this one accepts an activation of the       *)
(* active model as done before it looks at the campaign it was given.      *)
(***************************************************************************)
EXTENDS Campaigns, Sequences

CONSTANTS Model, NoModel, NoCampaign, Worker,
          parent,  \* base_model_id of a candidate, or NoModel
          passing, \* the candidates whose evaluation passes the thresholds
          trainer, judges, \* its trainer; its evaluator and decision actor
          Approver, \* who tries to approve
          CampaignsAreMixedUp \* whether activate is called with another's campaign

(* A model's campaign is on the model itself, and stands for it.            *)
ModelAssumption ==
  /\ NoModel \notin Model /\ NoCampaign \notin CampaignId
  /\ Target = Model /\ Fingerprint = Model /\ Candidate = Model
  /\ parent \in [Model -> Model \cup {NoModel}]
  /\ passing \subseteq Model
  /\ trainer \in [Model -> Actor] /\ judges \in [Model -> SUBSET Actor]
  /\ Approver \subseteq Actor

VARIABLES model, \* model_versions: status and activation_campaign_id, or NoRecord
          active, \* model_heads: active_model_id and revision
          events, \* model_audit_events: type and model
          reused, \* the campaigns with a second reservation in their audit log
          job
registryVars == <<model, active, events>>
vars == <<campaignVars, registryVars, reused, job>>

Statuses == {"candidate", "evaluated", "rejected", "authorized", "active",
             "superseded", "rolled_back"}
Record == [status: Statuses, camp: CampaignId \cup {NoCampaign}]
NoRecord == [status |-> "absent", camp |-> NoCampaign]
EventTypes == {"registered", "candidate_admitted", "evaluated", "rejected",
               "authorized", "activated", "rolled_back"}

Known(m) == m \in Model /\ model[m] # NoRecord

Idle == [pc |-> "idle"]
Jobs == [pc: {"reserve", "attach", "record", "submit", "finish"}, m: Model,
         c: CampaignId \cup {NoCampaign}, row: RowBy(Actor) \cup {NoRow}]
          \cup [pc: {"mark", "move", "complete"}, m: Model, c: CampaignId, row: RowBy(Actor), rev: Nat]

TypeOK ==
  /\ CampaignsTypeOK
  /\ model \in [Model -> Record \cup {NoRecord}]
  /\ active \in [m: Model \cup {NoModel}, rev: Nat]
  /\ events \in Seq([type: EventTypes, m: Model])
  /\ reused \subseteq CampaignId
  /\ job \in [Worker -> Jobs \cup {Idle}]

Init ==
  /\ CampaignsInit
  /\ model = [m \in Model |-> NoRecord]
  /\ active = [m |-> NoModel, rev |-> 0]
  /\ events = <<>>
  /\ reused = {}
  /\ job = [w \in Worker |-> Idle]

Log(type, m) == events' = Append(events, [type |-> type, m |-> m])
Goto(w, pc) == job' = [job EXCEPT ![w].pc = pc]
Done(w) == job' = [job EXCEPT ![w] = Idle]

-----------------------------------------------------------------------------
(* The registry *)

RegisterInitial(m) ==
  /\ active.m = NoModel /\ parent[m] = NoModel
  /\ model' = [model EXCEPT ![m].status = "active"]
  /\ active' = [m |-> m, rev |-> 0]
  /\ Log("registered", m)
  /\ UNCHANGED <<campaignVars, reused, job>>

(* admit: a candidate that is there already is returned as it is.           *)
AddCandidate(m) ==
  /\ ~Known(m)
  /\ active.m # NoModel /\ active.m = parent[m]
  /\ model' = [model EXCEPT ![m].status = "candidate"]
  /\ Log("candidate_admitted", m)
  /\ UNCHANGED <<campaignVars, active, reused, job>>

Result(m) == IF m \in passing THEN "evaluated" ELSE "rejected"

RecordEvaluation(m, c) ==
  \/ /\ model[m].status = "candidate"
     /\ model' = [model EXCEPT ![m] = [status |-> Result(m), camp |-> c]]
     /\ Log(Result(m), m)
     /\ UNCHANGED active
  \/ /\ model[m].status # "candidate" /\ model[m].camp = c
     /\ UNCHANGED registryVars

(* The campaign that the caller has read is the model's, and authorized.    *)
Presents(m, c, row) ==
  /\ row.state = "authorized"
  /\ model[m].camp = c /\ row.cand = m

MarkAuthorized(m, c, row) ==
  /\ Presents(m, c, row)
  /\ \/ /\ model[m].status = "authorized"
        /\ UNCHANGED registryVars
     \/ /\ model[m].status = "evaluated"
        /\ model' = [model EXCEPT ![m].status = "authorized"]
        /\ Log("authorized", m)
        /\ UNCHANGED active

MayActivate_AnyParent(m, c, row, rev) ==
  /\ active.rev = rev
  /\ model[m].status = "authorized" /\ m \in passing
  /\ Presents(m, c, row)
MayActivate(m, c, row, rev) ==
  /\ active.rev = rev
  /\ model[m].status = "authorized" /\ m \in passing
  /\ active.m = parent[m]
  /\ Presents(m, c, row)

Activate(m, c, row, rev) ==
  \/ /\ active.m = m /\ model[m].status = "active"
     /\ UNCHANGED registryVars
  \/ /\ MayActivate(m, c, row, rev)
     /\ model' = [model EXCEPT ![active.m].status = "superseded", ![m].status = "active"]
     /\ active' = [m |-> m, rev |-> rev + 1]
     /\ Log("activated", m)

Rollback(m) ==
  /\ active.m = m /\ model[m].status = "active"
  /\ parent[m] # NoModel /\ model[parent[m]].status = "superseded"
  /\ model' = [model EXCEPT ![m].status = "rolled_back", ![parent[m]].status = "active"]
  /\ active' = [m |-> parent[m], rev |-> active.rev + 1]
  /\ Log("rolled_back", m)
  /\ UNCHANGED <<campaignVars, reused, job>>

StateVerifies ==
  active.m # NoModel =>
    /\ {m \in Model : model[m].status = "active"} = {active.m}
    /\ \A m \in Model : Known(m) /\ parent[m] # NoModel => Known(parent[m])

-----------------------------------------------------------------------------
(* evaluate_and_submit: the evaluation, which must not be the trainer's, is *)
(* the same whoever repeats it, and its campaign is the model's.            *)

EvaluateStart(w, m) ==
  /\ job[w] = Idle
  /\ model[m].status = "candidate"
  /\ trainer[m] \notin judges[m]
  /\ job' = [job EXCEPT ![w] = [pc |-> "reserve", m |-> m, c |-> NoCampaign, row |-> NoRow]]
  /\ UNCHANGED <<campaignVars, registryVars, reused>>

EvaluateReserve(w) ==
  /\ job[w].pc = "reserve"
  /\ \E c \in CampaignId, m \in {job[w].m} :
       /\ \/ InsertCampaign(c, m, m, trainer[m], 2, "open", 0) /\ UNCHANGED reused
          \/ ReuseCampaign(c, m, m) /\ reused' = reused \cup {c}
       /\ camp'[c].state # "open" => camp'[c].cand = m
       /\ job' = [job EXCEPT ![w].c = c, ![w].row = camp'[c],
                             ![w].pc = IF camp'[c].state = "open" THEN "attach" ELSE "record"]
  /\ UNCHANGED registryVars

EvaluateAttach(w) ==
  /\ job[w].pc = "attach"
  /\ AttachCandidate(job[w].c, job[w].m, job[w].row.rev, 0)
  /\ Goto(w, "record")
  /\ UNCHANGED <<registryVars, reused>>

EvaluateRecord(w) ==
  /\ job[w].pc = "record"
  /\ RecordEvaluation(job[w].m, job[w].c)
  /\ job' = [job EXCEPT ![w].pc = "submit", ![w].row = camp[job[w].c]]
  /\ UNCHANGED <<campaignVars, reused>>

(* submit_evaluation is two transitions.                                    *)
EvaluateSubmit(w) ==
  /\ job[w].pc = "submit"
  /\ LET row == job[w].row IN
     \/ /\ row.state = "candidate_ready"
        /\ Transition(job[w].c, "evaluation_pending", row.rev, 0, 0)
        /\ job' = [job EXCEPT ![w].pc = "finish", ![w].row = camp'[job[w].c]]
     \/ /\ row.state = "evaluation_pending"
        /\ Goto(w, "finish") /\ UNCHANGED campaignVars
  /\ UNCHANGED <<registryVars, reused>>

EvaluateFinish(w) ==
  /\ job[w].pc = "finish"
  /\ Transition(job[w].c, IF job[w].m \in passing THEN "approval_pending" ELSE "rejected",
                job[w].row.rev, 0, 0)
  /\ Done(w)
  /\ UNCHANGED <<registryVars, reused>>

-----------------------------------------------------------------------------
(* Approval, authorization, activation *)

Insiders(m) == judges[m] \cup {trainer[m]}

Approve(c, a) ==
  /\ Exists(c) /\ a \notin Insiders(camp[c].target)
  /\ RecordApproval(c, a, "approve", camp[c].rev, 0, 0)
  /\ UNCHANGED <<registryVars, reused, job>>

(* The same through the generic campaign surface, or a rejection, or a      *)
(* cancellation.                                                            *)
ApproveDirectly(c, a) ==
  /\ RecordApproval(c, a, "approve", camp[c].rev, 0, 0)
  /\ UNCHANGED <<registryVars, reused, job>>

Close(c, a) ==
  /\ \/ RecordApproval(c, a, "reject", camp[c].rev, 0, 0)
     \/ Transition(c, "cancelled", camp[c].rev, 0, 0)
  /\ UNCHANGED <<registryVars, reused, job>>

ApprovalsAreValid_AnyHands(c) ==
  /\ Cardinality({a \in Actor : approvals[c][a] # "none"}) = 2
  /\ Cardinality(Approvers(c)) = 2
(* _validate_persisted_approvals *)
ApprovalsAreValid(c) ==
  /\ camp[c].need = 2
  /\ Cardinality({a \in Actor : approvals[c][a] # "none"}) = 2
  /\ Cardinality(Approvers(c)) = 2
  /\ Approvers(c) \cap Insiders(camp[c].target) = {}

SynchronizeStart(w, m, c) ==
  /\ job[w] = Idle /\ Known(m)
  /\ camp[c].state = "authorized" /\ ApprovalsAreValid(c)
  /\ job' = [job EXCEPT ![w] = [pc |-> "mark", m |-> m, c |-> c, row |-> camp[c], rev |-> 0]]
  /\ UNCHANGED <<campaignVars, registryVars, reused>>

SynchronizeMark(w) ==
  /\ job[w].pc = "mark"
  /\ MarkAuthorized(job[w].m, job[w].c, job[w].row)
  /\ Done(w)
  /\ UNCHANGED <<campaignVars, reused>>

ActivateStart(w, m, c) ==
  /\ job[w] = Idle /\ Known(m)
  /\ CampaignsAreMixedUp \/ model[m].camp = c
  /\ camp[c].state \in {"authorized", "completed"} /\ ApprovalsAreValid(c)
  /\ job' = [job EXCEPT ![w] = [pc |-> "move", m |-> m, c |-> c, row |-> camp[c],
                                rev |-> active.rev]]
  /\ UNCHANGED <<campaignVars, registryVars, reused>>

ActivateMove(w) ==
  /\ job[w].pc = "move"
  /\ Activate(job[w].m, job[w].c, job[w].row, job[w].rev)
  /\ Goto(w, "complete")
  /\ UNCHANGED <<campaignVars, reused>>

ActivateComplete(w) ==
  /\ job[w].pc = "complete"
  /\ LET c == job[w].c IN
     \/ /\ camp[c].state = "authorized"
        /\ Transition(c, "completed", camp[c].rev, 0, 0)
     \/ camp[c].state = "completed" /\ UNCHANGED campaignVars
  /\ Done(w)
  /\ UNCHANGED <<registryVars, reused>>

Abort(w) ==
  /\ job[w] # Idle
  /\ Done(w)
  /\ UNCHANGED <<campaignVars, registryVars, reused>>

Next ==
  \/ \E m \in Model : RegisterInitial(m) \/ AddCandidate(m) \/ Rollback(m)
  \/ \E w \in Worker :
       \/ \E m \in Model : EvaluateStart(w, m)
       \/ \E m \in Model, c \in CampaignId : SynchronizeStart(w, m, c) \/ ActivateStart(w, m, c)
       \/ EvaluateReserve(w) \/ EvaluateAttach(w) \/ EvaluateRecord(w)
       \/ EvaluateSubmit(w) \/ EvaluateFinish(w)
       \/ SynchronizeMark(w) \/ ActivateMove(w) \/ ActivateComplete(w)
       \/ Abort(w)
  \/ \E c \in CampaignId, a \in Approver : Approve(c, a) \/ ApproveDirectly(c, a) \/ Close(c, a)

Spec == Init /\ [][Next]_vars

-----------------------------------------------------------------------------
(* The admission package (package.py, package_embedded.py) of a model that  *)
(* was activated and rolled back.                                           *)

Candidates == {m \in Model : parent[m] # NoModel}

CampaignEventsVerify(c) == camp[c].rev = 6 /\ c \notin reused

CampaignVerifies(m, c) ==
  /\ camp[c].state = "completed" /\ camp[c].need = 2
  /\ camp[c].gen = trainer[m] /\ camp[c].target = m /\ camp[c].fp = m /\ camp[c].cand = m
  /\ CampaignEventsVerify(c)

PackagedApprovalsVerify(m, c) ==
  /\ Cardinality(Approvers(c)) = 2
  /\ \A a \in Actor : approvals[c][a] # "reject"
  /\ Approvers(c) \cap Insiders(m) = {}

RecordsVerify(m) ==
  /\ {n \in Model : Known(n)} = {m, parent[m]}
  /\ model[parent[m]].status = "active" /\ model[m].status = "rolled_back"

ModelEventsVerify(m) ==
  events = <<[type |-> "registered", m |-> parent[m]]>> \o
           [i \in 1..5 |-> [type |-> <<"candidate_admitted", "evaluated", "authorized",
                                      "activated", "rolled_back">>[i], m |-> m]]

PackageVerifies(m) ==
  /\ m \in passing /\ trainer[m] \notin judges[m]
  /\ model[m].camp # NoCampaign
  /\ CampaignVerifies(m, model[m].camp) /\ PackagedApprovalsVerify(m, model[m].camp)
  /\ RecordsVerify(m)
  /\ ModelEventsVerify(m)
  /\ active = [m |-> parent[m], rev |-> 2]

-----------------------------------------------------------------------------
(* Properties *)

(* Each step of the family is one of a governed change, or none: a          *)
(* candidate is active only after two people who neither trained nor        *)
(* judged it approved it, on top of the model it was trained from, and what *)
(* was rolled back stays so.                                                *)
StageOf(m) ==
  CASE model[m].status \in {"candidate", "evaluated", "rejected"} -> "proposed"
    [] model[m].status = "authorized" -> "approved"
    [] model[m].status \in {"active", "superseded"} -> "applied"
    [] model[m].status = "rolled_back" -> "undone"
    [] OTHER -> "none"
VotesFor(m) ==
  IF model[m].camp = NoCampaign THEN 0
  ELSE Cardinality(Approvers(model[m].camp) \ Insiders(m))

Governed == INSTANCE GovernedChange WITH
  Change <- Model, NoChange <- NoModel, below <- parent, UndoNeedsVotes <- FALSE,
  stage <- [m \in Model |-> StageOf(m)],
  votes <- [m \in Model |-> VotesFor(m)],
  undoVotes <- [m \in Model |-> 0],
  current <- active.m
ModelsAreGoverned == Governed!Spec

(* Records are well formed and verify_state never raises; and once the only *)
(* candidate of a family was rolled back and its campaign completed, the    *)
(* package builder accepts what the databases hold, however often calls     *)
(* stopped, unless one stopped before its evaluation was recorded.          *)
LifecycleIsPackageable ==
  /\ TypeOK /\ StateVerifies
  /\ \A m \in Candidates :
       /\ {n \in Model : Known(n)} = {m, parent[m]}
       /\ model[m].status = "rolled_back" /\ reused = {}
       /\ camp[model[m].camp].state = "completed"
       => PackageVerifies(m)
=============================================================================
