--------------------------- MODULE ProgramController ---------------------------
(***************************************************************************)
(* EvolutionProgramController (src/evoagent/program/): feedback on a       *)
(* generation, its attribution and a decision lead to the plan of the next *)
(* generation, whose campaign is evaluated and approved before it is       *)
(* authorized, started and completed.  Program and campaigns are two       *)
(* databases and most calls are several transactions, so that other        *)
(* callers, or a crash, come between the checks and the writes of a call.  *)
(*                                                                         *)
(* The plan of generation i is determined by i and by the evidence that it *)
(* names: i stands for target, fingerprint and candidate of its campaign.  *)
(* A revision that a step here reads and uses is, in the code, read earlier*)
(* and passed along: after a change in between the call raises instead.    *)
(***************************************************************************)
EXTENDS ProgramRegistry

CONSTANTS Worker, Evaluators, Ingestors,
          Budgets,       \* pairs that a plan may ask for
          InitialPairs,  \* what generation 0 may have spent
          Generic        \* whether callers use the campaign API directly

ASSUME ControllerAssumption ==
  /\ Target = Index /\ Fingerprint = Index /\ Candidate = Index
  /\ Evaluators \subseteq Actor /\ Ingestors \subseteq Actor
  /\ Budgets \subseteq Nat \ {0} /\ InitialPairs \subseteq 0 .. MaxPairs
  /\ Generic \in BOOLEAN

VARIABLES job,
          trail  \* events of a campaign: who evaluated it, was it reused
vars == <<campaignVars, programVars, job, trail>>

Idle == [pc |-> "idle"]
Down == [pc |-> "down"]

Jobs == [pc: {"signal"}, s: SignalId, i: Index, by: Actor]
          \cup [pc: {"receipt"}, r: ReceiptId, s: SignalId]
          \cup [pc: {"decision"}, d: DecisionId, i: Index, a: Actions, rev: Nat]
          \cup [pc: {"plan", "find", "reserve"}, i: Index, s: SignalId, r: ReceiptId,
                e: Evaluators, budget: Budgets, c: {NoCampaign}, rev: Nat]
          \cup [pc: {"advance", "bind"}, i: Index, s: SignalId, r: ReceiptId,
                e: Evaluators, budget: Budgets, c: CampaignId, rev: Nat]
          \cup [pc: {"authorize", "start"}, i: Index, c: CampaignId, rev: Nat]
          \cup [pc: {"complete", "close"}, i: Index, c: CampaignId, rev: Nat,
                o: Outcomes, pairs: Nat]

TypeOK ==
  /\ CampaignsTypeOK
  /\ RegistryTypeOK
  /\ job \in [Worker -> Jobs \cup {Idle, Down}]
  /\ trail \in [CampaignId -> [evaluators: SUBSET Actor, reused: BOOLEAN]]

Init ==
  /\ CampaignsInit
  /\ RegistryInit
  /\ job = [w \in Worker |-> Idle]
  /\ trail = [c \in CampaignId |-> [evaluators |-> {}, reused |-> FALSE]]

Goto(w, pc) == job' = [job EXCEPT ![w].pc = pc]
Return(w) == job' = [job EXCEPT ![w] = Idle]

-----------------------------------------------------------------------------
(* Checks *)

(* _continue_decision: raises unless there is exactly one.                  *)
HasContinueDecision(i) == i - 1 \in Index /\ Cardinality(Continuing(i - 1)) = 1
ContinueDecision(i) == CHOOSE d \in Continuing(i - 1) : TRUE

UniqueEvidence(i, s, r) == SignalsOf(i) = {s} /\ ReceiptsOf(s) = {r}

(* the roles behind the plan of i, with the receipt r it names              *)
Privileged(i, r) == {producer, attributor[r], decider[ContinueDecision(i)]}

Of(c) == camp[c].cand
Voters(c) == {a \in Actor : approvals[c][a] # "none"}

Forbidden_NoEvaluators(c) == Privileged(Of(c), gens[Of(c)].att)
Forbidden(c) == Privileged(Of(c), gens[Of(c)].att) \cup trail[c].evaluators

ApprovalsAreValid(c) ==
  /\ Cardinality(Voters(c)) = 2
  /\ Cardinality(Approvers(c)) = 2
  /\ Approvers(c) \cap Forbidden(c) = {}

(* someone who may authorize, start and complete the generation of c        *)
HasOperator(c) == Actor \ (Forbidden(c) \cup Voters(c)) # {}

CampaignIsOf(c, i) ==
  /\ Exists(c) /\ Of(c) = i
  /\ Planned(i) /\ gens[i].campaign = c
  /\ HasContinueDecision(i)

(* _validate_campaign_lifecycle_audit; that of a generation further along.  *)
LifecycleAuditOK(c) ==
  LET i == Of(c) IN
  /\ CampaignIsOf(c, i)
  /\ HeadMatchesGenerations
  /\ ~trail[c].reused
  /\ trail[c].evaluators = {gens[i].binder}
  /\ gens[i].binder \notin Privileged(i, gens[i].att)
  /\ Voters(c) = Approvers(c) /\ Voters(c) \cap Forbidden(c) = {}
  /\ CASE camp[c].state = "approval_pending" -> Status(i) = "planned" /\ Cardinality(Voters(c)) < 2
       [] camp[c].state = "authorized" -> Cardinality(Voters(c)) = 2
       [] camp[c].state = "completed" -> Cardinality(Voters(c)) = 2 /\ Status(i) \in TerminalStatus
       [] OTHER -> FALSE

-----------------------------------------------------------------------------
(* register_from_release, store_feedback, store_attribution, decide         *)

RegisterFromRelease ==
  /\ \E o \in Outcomes, pairs \in InitialPairs : Register(o, pairs)
  /\ UNCHANGED <<campaignVars, job, trail>>

FeedbackIsNew_SameId(s, i) == signals[s] = NoSignal
FeedbackIsNew(s, i) == signals[s] = NoSignal /\ DecisionsOf(i) = {} /\ SignalsOf(i) = {}

StoreFeedbackCheck(w, s, i, by) ==
  /\ job[w] = Idle
  /\ FeedbackIsNew(s, i)
  /\ Done(i) /\ gens[i].outcome # "ready"
  /\ by # producer
  /\ job' = [job EXCEPT ![w] = [pc |-> "signal", s |-> s, i |-> i, by |-> by]]
  /\ UNCHANGED <<campaignVars, programVars, trail>>

StoreFeedback(w) ==
  /\ job[w].pc = "signal"
  /\ StoreSignal(job[w].s, job[w].i, job[w].by)
  /\ Return(w)
  /\ UNCHANGED <<campaignVars, trail>>

StoreAttributionCheck(w, r, s) ==
  /\ job[w] = Idle
  /\ receipts[r] = NoSignal /\ signals[s] # NoSignal
  /\ attributor[r] # signals[s].by
  /\ DecisionsOf(signals[s].gen) = {} /\ ReceiptsOf(s) = {}
  /\ job' = [job EXCEPT ![w] = [pc |-> "receipt", r |-> r, s |-> s]]
  /\ UNCHANGED <<campaignVars, programVars, trail>>

StoreAttribution(w) ==
  /\ job[w].pc = "receipt"
  /\ StoreReceipt(job[w].r, job[w].s)
  /\ Return(w)
  /\ UNCHANGED <<campaignVars, trail>>

(* The caller passes no evidence, the signal (r = NoReceipt decides as if   *)
(* there were none), or signal and receipt, which must be the only ones.    *)
DecideCheck(w, d, i, r) ==
  /\ job[w] = Idle
  /\ decisions[d] = NoDecision
  /\ Done(i)
  /\ r # NoReceipt =>
       /\ \E s \in SignalId : UniqueEvidence(i, s, r)
       /\ decider[d] \notin {producer, attributor[r]}
  /\ job' = [job EXCEPT ![w] = [pc |-> "decision", d |-> d, i |-> i,
                                a |-> GateAction(i, r), rev |-> head.rev]]
  /\ UNCHANGED <<campaignVars, programVars, trail>>

Decide(w) ==
  /\ job[w].pc = "decision"
  /\ StoreDecision(job[w].d, job[w].i, job[w].a, job[w].rev)
  /\ Return(w)
  /\ UNCHANGED <<campaignVars, trail>>

-----------------------------------------------------------------------------
(* submit_generation, resumable by repeating the call: plan the generation, *)
(* find or reserve its campaign, take it to approval_pending, and bind it.  *)

SubmitCheck_Once(w, i, s, r, e, budget) ==
  /\ job[w] = Idle
  /\ HasContinueDecision(i) /\ UniqueEvidence(i - 1, s, r) /\ Attributed(r)
  /\ e \notin Privileged(i, r)
  /\ ~Planned(i)
  /\ job' = [job EXCEPT ![w] = [pc |-> "plan", i |-> i, s |-> s, r |-> r, e |-> e,
                                budget |-> budget, c |-> NoCampaign, rev |-> head.rev]]
  /\ UNCHANGED <<campaignVars, programVars, trail>>
SubmitCheck(w, i, s, r, e, budget) ==
  /\ job[w] = Idle
  /\ HasContinueDecision(i) /\ UniqueEvidence(i - 1, s, r) /\ Attributed(r)
  /\ e \notin Privileged(i, r)
  /\ Planned(i) => gens[i].budget = budget
  /\ job' = [job EXCEPT ![w] =
       [pc |-> IF ~Planned(i) THEN "plan"
               ELSE IF gens[i].campaign = NoCampaign THEN "find" ELSE "advance",
        i |-> i, s |-> s, r |-> r, e |-> e, budget |-> budget,
        c |-> IF Planned(i) THEN gens[i].campaign ELSE NoCampaign, rev |-> head.rev]]
  /\ UNCHANGED <<campaignVars, programVars, trail>>

SubmitPlan(w) ==
  /\ job[w].pc = "plan"
  /\ LET j == job[w] IN
     \/ PlanGeneration(j.i, j.budget, j.s, j.r, j.rev)
     \/ Planned(j.i) /\ gens[j.i].budget = j.budget /\ UNCHANGED programVars
  /\ Goto(w, "find")
  /\ UNCHANGED <<campaignVars, trail>>

SubmitFind(w) ==
  /\ job[w].pc = "find"
  /\ \/ OpenOn(job[w].i) = {} /\ Goto(w, "reserve")
     \/ \E c \in OpenOn(job[w].i) : job' = [job EXCEPT ![w].pc = "advance", ![w].c = c]
  /\ UNCHANGED <<campaignVars, programVars, trail>>

SubmitReserve(w) ==
  /\ job[w].pc = "reserve"
  /\ \E c \in CampaignId, i \in {job[w].i} :
       /\ \/ /\ ReuseCampaign(c, i, i)
             /\ trail' = [trail EXCEPT ![c].reused = TRUE]
          \/ /\ InsertCampaign(c, i, i, decider[ContinueDecision(i)], 2, "open", 0)
             /\ UNCHANGED trail
       /\ job' = [job EXCEPT ![w].pc = "advance", ![w].c = c]
  /\ UNCHANGED programVars

SameEvaluator(c, e) == trail[c].evaluators \subseteq {e}

(* One phase of _advance_or_validate_submission_campaign; each but the last *)
(* two leaves an event of the evaluator.                                    *)
SubmitAdvance(w) ==
  /\ job[w].pc = "advance"
  /\ LET c == job[w].c
         Evaluated == /\ SameEvaluator(c, job[w].e)
                      /\ trail' = [trail EXCEPT ![c].evaluators = @ \cup {job[w].e}]
                      /\ UNCHANGED job
     IN \/ AttachCandidate(c, job[w].i, camp[c].rev, 0) /\ Evaluated
        \/ /\ camp[c].state = "candidate_ready"
           /\ Transition(c, "evaluation_pending", camp[c].rev, 0, 0) /\ Evaluated
        \/ /\ camp[c].state = "evaluation_pending"
           /\ Transition(c, "approval_pending", camp[c].rev, 0, 0) /\ Evaluated
        \/ /\ \/ camp[c].state = "approval_pending"
              \/ camp[c].state \in {"authorized", "completed"}
                   /\ ApprovalsAreValid(c) /\ LifecycleAuditOK(c)
           /\ IF gens[job[w].i].campaign = c THEN Return(w) ELSE Goto(w, "bind")
           /\ UNCHANGED <<campaignVars, trail>>
  /\ UNCHANGED programVars

SubmitBind(w) ==
  /\ job[w].pc = "bind"
  /\ BindCampaign(job[w].i, job[w].c, job[w].e, head.rev)
  /\ Return(w)
  /\ UNCHANGED <<campaignVars, trail>>

-----------------------------------------------------------------------------
(* approve_generation, and what callers of the campaign API can do          *)

ApproveGeneration(a, c) ==
  /\ camp[c].state = "approval_pending"
  /\ LifecycleAuditOK(c)
  /\ a \notin Forbidden(c)
  /\ RecordApproval(c, a, "approve", camp[c].rev, 0, 0)
  /\ UNCHANGED <<programVars, job, trail>>

ApproveDirectly(a, c) ==
  /\ Generic
  /\ \E decision \in Decisions : RecordApproval(c, a, decision, camp[c].rev, 0, 0)
  /\ UNCHANGED <<programVars, job, trail>>

CancelDirectly(c) ==
  /\ Generic
  /\ camp[c].state \in OpenStates
  /\ Transition(c, "cancelled", camp[c].rev, 0, 0)
  /\ UNCHANGED <<programVars, job, trail>>

-----------------------------------------------------------------------------
(* synchronize_authorization, start_generation, complete_generation: each   *)
(* checks the campaign first and moves the program in a later transaction.  *)

MayOperate(c, i) ==
  /\ CampaignIsOf(c, i)
  /\ camp[c].state = "authorized"
  /\ ApprovalsAreValid(c)
  /\ HasOperator(c)

Begin(w, pc, i, c) ==
  /\ job[w] = Idle
  /\ MayOperate(c, i)
  /\ job' = [job EXCEPT ![w] = [pc |-> pc, i |-> i, c |-> c, rev |-> head.rev]]
  /\ UNCHANGED <<campaignVars, programVars, trail>>

SynchronizeCheck(w, i, c) == Begin(w, "authorize", i, c) /\ Status(i) = "planned"
StartCheck(w, i, c) == Begin(w, "start", i, c) /\ Status(i) = "authorized"

SynchronizeAuthorization(w) ==
  /\ job[w].pc = "authorize"
  /\ AuthorizeGeneration(job[w].i, job[w].c, job[w].rev)
  /\ Return(w)
  /\ UNCHANGED <<campaignVars, trail>>

Start(w) ==
  /\ job[w].pc = "start"
  /\ StartGeneration(job[w].i, job[w].rev)
  /\ Return(w)
  /\ UNCHANGED <<campaignVars, trail>>

RecoverableOutcome(i, o, pairs) == gens[i].outcome = o /\ gens[i].pairs = pairs

CompletePc_CloseFirst(i) == "close"
CompletePc(i) == IF Done(i) THEN "close" ELSE "complete"

(* A generation that has this outcome already is recovered: only its        *)
(* campaign is left to close.  rev is the revision of the head, or, from    *)
(* "close" on, that of the campaign.                                        *)
CompleteCheck(w, i, c, o, pairs) ==
  /\ job[w] = Idle
  /\ MayOperate(c, i)
  /\ \/ Status(i) = "running"
     \/ RecoverableOutcome(i, o, pairs)
  /\ job' = [job EXCEPT ![w] = [pc |-> CompletePc(i), i |-> i, c |-> c, o |-> o, pairs |-> pairs,
                                rev |-> IF CompletePc(i) = "close" THEN camp[c].rev ELSE head.rev]]
  /\ UNCHANGED <<campaignVars, programVars, trail>>

Complete(w) ==
  /\ job[w].pc = "complete"
  /\ CompleteGeneration(job[w].i, job[w].o, job[w].pairs, job[w].rev)
  /\ job' = [job EXCEPT ![w].pc = "close", ![w].rev = camp[job[w].c].rev]
  /\ UNCHANGED <<campaignVars, trail>>

CloseCampaign(w) ==
  /\ job[w].pc = "close"
  /\ \/ Transition(job[w].c, "completed", job[w].rev, 0, 0)
     \/ camp[job[w].c].state = "completed" /\ UNCHANGED campaignVars
  /\ Return(w)
  /\ UNCHANGED <<programVars, trail>>

-----------------------------------------------------------------------------

Progress(w) ==
  \/ StoreFeedback(w) \/ StoreAttribution(w) \/ Decide(w)
  \/ SubmitPlan(w) \/ SubmitFind(w) \/ SubmitReserve(w) \/ SubmitAdvance(w) \/ SubmitBind(w)
  \/ SynchronizeAuthorization(w) \/ Start(w) \/ Complete(w) \/ CloseCampaign(w)

(* The next step of the call raises.                                        *)
Fail(w) ==
  /\ job[w] \notin {Idle, Down} /\ ~ ENABLED Progress(w)
  /\ Return(w)
  /\ UNCHANGED <<campaignVars, programVars, trail>>

Crash(w) ==
  /\ job[w] \notin {Idle, Down}
  /\ job' = [job EXCEPT ![w] = Down]
  /\ UNCHANGED <<campaignVars, programVars, trail>>

Restart(w) ==
  /\ job[w] = Down
  /\ Return(w)
  /\ UNCHANGED <<campaignVars, programVars, trail>>

Submit(w) ==
  \E i \in Index, s \in SignalId, r \in ReceiptId, e \in Evaluators, budget \in Budgets :
    SubmitCheck(w, i, s, r, e, budget)
CompleteCall(w) ==
  \E i \in Index, c \in CampaignId, o \in Outcomes, pairs \in 0 .. MaxPairs :
    CompleteCheck(w, i, c, o, pairs)

Call(w) ==
  \/ \E i \in Index, s \in SignalId, by \in Ingestors : StoreFeedbackCheck(w, s, i, by)
  \/ \E r \in ReceiptId, s \in SignalId : StoreAttributionCheck(w, r, s)
  \/ \E d \in DecisionId, i \in Index, r \in ReceiptId \cup {NoReceipt} : DecideCheck(w, d, i, r)
  \/ Submit(w) \/ CompleteCall(w)
  \/ \E i \in Index, c \in CampaignId : SynchronizeCheck(w, i, c) \/ StartCheck(w, i, c)

Next ==
  \/ RegisterFromRelease
  \/ \E w \in Worker : Call(w) \/ Progress(w) \/ Fail(w)
  \/ \E a \in Actor, c \in CampaignId : ApproveGeneration(a, c) \/ ApproveDirectly(a, c)
  \/ \E c \in CampaignId : CancelDirectly(c)

Spec == Init /\ [][Next]_vars

(* A worker that stops for good is one that takes no step; liveness needs   *)
(* those that come back.                                                    *)
Stops == \E w \in Worker : Crash(w) \/ Restart(w)

(* Calls go on to their end, callers repeat those that can begin, approvers *)
(* approve, and processes stop finitely often.                              *)
Fairness ==
  /\ \A w \in Worker :
       /\ WF_vars(Progress(w)) /\ WF_vars(Fail(w)) /\ WF_vars(Restart(w))
       /\ SF_vars(Submit(w)) /\ SF_vars(CompleteCall(w))
  /\ WF_vars(\E a \in Actor, c \in CampaignId : ApproveGeneration(a, c))
  /\ <>[](\A w \in Worker : job[w] # Down)

FairSpec == Init /\ [][Next \/ Stops]_vars /\ Fairness
-----------------------------------------------------------------------------
(* Properties *)


Successors == {i \in Index \ {0} : Planned(i)}

(* docs/23, High-risk Generation Campaign: producer, attributor, decision   *)
(* actor and evaluators do not approve, and direct use of the campaign API  *)
(* cannot bypass it.  Whatever becomes of its campaign afterwards, no       *)
(* generation got past its plan without two other actors.                   *)
GenerationsWereApproved ==
  \A i \in Successors : Status(i) # "planned" =>
    LET c == gens[i].campaign IN
    /\ c # NoCampaign /\ Exists(c) /\ Of(c) = i
    /\ Voters(c) = Approvers(c) /\ Cardinality(Voters(c)) = 2
    /\ Voters(c) \cap ({producer, attributor[gens[i].att]} \cup trail[c].evaluators) = {}
    /\ \E d \in Continuing(i - 1) : decider[d] \notin Voters(c)

(* docs/23, continue: each generation follows one that ended in a rollback  *)
(* or hold, on a CONTINUE decision about it and a conclusive attribution of *)
(* its feedback by someone other than the producer of the evidence.         *)
SuccessorsWereJustified ==
  \A i \in Successors :
    /\ Status(i - 1) \in {"rolled_back", "held"}
    /\ Continuing(i - 1) # {}
    /\ LET r == gens[i].att IN
       /\ r \in UNION {ReceiptsOf(s) : s \in SignalsOf(i - 1)}
       /\ conclusive[r] /\ attributor[r] # producer

(* docs/23, stop_budget and budgets: no successor is planned once a limit   *)
(* of the policy is exhausted by what went before; what a plan may spend    *)
(* stays reserved until it is spent, and the sum within the cumulative      *)
(* budget.                                                                  *)
LimitsAreRespected ==
  \A i \in Successors :
    LET ended(o) == Cardinality({j \in 0 .. i - 1 : gens[j].outcome = o}) IN
    /\ ended("rollback") = 0 \/ ended("rollback") < MaxRollbacks
    /\ ended("hold") = 0 \/ ended("hold") < MaxHolds
    /\ i <= MaxNonImproving
    /\ i <= MaxCampaigns
    /\ IF Done(i) THEN gens[i].pairs <= gens[i].budget
       ELSE head.spent + gens[i].budget <= MaxPairs

(* The two databases agree: the campaign is completed only after its        *)
(* generation has an outcome.                                               *)
CompletedMeansTerminal ==
  \A c \in CampaignId : Exists(c) /\ camp[c].state = "completed" => Done(Of(c))

(* Every row is well-formed, the head is what verify_state derives, and the *)
(* two databases agree.                                                     *)
ProgramVerifies == TypeOK /\ HeadMatchesGenerations /\ CompletedMeansTerminal

(* tests/test_program_controller_exact_retries.py:84 and                    *)
(* test_program_submission_recovery_evaluator.py: a submission that was     *)
(* taken up again leaves a campaign that passes the audit of approvals.     *)
BoundCampaignsPassTheAudit ==
  \A i \in Successors :
    LET c == gens[i].campaign IN
    c # NoCampaign /\ camp[c].state = "approval_pending" => LifecycleAuditOK(c)

(* tests/test_program_controller_exact_retries.py:239: a completion that    *)
(* stopped between the two databases is recovered by repeating it.          *)
CompletionIsRecovered ==
  \A i \in Index \ {0} :
    Done(i) ~> \E c \in CampaignId : camp[c].state = "completed" /\ Of(c) = i

(* The same of a submission, wherever it stopped.                           *)
SubmissionIsRecovered ==
  \A i \in Index \ {0} :
    Planned(i) ~> /\ Planned(i) /\ gens[i].campaign # NoCampaign
                  /\ camp[gens[i].campaign].state \in {"authorized", "completed"}
=============================================================================
