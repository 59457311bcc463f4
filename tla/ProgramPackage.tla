----------------------------- MODULE ProgramPackage -----------------------------
(***************************************************************************)
(* The evidence package of a program (src/evoagent/program/package*.py):   *)
(* what HardenedEvolutionProgramPackageManager, the class the package      *)
(* exports, makes of the stored records of a program that succeeded in two *)
(* generations, and of its two negative controls, before it accepts them.  *)
(* It recomputes the decisions from the policy, the head from the outcomes *)
(* and the audit trail from the lifecycle.                                 *)
(* Clock readings and content hashes are left out: equal hashes are equal  *)
(* records here, and the order of the events is that of the steps.         *)
(***************************************************************************)
EXTENDS ProgramController

TheDecision(i) == CHOOSE d \in DecisionsOf(i) : TRUE
TheSignal(i) == CHOOSE s \in SignalsOf(i) : TRUE
TheReceipt(s) == CHOOSE r \in ReceiptsOf(s) : TRUE
ActionOf(d) == decisions[d].action

Stored == {d \in DecisionId : decisions[d] # NoDecision}

(* The operations that brought generation i where it is.                    *)
Reached(i) == CASE Status(i) = "absent" -> 0
                [] Status(i) = "planned" -> IF gens[i].campaign = NoCampaign THEN 1 ELSE 2
                [] Status(i) = "authorized" -> 3
                [] Status(i) = "running" -> 4
                [] Done(i) -> 5

(* Every operation leaves one event, a decision that does not continue two. *)
EventCount ==
  2 + Cardinality({s \in SignalId : signals[s] # NoSignal})
    + Cardinality({r \in ReceiptId : receipts[r] # NoSignal})
    + Cardinality(Stored) + Cardinality({d \in Stored : ActionOf(d) # "continue"})
    + Cardinality({x \in (Index \ {0}) \X (1 .. 5) : x[2] <= Reached(x[1])})

(* The gate on the head that the rollback of generation 0 alone leads to.   *)
ExhaustedAfterRollback ==
  \/ 1 >= MaxGenerations \/ 1 >= MaxRollbacks
  \/ gens[0].pairs >= MaxPairs \/ 1 > MaxNonImproving

-----------------------------------------------------------------------------
(* The program that succeeded *)

(* _verify_main_program and the recomputed decisions of                     *)
(* package_policy_hardened: continue on the rollback of generation 0 for    *)
(* its one conclusive attribution, and stop on the readiness of its         *)
(* successor, with the head that these steps and no others lead to.         *)
MainProgramVerifies ==
  /\ Status(0) = "rolled_back" /\ Status(1) = "completed"
  /\ {i \in Index : Planned(i)} = {0, 1}
  /\ Cardinality(DecisionsOf(0)) = 1 /\ ActionOf(TheDecision(0)) = "continue"
  /\ Cardinality(DecisionsOf(1)) = 1 /\ ActionOf(TheDecision(1)) = "stop_success"
  /\ StopOnReady
  /\ ~ExhaustedAfterRollback
  /\ head = [state |-> "completed", cur |-> 1, rev |-> 6, rollbacks |-> 1, holds |-> 0,
             campaigns |-> 1, spent |-> gens[0].pairs + gens[1].pairs]

(* the packaged signal and attribution are those of the plan                *)
EvidenceIsExact ==
  /\ Cardinality(SignalsOf(0)) = 1
  /\ Cardinality(ReceiptsOf(TheSignal(0))) = 1
  /\ gens[1].att = TheReceipt(TheSignal(0))
  /\ Attributed(gens[1].att)

(* _verify_campaign: completed on two independent approvals.                *)
CampaignVerifies(c) ==
  /\ camp[c].state = "completed"
  /\ Of(c) = 1 /\ gens[1].campaign = c
  /\ Cardinality(Approvers(c)) = 2
  /\ Approvers(c) \cap Privileged(1, gens[1].att) = {}

(* _verify_campaign_lifecycle_events: seven events in one order, so none of *)
(* a second attempt, of a veto or of a reuse.                               *)
CampaignEventsVerify(c) ==
  camp[c].rev = 6 /\ ~trail[c].reused /\ Voters(c) = Approvers(c)

(* _verify_evaluator_role_separation: one evaluator, who bound the          *)
(* campaign; evaluation, approval and execution in different hands, none of *)
(* them with authority over the evidence, its attribution or the plan.      *)
RolesAreApart(c) ==
  /\ trail[c].evaluators = {gens[1].binder}
  /\ LET privileged == Privileged(1, gens[1].att) IN
     /\ trail[c].evaluators \cap (Approvers(c) \cup privileged) = {}
     /\ Approvers(c) \cap privileged = {}
     /\ Actor \ (privileged \cup trail[c].evaluators \cup Approvers(c)) # {}

(* _verify_program_event_semantics, _verify_main_event_bindings: twelve     *)
(* events and no other, the feedback taken in by another than its producer. *)
EventsVerify ==
  /\ EventCount = 12
  /\ signals[TheSignal(0)].by # producer

PackageVerifies(c) ==
  /\ MainProgramVerifies /\ EvidenceIsExact
  /\ CampaignVerifies(c) /\ CampaignEventsVerify(c)
  /\ RolesAreApart(c) /\ EventsVerify

-----------------------------------------------------------------------------
(* The negative controls *)

ControlEvidence == ReceiptsOf(TheSignal(0))
ControlDecision == TheDecision(0)

(* _verify_control_release_binding: one observed rollback, one signal, one  *)
(* decision, and the head that they alone lead to.                          *)
ControlHeadVerifies(action) ==
  /\ {i \in Index : Planned(i)} = {0} /\ Status(0) = "rolled_back"
  /\ Cardinality(SignalsOf(0)) = 1 /\ Cardinality(DecisionsOf(0)) = 1
  /\ head = [state |-> StateForAction(action), cur |-> 0, rev |-> 1, rollbacks |-> 1,
             holds |-> 0, campaigns |-> 0, spent |-> gens[0].pairs]

(* _verify_control_policy: stopped on the budget before any attribution, or *)
(* escalated on the one there is, as the gate decides.                      *)
ControlPolicyVerifies(action) ==
  /\ ActionOf(ControlDecision) = action
  /\ Cardinality(ControlEvidence) = IF action = "escalate" THEN 1 ELSE 0
  /\ ExhaustedAfterRollback <=> action = "stop_budget"
  /\ \A r \in ControlEvidence : attributor[r] # producer /\ ~conclusive[r]

(* _verify_control_audit_semantics: who decided had no part in the evidence.*)
ControlRolesAreApart ==
  LET ingestor == signals[TheSignal(0)].by IN
  /\ ingestor # producer
  /\ decider[ControlDecision] \notin
       {producer, ingestor} \cup {attributor[r] : r \in ControlEvidence}

(* _verify_control_event_bindings: no event but those of this lifecycle.    *)
ControlEventsVerify == EventCount = 5 + Cardinality(ControlEvidence)

ControlVerifies(action) ==
  /\ ControlHeadVerifies(action) /\ ControlPolicyVerifies(action)
  /\ ControlRolesAreApart /\ ControlEventsVerify

-----------------------------------------------------------------------------
(* Properties *)

OneDecisionEach == \A i \in Index : Cardinality(DecisionsOf(i)) = (IF Done(i) THEN 1 ELSE 0)

Deciders(i) == {decider[d] : d \in DecisionsOf(i)}

(* tests/test_program_package_tamper.py: the package refuses every record   *)
(* or event that the lifecycle does not account for; so the controller must *)
(* let none be stored.  A program that succeeded in two generations, with   *)
(* one decision on each and its campaign closed, is accepted whatever calls *)
(* came between and afterwards; so is a control that was decided on at once *)
(* by another than its ingestor.                                            *)
EndedProgramIsPackageable ==
  head # NoHead /\ gens[0].outcome = "rollback" /\ OneDecisionEach =>
    /\ head.state = "completed" /\ head.cur = 1 =>
         \A c \in CampaignId : gens[1].campaign = c /\ camp[c].state = "completed" => PackageVerifies(c)
    /\ \A action \in {"stop_budget", "escalate"} :
         (/\ head.state = StateForAction(action) /\ head.cur = 0
          /\ \A s \in SignalsOf(0) : signals[s].by \notin Deciders(0)
          /\ action = "stop_budget" =>
               SignalsOf(0) # {} /\ \A s \in SignalsOf(0) : ReceiptsOf(s) = {}) =>
           ControlVerifies(action)
=============================================================================
