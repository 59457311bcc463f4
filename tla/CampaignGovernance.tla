-------------------------- MODULE CampaignGovernance --------------------------
(***************************************************************************)
(* CampaignGovernanceService (src/evoagent/campaigns/governance.py) and    *)
(* the workers that call it, over the campaign database.                   *)
(*                                                                         *)
(* A worker keeps only the CampaignRecord it got last, in view[a], and     *)
(* passes its revision as expected_revision; since[a] is the time at which *)
(* its last step ended, so the clock it passes to its next transaction was *)
(* read at some time in since[a]..now.  Workers interleave freely between  *)
(* transactions, work on stale records, and crash (they lose the record).  *)
(***************************************************************************)
EXTENDS Campaigns

CONSTANTS NoView,
          DirectTargets,  \* the states callers pass to repository.transition
          Risks,          \* the risks callers reserve with
          Beginnings,     \* the initial states callers reserve with
          Cooldowns,      \* the cooldown_seconds callers pass
          MaxTime         \* bound: the clock stops here

ASSUME GovernanceAssumption ==
  /\ DirectTargets \subseteq ClosedStates
  /\ Risks \subseteq {"low", "high"}
  /\ Beginnings \subseteq InitialStates
  /\ Cooldowns \subseteq Nat
  /\ MaxTime \in Nat

VARIABLES view, since, now
workerVars == <<view, since, now>>
vars == <<campaignVars, workerVars>>

RequiredApprovals(risk) == IF risk = "high" THEN 2 ELSE 1

View == [id: CampaignId, row: RowBy(Actor)]

TypeOK ==
  /\ CampaignsTypeOK
  /\ view \in [Actor -> View \cup {NoView}]
  /\ since \in [Actor -> Nat]
  /\ now \in Nat

Init ==
  /\ CampaignsInit
  /\ view = [a \in Actor |-> NoView]
  /\ since = [a \in Actor |-> 0]
  /\ now = 0

-----------------------------------------------------------------------------

Returns_OldRow(a, c) ==
  /\ view' = [view EXCEPT ![a] = [id |-> c, row |-> camp[c]]]
  /\ since' = [since EXCEPT ![a] = now]
  /\ UNCHANGED now

(* Every call returns the record of the campaign it worked on.             *)
Returns(a, c) ==
  /\ view' = [view EXCEPT ![a] = [id |-> c, row |-> camp'[c]]]
  /\ since' = [since EXCEPT ![a] = now]
  /\ UNCHANGED now

Clocks(a) == since[a]..now

Read(a, c) ==
  /\ Exists(c)
  /\ UNCHANGED campaignVars
  /\ Returns(a, c)

Reserve(a, c, g, f, risk, initial) ==
  /\ \/ ReuseCampaign(c, g, f)
     \/ \E t \in Clocks(a) :
          InsertCampaign(c, g, f, a, RequiredApprovals(risk), initial, t)
  /\ Returns(a, c)

Attach(a, cand) ==
  /\ view[a] # NoView
  /\ \E t \in Clocks(a) : AttachCandidate(view[a].id, cand, view[a].row.rev, t)
  /\ Returns(a, view[a].id)

(* submit_evaluation runs two transactions when it finds the candidate     *)
(* ready, and a crash can separate them.  A later call that finds the      *)
(* evaluation pending runs the second one only.                            *)
StartEvaluation(a) ==
  /\ view[a] # NoView
  /\ camp[view[a].id].state = "candidate_ready"
  /\ \E t \in Clocks(a) :
       Transition(view[a].id, "evaluation_pending", view[a].row.rev, 0, t)
  /\ Returns(a, view[a].id)

FinishEvaluation(a, passed) ==
  /\ view[a] # NoView
  /\ camp[view[a].id].state = "evaluation_pending"
  /\ \E t \in Clocks(a), cooldown \in Cooldowns :
       Transition(view[a].id, IF passed THEN "approval_pending" ELSE "rejected",
                  view[a].row.rev, cooldown, t)
  /\ Returns(a, view[a].id)

Decide(a, decision) ==
  /\ view[a] # NoView
  /\ \E t \in Clocks(a), cooldown \in Cooldowns :
       RecordApproval(view[a].id, a, decision, view[a].row.rev, cooldown, t)
  /\ Returns(a, view[a].id)

(* The lifecycles of the other subsystems and the evolution cycle close    *)
(* their campaigns with repository.transition.                             *)
DirectTransition(a, to) ==
  /\ view[a] # NoView
  /\ \E t \in Clocks(a), cooldown \in Cooldowns :
       Transition(view[a].id, to, view[a].row.rev, cooldown, t)
  /\ Returns(a, view[a].id)

Crash(a) ==
  /\ view[a] # NoView
  /\ view' = [view EXCEPT ![a] = NoView]
  /\ since' = [since EXCEPT ![a] = now]
  /\ UNCHANGED <<campaignVars, now>>

Tick ==
  /\ now < MaxTime
  /\ now' = now + 1
  /\ UNCHANGED <<campaignVars, view, since>>

WorkerStep(a) ==
  \/ \E c \in CampaignId : Read(a, c)
  \/ \E c \in CampaignId, g \in Target, f \in Fingerprint, risk \in Risks,
        initial \in Beginnings : Reserve(a, c, g, f, risk, initial)
  \/ \E cand \in Candidate : Attach(a, cand)
  \/ StartEvaluation(a)
  \/ \E passed \in BOOLEAN : FinishEvaluation(a, passed)
  \/ \E decision \in Decisions : Decide(a, decision)
  \/ \E to \in DirectTargets : DirectTransition(a, to)
  \/ Crash(a)

Next == Tick \/ \E a \in Actor : WorkerStep(a)

Spec == Init /\ [][Next]_vars

-----------------------------------------------------------------------------
(* Properties *)

(* The unique index on open targets: at no time do two open campaigns own  *)
(* one target, however the reservations interleave.                        *)
OneOpenCampaignPerTarget ==
  \A c, d \in CampaignId :
    /\ camp[c].state \in OpenStates
    /\ camp[d].state \in OpenStates
    /\ camp[c].target = camp[d].target
    => c = d

(* docs/09: AUTHORIZED means that the approval policy has been satisfied.  *)
(* An authorized or completed campaign has the required number of distinct *)
(* approvals, none by the generator, no rejection, and a candidate.        *)
AuthorizedMeansApproved ==
  \A c \in CampaignId : camp[c].state \in {"authorized", "completed"} =>
    /\ Cardinality(Approvers(c)) >= camp[c].need
    /\ camp[c].gen \notin Approvers(c)
    /\ \A a \in Actor : approvals[c][a] # "reject"
    /\ camp[c].cand # NoCandidate

(* Decisions are never lost or late: a campaign that still waits has fewer *)
(* approvals than it needs, and one rejection has rejected the campaign.   *)
DecisionsAreEffective ==
  \A c \in CampaignId :
    /\ camp[c].state = "approval_pending" =>
         Cardinality(Approvers(c)) < camp[c].need
    /\ (\E a \in Actor : approvals[c][a] = "reject") =>
         camp[c].state = "rejected"

(* Optimistic locking compares revisions only; that is enough because a    *)
(* revision stands for one content of the row: a worker whose record has   *)
(* the current revision holds the current row.  And the audit log tells     *)
(* the whole story of a campaign: the state its last event gives is the     *)
(* current one, and every revision has its event.                           *)
RevisionIdentifiesRow ==
  /\ \A a \in Actor : view[a] # NoView =>
       /\ view[a].row.rev <= camp[view[a].id].rev
       /\ view[a].row.rev = camp[view[a].id].rev => view[a].row = camp[view[a].id]
  /\ \A c \in CampaignId :
       /\ audit[c].state = camp[c].state
       /\ Exists(c) => audit[c].writes = camp[c].rev + 1

(* docs/09: a new campaign for a target is blocked until the deadline that *)
(* any closed campaign of it has set, although the code looks at one row.  *)
CooldownIsHonoured ==
  [][\A c, d \in CampaignId :
       ~Exists(c) /\ Exists(c)' /\ Exists(d) /\ camp[d].target = camp'[c].target
         => camp[d].cool <= camp'[c].upd]_vars
=============================================================================
