-------------------------- MODULE LocalPolicyRegistry --------------------------
(***************************************************************************)
(* SQLiteLocalPolicyRegistry (src/evoagent/local_policy/repository.py with *)
(* repository_final.py over it): the numeric policies of one family, the   *)
(* pointer to the active one, and the audit log.  Each method is one       *)
(* transaction; a repeated call that finds its own work done succeeds and  *)
(* writes nothing, any other repetition is refused.                        *)
(*                                                                         *)
(* A policy keeps, for its promotion and for its rollback, the evidence    *)
(* and campaign it was bound to, who authorized it and who executed it.    *)
(* Evidence states two times: when a promotion was evaluated and decided,  *)
(* or when a rollback was requested and evaluated.                         *)
(***************************************************************************)
EXTENDS Campaigns, Sequences

CONSTANTS Policy, NoPolicy,
          base,       \* the policy a candidate was trained from, or NoPolicy
          promotable, \* the candidates whose held-out results pass the gate
          Evidence, NoEvidence, NoCampaign, Nobody,
          askedAt, judgedAt \* evaluated_at and decided_at, or requested_at and evaluated_at

ASSUME LocalPolicyAssumption ==
  /\ base \in [Policy -> Policy \cup {NoPolicy}]
  /\ \A p \in Policy : base[p] # p
  /\ promotable \subseteq Policy
  /\ askedAt \in [Evidence -> Nat] /\ judgedAt \in [Evidence -> Nat]
  /\ NoPolicy \notin Policy /\ NoEvidence \notin Evidence
  /\ NoCampaign \notin CampaignId /\ Nobody \notin Actor

VARIABLES pol,  \* local_policy_versions: the record of each policy, or NoRecord
          head, \* local_policy_heads: the active policy and the revision
          log,  \* local_policy_audit_events: the type and policy of each event
          at    \* their created_at: no policy has two events of one type
registryVars == <<pol, head, log>>

Kinds == {"promotion", "rollback"}
Statuses == {"candidate", "evaluated", "rejected", "authorized", "active",
             "superseded", "rolled_back"}

Trained == {p \in Policy : base[p] # NoPolicy} \* the candidates

Binding == [ev: Evidence \cup {NoEvidence}, camp: CampaignId \cup {NoCampaign},
            auth: Actor \cup {Nobody}, by: Actor \cup {Nobody}]
Unbound == [ev |-> NoEvidence, camp |-> NoCampaign, auth |-> Nobody, by |-> Nobody]

Record == [status: Statuses, promotion: Binding, rollback: Binding]
NoRecord == [status |-> "absent"]
NewRecord(status) == [status |-> status, promotion |-> Unbound, rollback |-> Unbound]

EventTypes == {"registered", "candidate_admitted", "evaluated", "rejected",
               "authorized", "activated", "rollback_submitted",
               "rollback_authorized", "rolled_back"}

RegistryTypeOK ==
  /\ pol \in [Policy -> Record \cup {NoRecord}]
  /\ head \in [active: Policy \cup {NoPolicy}, rev: Nat]
  /\ log \in Seq([type: EventTypes, p: Policy])
EventTimes == [EventTypes -> [Policy -> Nat]]

RegistryInit ==
  /\ pol = [p \in Policy |-> NoRecord]
  /\ head = [active |-> NoPolicy, rev |-> 0]
  /\ log = <<>>
  /\ at = [type \in EventTypes |-> [p \in Policy |-> 0]]

Append_(type, p) == log' = Append(log, [type |-> type, p |-> p])

(* The event that a transaction appends, if it appends one, is dated t.     *)
EventAt(t) ==
  at' = IF log' = log THEN at
        ELSE LET e == log'[Len(log')] IN [at EXCEPT ![e.type][e.p] = t]

Known(p) == p \in Policy /\ pol[p] # NoRecord

-----------------------------------------------------------------------------

RegisterInitial(p) ==
  /\ head.active = NoPolicy
  /\ base[p] = NoPolicy
  /\ pol' = [pol EXCEPT ![p] = NewRecord("active")]
  /\ head' = [active |-> p, rev |-> 0]
  /\ Append_("registered", p)

AdmitCandidate(p) ==
  /\ pol[p] = NoRecord
  /\ head.active # NoPolicy /\ head.active = base[p]
  /\ pol' = [pol EXCEPT ![p] = NewRecord("candidate")]
  /\ Append_("candidate_admitted", p)
  /\ UNCHANGED head

Bind(k, p, ev, c, status, type) ==
  IF pol[p][k].ev # NoEvidence
  THEN /\ pol[p][k].ev = ev /\ pol[p][k].camp = c
       /\ UNCHANGED registryVars
  ELSE /\ pol' = [pol EXCEPT ![p][k].ev = ev, ![p][k].camp = c, ![p].status = status]
       /\ Append_(type, p)
       /\ UNCHANGED head

RecordPromotion(p, ev, c) ==
  /\ pol[p].promotion.ev = NoEvidence => pol[p].status = "candidate"
  /\ LET result == IF p \in promotable THEN "evaluated" ELSE "rejected"
     IN Bind("promotion", p, ev, c, result, result)

RecordRollback(p, ev, c) ==
  /\ pol[p].rollback.ev = NoEvidence =>
       /\ pol[p].status = "active" /\ head.active = p
       /\ base[p] # NoPolicy /\ pol[base[p]].status = "superseded"
  /\ Bind("rollback", p, ev, c, pol[p].status, "rollback_submitted")

Authorize(k, p, c, a, from, to, type) ==
  /\ pol[p][k].camp = c
  /\ IF pol[p][k].auth # Nobody
     THEN pol[p][k].auth = a /\ UNCHANGED registryVars
     ELSE /\ pol[p].status = from
          /\ pol' = [pol EXCEPT ![p][k].auth = a, ![p].status = to]
          /\ Append_(type, p)
          /\ UNCHANGED head

MarkPromotionAuthorized_Again(p, c, a) ==
  /\ pol[p].promotion.camp = c
  /\ pol' = [pol EXCEPT ![p].promotion.auth = a, ![p].status = "authorized"]
  /\ Append_("authorized", p)
  /\ UNCHANGED head
MarkPromotionAuthorized(p, c, a) ==
  Authorize("promotion", p, c, a, "evaluated", "authorized", "authorized")

MarkRollbackAuthorized(p, c, a) ==
  Authorize("rollback", p, c, a, "active", "active", "rollback_authorized")

(* A move that is found applied succeeds for its own executor.  The         *)
(* revision it went to is compared only by a read before the transaction:   *)
(* seen says that this read had found the move applied already.             *)
Activated(p) == head.active = p /\ pol[p].status = "active"
ActivateDone(p, rev, a, seen) ==
  /\ Activated(p) /\ pol[p].promotion.by = a
  /\ seen => head.rev = rev + 1

Activate(p, c, rev, a, seen) ==
  /\ pol[p].promotion.camp = c
  /\ \/ /\ ActivateDone(p, rev, a, seen)
        /\ UNCHANGED registryVars
     \/ /\ head.rev = rev
        /\ pol[p].status = "authorized"
        /\ head.active = base[p] /\ pol[base[p]].status = "active"
        /\ pol' = [pol EXCEPT ![base[p]].status = "superseded", ![p].status = "active",
                              ![p].promotion.by = a]
        /\ head' = [active |-> p, rev |-> rev + 1]
        /\ Append_("activated", p)

IsRolledBack(p) == head.active = base[p] /\ pol[p].status = "rolled_back"
RollBackDone(p, rev, a, seen) ==
  /\ IsRolledBack(p) /\ pol[p].rollback.by = a
  /\ seen => head.rev = rev + 1

MayRollBack(p) ==
  /\ head.active = p /\ pol[p].status = "active"
  /\ pol[base[p]].status = "superseded"
  /\ pol[p].rollback.auth # Nobody

RollBack(p, c, rev, a, seen) ==
  /\ pol[p].rollback.camp = c /\ Known(base[p])
  /\ \/ /\ RollBackDone(p, rev, a, seen)
        /\ UNCHANGED registryVars
     \/ /\ head.rev = rev
        /\ MayRollBack(p)
        /\ pol' = [pol EXCEPT ![p].status = "rolled_back", ![p].rollback.by = a,
                              ![base[p]].status = "active"]
        /\ head' = [active |-> base[p], rev |-> rev + 1]
        /\ Append_("rolled_back", p)

-----------------------------------------------------------------------------
(* verify_state *)

StateVerifies ==
  head.active # NoPolicy =>
    /\ {p \in Policy : pol[p].status = "active"} = {head.active}
    /\ \A p \in Trained : Known(p) => Known(base[p])
=============================================================================
