-------------------------- MODULE LocalPolicyProofs --------------------------
(***************************************************************************)
(* Proofs about the promotion and rollback of local policies: campaigns    *)
(* that approve a change and the registry that makes it, in two databases  *)
(* and in steps that stop anywhere; that together they implement           *)
(* GovernedChange; and, at the end, the training that policies come from.  *)
(***************************************************************************)
EXTENDS LocalPolicyLifecycle, CampaignLemmas, SequenceTheorems

AllAssumptions ==
  /\ CampaignsAssumption /\ LocalPolicyAssumption /\ LifecycleAssumption

HoldingPcs == {"record", "attach", "start", "finish", "resume"}
BoundPcs == HoldingPcs \ {"record"}
GovernPcs == {"mark", "move", "complete"}

LEMMA JobFacts ==
  ASSUME TypeOK, NEW w \in Worker
  PROVE  /\ job[w].pc \in SubmitPcs => job[w].case \in Case
         /\ job[w].pc \in HoldingPcs => job[w].c \in CampaignId
         /\ job[w].pc \in HoldingPcs \ {"resume"} => job[w].row \in RowBy(Actor)
         /\ job[w].pc \in GovernPcs =>
              /\ job[w].k \in Kinds /\ job[w].p \in Policy /\ job[w].c \in CampaignId
              /\ job[w].a \in Actor /\ job[w].t \in Nat
         /\ job[w].pc \in GovernPcs \ {"mark"} => job[w].rev \in Nat
         /\ job[w] = Idle \/ job[w].pc \in SubmitPcs \cup GovernPcs
<1>1. job[w] \in Jobs \cup {Idle}
  BY DEF TypeOK
<1> USE DEF SubmitPcs, HoldingPcs, GovernPcs
<1>2. CASE job[w] \in [pc: {"find", "reserve"}, case: Case, c: {NoCampaign}, row: {NoRow}]
  BY <1>2
<1>3. CASE job[w] \in [pc: {"record", "attach", "start", "finish"}, case: Case, c: CampaignId,
                       row: RowBy(Actor)]
  BY <1>3
<1>4. CASE job[w] \in [pc: {"resume"}, case: Case, c: CampaignId, row: {NoRow}]
  BY <1>4
<1>5. CASE job[w] \in [pc: {"mark"}, k: Kinds, p: Policy, c: CampaignId, a: Actor, t: Nat]
  BY <1>5
<1>6. CASE job[w] \in [pc: {"move", "complete"}, k: Kinds, p: Policy, c: CampaignId, a: Actor,
                       rev: Nat, t: Nat, saw: {"nothing", "authorized", "applied"}]
  BY <1>6
<1>7. CASE job[w] = Idle
  BY <1>7 DEF Idle
<1> QED BY <1>1, <1>2, <1>3, <1>4, <1>5, <1>6, <1>7 DEF Jobs

LEMMA CaseFacts ==
  ASSUME AllAssumptions, NEW case \in Case
  PROVE  /\ case.kind \in Kinds /\ case.p \in Policy /\ case.ev \in Evidence
         /\ TargetOf(case) \in Target /\ case \in Fingerprint /\ case \in Candidate
         /\ GeneratorOf(case) \in Actor
BY DEF AllAssumptions, LifecycleAssumption, Case, TargetOf, GeneratorOf, Kinds

-----------------------------------------------------------------------------
(* What the operations of the registry write *)

Content(status, promotion, rollback) ==
  [status |-> status, promotion |-> promotion, rollback |-> rollback]
Writes(p, status, promotion, rollback) ==
  pol' = [pol EXCEPT ![p] = Content(status, promotion, rollback)]
Logs(type, p) == log' = Append(log, [type |-> type, p |-> p])

With(b, ev, c) == [b EXCEPT !.ev = ev, !.camp = c]
AuthorizedBy(b, a) == [b EXCEPT !.auth = a]
ExecutedBy(b, a) == [b EXCEPT !.by = a]

LEMMA BoundFields ==
  ASSUME NEW b \in Binding, NEW ev \in Evidence, NEW c \in CampaignId
  PROVE  /\ With(b, ev, c) \in Binding
         /\ With(b, ev, c).ev = ev /\ With(b, ev, c).camp = c
         /\ With(b, ev, c).auth = b.auth /\ With(b, ev, c).by = b.by
BY DEF Binding, With

LEMMA SignedFields ==
  ASSUME NEW b \in Binding, NEW a \in Actor
  PROVE  /\ AuthorizedBy(b, a) \in Binding /\ ExecutedBy(b, a) \in Binding
         /\ AuthorizedBy(b, a).auth = a /\ AuthorizedBy(b, a).ev = b.ev
         /\ AuthorizedBy(b, a).camp = b.camp /\ AuthorizedBy(b, a).by = b.by
         /\ ExecutedBy(b, a).by = a /\ ExecutedBy(b, a).ev = b.ev
         /\ ExecutedBy(b, a).camp = b.camp /\ ExecutedBy(b, a).auth = b.auth
BY DEF Binding, AuthorizedBy, ExecutedBy

LEMMA RecordFacts ==
  ASSUME RegistryTypeOK, NEW p \in Policy, Known(p)
  PROVE  /\ pol[p] \in Record /\ pol[p].status \in Statuses
         /\ pol[p].promotion \in Binding /\ pol[p].rollback \in Binding
         /\ \A k \in Kinds : pol[p][k] \in Binding
         /\ pol[p] = [status |-> pol[p].status, promotion |-> pol[p].promotion,
                      rollback |-> pol[p].rollback]
BY DEF RegistryTypeOK, Known, Record, Kinds

LEMMA MovedRecord ==
  ASSUME NEW r \in Record, NEW status \in Statuses
  PROVE  [r EXCEPT !.status = status] = Content(status, r.promotion, r.rollback)
<1>1. ASSUME NEW new, new = [r EXCEPT !.status = status]
      PROVE  new = Content(status, r.promotion, r.rollback)
  BY <1>1 DEF Record, Content
<1> QED BY <1>1

LEMMA PromotedRecord ==
  ASSUME NEW r \in Record, NEW status \in Statuses, NEW b \in Binding
  PROVE  /\ [r EXCEPT !.promotion = b, !.status = status] = Content(status, b, r.rollback)
         /\ [r EXCEPT !.status = status, !.promotion = b] = Content(status, b, r.rollback)
<1>1. ASSUME NEW new, new = [r EXCEPT !.promotion = b, !.status = status]
      PROVE  new = Content(status, b, r.rollback)
  BY <1>1 DEF Record, Content
<1>2. ASSUME NEW new, new = [r EXCEPT !.status = status, !.promotion = b]
      PROVE  new = Content(status, b, r.rollback)
  BY <1>2 DEF Record, Content
<1> QED BY <1>1, <1>2

LEMMA RolledBackRecord ==
  ASSUME NEW r \in Record, NEW status \in Statuses, NEW b \in Binding
  PROVE  /\ [r EXCEPT !.rollback = b, !.status = status] = Content(status, r.promotion, b)
         /\ [r EXCEPT !.status = status, !.rollback = b] = Content(status, r.promotion, b)
<1>1. ASSUME NEW new, new = [r EXCEPT !.rollback = b, !.status = status]
      PROVE  new = Content(status, r.promotion, b)
  BY <1>1 DEF Record, Content
<1>2. ASSUME NEW new, new = [r EXCEPT !.status = status, !.rollback = b]
      PROVE  new = Content(status, r.promotion, b)
  BY <1>2 DEF Record, Content
<1> QED BY <1>1, <1>2

LEMMA BindEffect ==
  ASSUME RegistryTypeOK, NEW p \in Policy, Known(p), NEW k \in Kinds,
         NEW ev \in Evidence, NEW c \in CampaignId, NEW status \in Statuses,
         NEW type \in EventTypes,
         pol[p][k].ev = NoEvidence, Bind(k, p, ev, c, status, type)
  PROVE  /\ k = "promotion" =>
              Writes(p, status, With(pol[p].promotion, ev, c), pol[p].rollback)
         /\ k = "rollback" =>
              Writes(p, status, pol[p].promotion, With(pol[p].rollback, ev, c))
         /\ head' = head /\ Logs(type, p)
<1>1. PICK r \in Record, b \in Binding : r = pol[p] /\ b = r[k]
  BY RecordFacts
<1>2. pol' = [pol EXCEPT ![p] = [r EXCEPT ![k] = [b EXCEPT !.ev = ev, !.camp = c],
                                          !.status = status]]
  <2>1. pol' = [pol EXCEPT ![p][k].ev = ev, ![p][k].camp = c, ![p].status = status]
    BY DEF Bind
  <2> QED BY <1>1, <2>1 DEF RegistryTypeOK, Record, Kinds
<1>3. pol' = [pol EXCEPT ![p] = [r EXCEPT ![k] = With(b, ev, c), !.status = status]]
  BY <1>2 DEF With
<1>5. head' = head /\ Logs(type, p)
  BY DEF Bind, Append_, Logs
<1>6. With(b, ev, c) \in Binding
  BY BoundFields
<1>7. CASE k = "promotion"
  <2>1. pol' = [pol EXCEPT ![p] = [r EXCEPT !.promotion = With(b, ev, c), !.status = status]]
    BY <1>3, <1>7
  <2>2. [r EXCEPT !.promotion = With(b, ev, c), !.status = status]
          = Content(status, With(b, ev, c), r.rollback)
    BY <1>6, PromotedRecord
  <2> QED BY <1>1, <1>5, <1>7, <2>1, <2>2 DEF Writes
<1>8. CASE k = "rollback"
  <2>1. pol' = [pol EXCEPT ![p] = [r EXCEPT !.rollback = With(b, ev, c), !.status = status]]
    BY <1>3, <1>8
  <2>2. [r EXCEPT !.rollback = With(b, ev, c), !.status = status]
          = Content(status, r.promotion, With(b, ev, c))
    BY <1>6, RolledBackRecord
  <2> QED BY <1>1, <1>5, <1>8, <2>1, <2>2 DEF Writes
<1> QED BY <1>7, <1>8 DEF Kinds

LEMMA PromotionAuthorizeEffect ==
  ASSUME RegistryTypeOK, NEW p \in Policy, Known(p), NEW a \in Actor, NEW c,
         pol[p].promotion.auth = Nobody, MarkPromotionAuthorized(p, c, a)
  PROVE  /\ Writes(p, "authorized", AuthorizedBy(pol[p].promotion, a), pol[p].rollback)
         /\ head' = head /\ Logs("authorized", p)
         /\ pol[p].status = "evaluated" /\ pol[p].promotion.camp = c
<1>1. PICK r \in Record : r = pol[p]
  BY RecordFacts
<1>2. PICK b \in Binding : b = r.promotion
  BY DEF Record
<1>3. pol' = [pol EXCEPT ![p] = [r EXCEPT !.promotion = AuthorizedBy(b, a),
                                          !.status = "authorized"]]
  BY <1>1, <1>2 DEF MarkPromotionAuthorized, Authorize, RegistryTypeOK, Record, AuthorizedBy
<1> QED BY <1>1, <1>2, <1>3
        DEF MarkPromotionAuthorized, Authorize, Append_, Writes, Content, Logs, RegistryTypeOK, Record

LEMMA RollbackAuthorizeEffect ==
  ASSUME RegistryTypeOK, NEW p \in Policy, Known(p), NEW a \in Actor, NEW c,
         pol[p].rollback.auth = Nobody, MarkRollbackAuthorized(p, c, a)
  PROVE  /\ Writes(p, "active", pol[p].promotion, AuthorizedBy(pol[p].rollback, a))
         /\ head' = head /\ Logs("rollback_authorized", p)
         /\ pol[p].status = "active" /\ pol[p].rollback.camp = c
<1>1. PICK r \in Record : r = pol[p]
  BY RecordFacts
<1>2. PICK b \in Binding : b = r.rollback
  BY DEF Record
<1>3. pol' = [pol EXCEPT ![p] = [r EXCEPT !.rollback = AuthorizedBy(b, a), !.status = "active"]]
  BY <1>1, <1>2 DEF MarkRollbackAuthorized, Authorize, RegistryTypeOK, Record, AuthorizedBy
<1> QED BY <1>1, <1>2, <1>3
        DEF MarkRollbackAuthorized, Authorize, Append_, Writes, Content, Logs, RegistryTypeOK, Record

(* Activate and RollBack move the pointer between p and the policy below.   *)
Moves(p, below, new, status) ==
  pol' = [pol EXCEPT ![p] = new,
                     ![below] = Content(status, pol[below].promotion, pol[below].rollback)]

LEMMA ActivateEffect ==
  ASSUME RegistryTypeOK, AllAssumptions, NEW p \in Trained, Known(p), Known(base[p]),
         NEW a \in Actor, NEW rev \in Nat, NEW c, NEW seen,
         Activate(p, c, rev, a, seen), ~ActivateDone(p, rev, a, seen)
  PROVE  /\ Moves(p, base[p],
                  Content("active", ExecutedBy(pol[p].promotion, a), pol[p].rollback),
                  "superseded")
         /\ head' = [active |-> p, rev |-> head.rev + 1] /\ Logs("activated", p)
         /\ pol[p].status = "authorized" /\ pol[p].promotion.camp = c
         /\ head.active = base[p] /\ pol[base[p]].status = "active"
<1>1. p \in Policy /\ base[p] \in Policy /\ base[p] # p
  BY DEF Trained, AllAssumptions, LocalPolicyAssumption
<1>2. PICK r \in Record, s \in Record : r = pol[p] /\ s = pol[base[p]]
  BY <1>1, RecordFacts
<1>3. PICK b \in Binding : b = r.promotion
  BY DEF Record
<1>4. pol' = [pol EXCEPT ![base[p]] = [s EXCEPT !.status = "superseded"],
                         ![p] = [r EXCEPT !.status = "active", !.promotion = ExecutedBy(b, a)]]
  BY <1>1, <1>2, <1>3 DEF Activate, RegistryTypeOK, Record, ExecutedBy
<1>5. /\ [s EXCEPT !.status = "superseded"] = Content("superseded", s.promotion, s.rollback)
      /\ [r EXCEPT !.status = "active", !.promotion = ExecutedBy(b, a)]
           = Content("active", ExecutedBy(b, a), r.rollback)
  <2>1. ExecutedBy(b, a) \in Binding /\ {"active", "superseded", "rolled_back"} \subseteq Statuses
    BY SignedFields DEF Statuses
  <2> QED BY <2>1, MovedRecord, PromotedRecord
<1>6. Moves(p, base[p], Content("active", ExecutedBy(pol[p].promotion, a), pol[p].rollback),
            "superseded")
  BY <1>1, <1>2, <1>3, <1>4, <1>5 DEF Moves, RegistryTypeOK
<1> QED BY <1>6 DEF Activate, Append_, Logs

LEMMA RollBackEffect ==
  ASSUME RegistryTypeOK, AllAssumptions, NEW p \in Trained, Known(p), Known(base[p]),
         NEW a \in Actor, NEW rev \in Nat, NEW c, NEW seen,
         RollBack(p, c, rev, a, seen), ~RollBackDone(p, rev, a, seen)
  PROVE  /\ Moves(p, base[p],
                  Content("rolled_back", pol[p].promotion, ExecutedBy(pol[p].rollback, a)),
                  "active")
         /\ head' = [active |-> base[p], rev |-> head.rev + 1] /\ Logs("rolled_back", p)
         /\ MayRollBack(p) /\ pol[p].rollback.camp = c
<1>1. p \in Policy /\ base[p] \in Policy /\ base[p] # p
  BY DEF Trained, AllAssumptions, LocalPolicyAssumption
<1>2. PICK r \in Record, s \in Record : r = pol[p] /\ s = pol[base[p]]
  BY <1>1, RecordFacts
<1>3. PICK b \in Binding : b = r.rollback
  BY DEF Record
<1>4. pol' = [pol EXCEPT ![p] = [r EXCEPT !.status = "rolled_back",
                                          !.rollback = ExecutedBy(b, a)],
                         ![base[p]] = [s EXCEPT !.status = "active"]]
  BY <1>1, <1>2, <1>3 DEF RollBack, RegistryTypeOK, Record, ExecutedBy
<1>5. /\ [s EXCEPT !.status = "active"] = Content("active", s.promotion, s.rollback)
      /\ [r EXCEPT !.status = "rolled_back", !.rollback = ExecutedBy(b, a)]
           = Content("rolled_back", r.promotion, ExecutedBy(b, a))
  <2>1. ExecutedBy(b, a) \in Binding /\ {"active", "superseded", "rolled_back"} \subseteq Statuses
    BY SignedFields DEF Statuses
  <2>2. [s EXCEPT !.status = "active"] = Content("active", s.promotion, s.rollback)
    BY <2>1, MovedRecord
  <2>3. [r EXCEPT !.status = "rolled_back", !.rollback = ExecutedBy(b, a)]
          = Content("rolled_back", r.promotion, ExecutedBy(b, a))
    BY <2>1, RolledBackRecord
  <2> QED BY <2>2, <2>3
<1>6. Moves(p, base[p], Content("rolled_back", pol[p].promotion, ExecutedBy(pol[p].rollback, a)),
            "active")
  BY <1>1, <1>2, <1>3, <1>4, <1>5 DEF Moves, RegistryTypeOK
<1> QED BY <1>6 DEF RollBack, Append_, Logs

-----------------------------------------------------------------------------
(* The registry by itself *)

Applied == {"active", "superseded", "rolled_back"}

(* What the status of a policy tells of its two bindings.                   *)
Coherent(b) ==
  /\ b.ev = NoEvidence <=> b.camp = NoCampaign
  /\ b.ev = NoEvidence => b.auth = Nobody
  /\ b.auth = Nobody => b.by = Nobody
StatusInvAt(p) ==
  LET r == pol[p] IN
  /\ Coherent(r.promotion) /\ Coherent(r.rollback)
  /\ p \notin Trained =>
       /\ r.promotion.ev = NoEvidence /\ r.rollback.ev = NoEvidence
       /\ r.status \in {"active", "superseded"}
  /\ p \in Trained =>
       /\ r.promotion.ev # NoEvidence <=> r.status # "candidate"
       /\ r.promotion.auth # Nobody <=> r.status \in {"authorized"} \cup Applied
       /\ r.promotion.by # Nobody <=> r.status \in Applied
       /\ r.rollback.ev # NoEvidence => r.status \in Applied
       /\ r.rollback.by # Nobody <=> r.status = "rolled_back"
StatusInv == \A p \in Policy : Known(p) => StatusInvAt(p)

(* There is no policy without an active one, and exactly one is active.     *)
FamilyInv ==
  /\ head.active = NoPolicy => \A p \in Policy : pol[p] = NoRecord
  /\ StateVerifies

RegistryInv == RegistryTypeOK /\ StatusInv /\ FamilyInv

(* Each operation of the registry that writes, with what it looked at.      *)
BindsPromotion(p, ev, c) ==
  /\ Known(p) /\ pol[p].status = "candidate"
  /\ \E status \in {"evaluated", "rejected"} :
       /\ status = "rejected" <=> p \notin promotable
       /\ Writes(p, status, With(pol[p].promotion, ev, c), pol[p].rollback)
       /\ Logs(status, p)
  /\ head' = head
BindsRollback(p, ev, c) ==
  /\ Known(p) /\ pol[p].status = "active" /\ pol[p].rollback.ev = NoEvidence
  /\ Writes(p, "active", pol[p].promotion, With(pol[p].rollback, ev, c))
  /\ head' = head /\ Logs("rollback_submitted", p)
AuthorizesPromotion(p, a) ==
  /\ Known(p) /\ pol[p].status = "evaluated" /\ pol[p].promotion.auth = Nobody
  /\ Writes(p, "authorized", AuthorizedBy(pol[p].promotion, a), pol[p].rollback)
  /\ head' = head /\ Logs("authorized", p)
AuthorizesRollback(p, a) ==
  /\ Known(p) /\ pol[p].status = "active" /\ pol[p].rollback.auth = Nobody
  /\ pol[p].rollback.camp # NoCampaign
  /\ Writes(p, "active", pol[p].promotion, AuthorizedBy(pol[p].rollback, a))
  /\ head' = head /\ Logs("rollback_authorized", p)
Activates(p, a) ==
  /\ Known(p) /\ Known(base[p]) /\ pol[p].status = "authorized"
  /\ head.active = base[p] /\ pol[base[p]].status = "active"
  /\ Moves(p, base[p], Content("active", ExecutedBy(pol[p].promotion, a), pol[p].rollback),
           "superseded")
  /\ head' = [active |-> p, rev |-> head.rev + 1] /\ Logs("activated", p)
RollsBack(p, a) ==
  /\ Known(p) /\ Known(base[p]) /\ MayRollBack(p)
  /\ Moves(p, base[p], Content("rolled_back", pol[p].promotion, ExecutedBy(pol[p].rollback, a)),
           "active")
  /\ head' = [active |-> base[p], rev |-> head.rev + 1] /\ Logs("rolled_back", p)

Operation ==
  \E p \in Policy :
    \/ RegisterInitial(p) \/ AdmitCandidate(p)
    \/ /\ p \in Trained
       /\ \/ \E ev \in Evidence, c \in CampaignId : BindsPromotion(p, ev, c) \/ BindsRollback(p, ev, c)
          \/ \E a \in Actor : \/ AuthorizesPromotion(p, a) \/ AuthorizesRollback(p, a)
                              \/ Activates(p, a) \/ RollsBack(p, a)

(* Records are never deleted, a binding once made stays, and no policy      *)
(* becomes a candidate again.                                               *)
Later(b, d) ==
  /\ b.ev # NoEvidence => d.ev = b.ev /\ d.camp = b.camp
  /\ b.auth # Nobody => d.auth = b.auth
  /\ b.by # Nobody => d.by = b.by
GoesOn ==
  \A p \in Policy : Known(p) =>
    /\ Known(p)'
    /\ Later(pol[p].promotion, pol'[p].promotion) /\ Later(pol[p].rollback, pol'[p].rollback)
    /\ pol[p].status \in Applied => pol'[p].status \in Applied
    /\ pol[p].status = "rolled_back" => pol'[p].status = "rolled_back"

LEMMA LaterBinding ==
  ASSUME NEW b \in Binding, AllAssumptions
  PROVE  /\ Later(b, b)
         /\ \A ev \in Evidence, c \in CampaignId :
              /\ b.ev = NoEvidence /\ b.auth = Nobody /\ b.by = Nobody
              => Later(b, With(b, ev, c)) /\ Coherent(With(b, ev, c))
         /\ \A a \in Actor :
              /\ b.auth = Nobody /\ b.ev # NoEvidence /\ Coherent(b)
              => Later(b, AuthorizedBy(b, a)) /\ Coherent(AuthorizedBy(b, a))
         /\ \A a \in Actor :
              /\ b.by = Nobody /\ b.auth # Nobody /\ Coherent(b)
              => Later(b, ExecutedBy(b, a)) /\ Coherent(ExecutedBy(b, a))
<1> USE DEF Later, Coherent, AllAssumptions, LocalPolicyAssumption
<1>1. ASSUME NEW ev \in Evidence, NEW c \in CampaignId,
             b.ev = NoEvidence, b.auth = Nobody, b.by = Nobody
      PROVE  Later(b, With(b, ev, c)) /\ Coherent(With(b, ev, c))
  BY <1>1, BoundFields
<1>2. ASSUME NEW a \in Actor, b.auth = Nobody, b.ev # NoEvidence, Coherent(b)
      PROVE  Later(b, AuthorizedBy(b, a)) /\ Coherent(AuthorizedBy(b, a))
  BY <1>2, SignedFields
<1>3. ASSUME NEW a \in Actor, b.by = Nobody, b.auth # Nobody, Coherent(b)
      PROVE  Later(b, ExecutedBy(b, a)) /\ Coherent(ExecutedBy(b, a))
  BY <1>3, SignedFields
<1> QED BY <1>1, <1>2, <1>3

LEMMA ContentFields ==
  ASSUME NEW status \in Statuses, NEW b \in Binding, NEW d \in Binding
  PROVE  /\ Content(status, b, d) \in Record /\ Content(status, b, d) # NoRecord
         /\ Content(status, b, d).status = status
         /\ Content(status, b, d).promotion = b /\ Content(status, b, d).rollback = d
BY DEF Content, Record, NoRecord, Statuses

LEMMA LogType ==
  ASSUME RegistryTypeOK, NEW p \in Policy, NEW type \in EventTypes, Logs(type, p)
  PROVE  log' \in Seq([type: EventTypes, p: Policy])
BY DEF RegistryTypeOK, Logs

(* An operation that writes one record and leaves the pointer.              *)
LEMMA RecordStep ==
  ASSUME RegistryInv, AllAssumptions,
         NEW p \in Trained, Known(p), NEW status \in Statuses, NEW b \in Binding, NEW d \in Binding,
         Writes(p, status, b, d), head' = head, NEW type \in EventTypes, Logs(type, p),
         status = "active" <=> pol[p].status = "active",
         Later(pol[p].promotion, b), Later(pol[p].rollback, d),
         pol[p].status \in Applied => status \in Applied,
         pol[p].status = "rolled_back" => status = "rolled_back",
         Coherent(b), Coherent(d),
         /\ b.ev # NoEvidence <=> status # "candidate"
         /\ b.auth # Nobody <=> status \in {"authorized"} \cup Applied
         /\ b.by # Nobody <=> status \in Applied
         /\ d.ev # NoEvidence => status \in Applied
         /\ d.by # Nobody <=> status = "rolled_back"
  PROVE  RegistryInv' /\ GoesOn
<1> USE DEF RegistryInv
<1>1. /\ p \in Policy
      /\ pol'[p] \in Record /\ pol'[p] # NoRecord /\ pol'[p].status = status
      /\ pol'[p].promotion = b /\ pol'[p].rollback = d
      /\ \A q \in Policy : q # p => pol'[q] = pol[q]
      /\ \A q \in Policy : Known(q)' <=> Known(q)
  BY ContentFields DEF Writes, RegistryTypeOK, Trained, Known
<1>2. RegistryTypeOK'
  BY <1>1, ContentFields, LogType DEF Writes, RegistryTypeOK
<1>3. StatusInv'
  <2>1. StatusInvAt(p)'
    BY <1>1 DEF StatusInvAt
  <2>2. \A q \in Policy : q # p /\ Known(q) => StatusInvAt(q)'
    BY <1>1 DEF StatusInv, StatusInvAt
  <2> QED BY <1>1, <2>1, <2>2 DEF StatusInv
<1>4. FamilyInv'
  <2>1. \A q \in Policy : pol'[q].status = "active" <=> pol[q].status = "active"
    BY <1>1
  <2> QED BY <1>1, <2>1 DEF FamilyInv, StateVerifies, Known, Trained
<1>5. GoesOn
  <2>1. \A q \in Policy : Known(q) => Later(pol[q].promotion, pol[q].promotion)
                                       /\ Later(pol[q].rollback, pol[q].rollback)
    BY DEF Later
  <2> QED BY <1>1, <2>1 DEF GoesOn
<1> QED BY <1>2, <1>3, <1>4, <1>5

(* An operation that moves the pointer between p and the policy below it.   *)
LEMMA PointerStep ==
  ASSUME RegistryInv, AllAssumptions,
         NEW p \in Trained, Known(p), Known(base[p]), NEW status \in Statuses,
         NEW under \in Statuses, NEW b \in Binding, NEW d \in Binding,
         Moves(p, base[p], Content(status, b, d), under),
         NEW type \in EventTypes, Logs(type, p),
         head' = [active |-> IF status = "active" THEN p ELSE base[p], rev |-> head.rev + 1],
         \/ status = "active" /\ under = "superseded" /\ head.active = base[p]
         \/ status = "rolled_back" /\ under = "active" /\ head.active = p,
         pol[p].status # "rolled_back",
         pol[base[p]].status \in {"active", "superseded"},
         Later(pol[p].promotion, b), Later(pol[p].rollback, d), Coherent(b), Coherent(d),
         b.ev # NoEvidence, b.auth # Nobody, b.by # Nobody,
         d.by # Nobody <=> status = "rolled_back"
  PROVE  RegistryInv' /\ GoesOn
<1> USE DEF RegistryInv
<1>0. /\ p \in Policy /\ base[p] \in Policy /\ base[p] # p /\ NoPolicy \notin Policy
      /\ {"active", "superseded", "rolled_back"} \subseteq Statuses
  BY DEF Trained, AllAssumptions, LocalPolicyAssumption, Statuses
<1> DEFINE q0 == base[p]
<1>1. /\ pol[q0].promotion \in Binding /\ pol[q0].rollback \in Binding
      /\ Content(under, pol[q0].promotion, pol[q0].rollback) \in Record
  BY <1>0, RecordFacts, ContentFields
<1>2. /\ pol'[p] = Content(status, b, d)
      /\ pol'[q0] = Content(under, pol[q0].promotion, pol[q0].rollback)
      /\ \A q \in Policy : q # p /\ q # q0 => pol'[q] = pol[q]
      /\ pol' \in [Policy -> Record \cup {NoRecord}]
  BY <1>0, <1>1, ContentFields DEF Moves, RegistryTypeOK
<1>3. /\ pol'[p].status = status /\ pol'[p].promotion = b /\ pol'[p].rollback = d
      /\ pol'[q0].status = under /\ pol'[q0].promotion = pol[q0].promotion
      /\ pol'[q0].rollback = pol[q0].rollback
      /\ pol'[p] # NoRecord /\ pol'[q0] # NoRecord
  BY <1>1, <1>2, ContentFields
<1>4. \A q \in Policy : Known(q)' <=> Known(q)
  BY <1>2, <1>3 DEF Known
<1>5. RegistryTypeOK'
  <2>1. head.rev \in Nat
    BY DEF RegistryTypeOK
  <2>2. head' \in [active: Policy \cup {NoPolicy}, rev: Nat]
    BY <1>0, <2>1
  <2>3. log' \in Seq([type: EventTypes, p: Policy])
    BY <1>0, LogType
  <2> QED BY <1>2, <2>2, <2>3 DEF RegistryTypeOK
<1>6. StatusInv'
  <2>1. StatusInvAt(p)'
    BY <1>3 DEF StatusInvAt, Applied
  <2>2. StatusInvAt(q0)'
    BY <1>0, <1>3 DEF StatusInv, StatusInvAt, Applied
  <2>3. \A q \in Policy : q # p /\ q # q0 /\ Known(q) => StatusInvAt(q)'
    BY <1>2 DEF StatusInv, StatusInvAt
  <2> QED BY <1>4, <2>1, <2>2, <2>3 DEF StatusInv
<1>7. FamilyInv'
  <2>1. head.active # NoPolicy /\ head'.active # NoPolicy
    BY <1>0
  <2>2. \A q \in Policy : pol[q].status = "active" <=> q = head.active
    BY <2>1 DEF FamilyInv, StateVerifies
  <2>3. \A q \in Policy : pol'[q].status = "active" <=> q = head'.active
    BY <1>0, <1>2, <1>3, <2>2
  <2>4. {q \in Policy : pol'[q].status = "active"} = {head'.active}
    BY <1>0, <2>3
  <2>5. \A q \in Trained : Known(q)' => Known(base[q])'
    BY <1>4, <2>1 DEF FamilyInv, StateVerifies, Trained, Known
  <2> QED BY <2>1, <2>4, <2>5 DEF FamilyInv, StateVerifies
<1>8. GoesOn
  <2>1. \A q \in Policy : Known(q) => Later(pol[q].promotion, pol[q].promotion)
                                       /\ Later(pol[q].rollback, pol[q].rollback)
    BY DEF Later
  <2> QED BY <1>0, <1>2, <1>3, <1>4, <2>1 DEF GoesOn, Applied
<1> QED BY <1>5, <1>6, <1>7, <1>8

(* Every operation keeps the registry well typed and its records telling    *)
(* the truth, and only goes on.                                             *)
LEMMA FreshStep ==
  ASSUME RegistryInv, AllAssumptions, NEW p \in Policy, RegisterInitial(p) \/ AdmitCandidate(p)
  PROVE  RegistryInv' /\ GoesOn
<1> USE DEF RegistryInv
<1> DEFINE status == IF base[p] = NoPolicy THEN "active" ELSE "candidate"
<1>1. pol[p] = NoRecord /\ pol' = [pol EXCEPT ![p] = NewRecord(status)]
  BY DEF RegisterInitial, AdmitCandidate, FamilyInv, AllAssumptions, LocalPolicyAssumption
<1>2. /\ NewRecord(status) \in Record /\ NewRecord(status) # NoRecord
      /\ NewRecord(status).status = status
      /\ NewRecord(status).promotion = Unbound /\ NewRecord(status).rollback = Unbound
  BY DEF NewRecord, Unbound, Record, Binding, NoRecord, Statuses
<1> HIDE DEF status
<1>3. /\ pol' \in [Policy -> Record \cup {NoRecord}] /\ pol'[p] = NewRecord(status)
      /\ \A q \in Policy : q # p => pol'[q] = pol[q]
      /\ \A q \in Policy : Known(q)' <=> Known(q) \/ q = p
  BY <1>1, <1>2 DEF RegistryTypeOK, Known
<1>4. RegistryTypeOK'
  <2>1. log' \in Seq([type: EventTypes, p: Policy])
    <3>1. PICK type \in EventTypes : Logs(type, p)
      BY DEF RegisterInitial, AdmitCandidate, Append_, EventTypes, Logs
    <3> QED BY <3>1, LogType
  <2> QED BY <1>3, <2>1 DEF RegisterInitial, AdmitCandidate, RegistryTypeOK
<1>5. StatusInv'
  <2>1. StatusInvAt(p)'
    BY <1>2, <1>3 DEF StatusInvAt, Coherent, Unbound, Trained, Applied, status
  <2>2. \A q \in Policy : q # p /\ Known(q) => StatusInvAt(q)'
    BY <1>3 DEF StatusInv, StatusInvAt
  <2> QED BY <1>3, <2>1, <2>2 DEF StatusInv
<1>6. FamilyInv'
  <2>1. CASE RegisterInitial(p)
    <3>1. \A q \in Policy : pol[q] = NoRecord
      BY <2>1 DEF RegisterInitial, FamilyInv
    <3>2. status = "active" /\ head'.active = p /\ p \notin Trained
      BY <2>1 DEF RegisterInitial, status, Trained
    <3>3. {q \in Policy : pol'[q].status = "active"} = {p}
      BY <1>2, <1>3, <3>1, <3>2 DEF NoRecord
    <3> QED BY <1>3, <3>1, <3>2, <3>3
            DEF FamilyInv, StateVerifies, AllAssumptions, LocalPolicyAssumption, Known, Trained
  <2>2. CASE AdmitCandidate(p)
    <3>1. head' = head /\ head.active # NoPolicy /\ head.active = base[p] /\ status = "candidate"
      BY <2>2 DEF AdmitCandidate, status
    <3>2. \A q \in Policy : pol'[q].status = "active" <=> pol[q].status = "active"
      BY <1>1, <1>2, <1>3, <3>1 DEF NoRecord
    <3>3. Known(base[p])
      BY <3>1 DEF FamilyInv, StateVerifies, Known, NoRecord
    <3>4. {q \in Policy : pol'[q].status = "active"} = {head'.active}
      BY <3>1, <3>2 DEF FamilyInv, StateVerifies
    <3>5. \A q \in Trained : Known(q)' => Known(base[q])'
      BY <1>3, <3>1, <3>3 DEF FamilyInv, StateVerifies, Trained, Known
    <3> QED BY <3>1, <3>4, <3>5 DEF FamilyInv, StateVerifies
  <2> QED BY <2>1, <2>2
<1>7. GoesOn
  <2>1. \A q \in Policy : Known(q) => Later(pol[q].promotion, pol[q].promotion)
                                       /\ Later(pol[q].rollback, pol[q].rollback)
    BY DEF Later
  <2> QED BY <1>1, <1>3, <2>1 DEF GoesOn, Known
<1> QED BY <1>4, <1>5, <1>6, <1>7

LEMMA OperationStep ==
  ASSUME RegistryInv, AllAssumptions, Operation
  PROVE  RegistryInv' /\ GoesOn
<1> USE DEF RegistryInv
<1>0. (\A a \in Actor : a # Nobody) /\ \A ev \in Evidence : ev # NoEvidence
  BY DEF AllAssumptions, LocalPolicyAssumption
<1>1. PICK p \in Policy :
        \/ RegisterInitial(p) \/ AdmitCandidate(p)
        \/ /\ p \in Trained
           /\ \/ \E ev \in Evidence, c \in CampaignId : BindsPromotion(p, ev, c) \/ BindsRollback(p, ev, c)
              \/ \E a \in Actor : \/ AuthorizesPromotion(p, a) \/ AuthorizesRollback(p, a)
                                  \/ Activates(p, a) \/ RollsBack(p, a)
  BY DEF Operation
<1>2. CASE RegisterInitial(p) \/ AdmitCandidate(p)
  BY <1>2, FreshStep
<1> DEFINE b == pol[p].promotion  d == pol[p].rollback
<1>3. ASSUME p \in Trained, Known(p)
      PROVE  /\ b \in Binding /\ d \in Binding /\ StatusInvAt(p)
             /\ Later(b, b) /\ Later(d, d) /\ Coherent(b) /\ Coherent(d)
             /\ {"evaluated", "rejected", "authorized", "active", "superseded", "rolled_back"}
                  \subseteq Statuses
             /\ {"evaluated", "rejected", "authorized", "activated", "rollback_submitted",
                 "rollback_authorized", "rolled_back"} \subseteq EventTypes
  BY <1>3, RecordFacts DEF Later, StatusInv, StatusInvAt, Statuses, EventTypes
<1>4. ASSUME p \in Trained, NEW ev \in Evidence, NEW c \in CampaignId, BindsPromotion(p, ev, c)
      PROVE  RegistryInv' /\ GoesOn
  <2>1. /\ Known(p) /\ pol[p].status = "candidate" /\ head' = head
        /\ b.ev = NoEvidence /\ b.auth = Nobody /\ b.by = Nobody
    BY <1>3, <1>4 DEF BindsPromotion, StatusInvAt, Applied
  <2>2. PICK status \in {"evaluated", "rejected"} :
          Writes(p, status, With(b, ev, c), d) /\ Logs(status, p)
    BY <1>4 DEF BindsPromotion
  <2> DEFINE new == With(b, ev, c)
  <2>3. /\ new \in Binding /\ new.ev # NoEvidence
        /\ new.auth = Nobody /\ new.by = Nobody
    BY <1>0, <1>3, <1>4, <2>1, BoundFields
  <2>4. Later(b, new) /\ Coherent(new)
    BY <1>3, <1>4, <2>1, LaterBinding
  <2>5. d.ev = NoEvidence /\ d.by = Nobody
    BY <1>3, <1>4, <2>1 DEF StatusInvAt, Applied
  <2> HIDE DEF new
  <2>6. Writes(p, status, new, d)
    BY <2>2 DEF new
  <2> QED BY <1>3, <1>4, <2>1, <2>2, <2>3, <2>4, <2>5, <2>6, RecordStep DEF Applied
<1>5. ASSUME p \in Trained, NEW ev \in Evidence, NEW c \in CampaignId, BindsRollback(p, ev, c)
      PROVE  RegistryInv' /\ GoesOn
  <2>1. /\ Known(p) /\ pol[p].status = "active" /\ head' = head
        /\ d.ev = NoEvidence /\ d.auth = Nobody /\ d.by = Nobody
        /\ Writes(p, "active", b, With(d, ev, c)) /\ Logs("rollback_submitted", p)
    BY <1>3, <1>5 DEF BindsRollback, Coherent
  <2> DEFINE new == With(d, ev, c)
  <2>2. new \in Binding /\ new.by = Nobody
    BY <1>3, <1>5, <2>1, BoundFields
  <2>3. Later(d, new) /\ Coherent(new)
    BY <1>3, <1>5, <2>1, LaterBinding
  <2>4. b.ev # NoEvidence /\ b.auth # Nobody /\ b.by # Nobody
    BY <1>3, <1>5, <2>1 DEF StatusInvAt, Applied
  <2> HIDE DEF new
  <2>5. Writes(p, "active", b, new)
    BY <2>1 DEF new
  <2> QED BY <1>3, <1>5, <2>1, <2>2, <2>3, <2>4, <2>5, RecordStep DEF Applied
<1>6. ASSUME p \in Trained, NEW a \in Actor, AuthorizesPromotion(p, a)
      PROVE  RegistryInv' /\ GoesOn
  <2>1. /\ Known(p) /\ pol[p].status = "evaluated" /\ head' = head
        /\ b.ev # NoEvidence /\ b.auth = Nobody /\ b.by = Nobody
        /\ Writes(p, "authorized", AuthorizedBy(b, a), d) /\ Logs("authorized", p)
        /\ d.ev = NoEvidence /\ d.by = Nobody
    BY <1>3, <1>6 DEF AuthorizesPromotion, StatusInvAt, Applied
  <2> DEFINE new == AuthorizedBy(b, a)
  <2>2. new \in Binding /\ new.ev # NoEvidence /\ new.auth # Nobody /\ new.by = Nobody
    BY <1>0, <1>3, <1>6, <2>1, SignedFields
  <2>3. Later(b, new) /\ Coherent(new)
    BY <1>3, <1>6, <2>1, LaterBinding
  <2> HIDE DEF new
  <2>4. Writes(p, "authorized", new, d)
    BY <2>1 DEF new
  <2> QED BY <1>3, <1>6, <2>1, <2>2, <2>3, <2>4, RecordStep DEF Applied
<1>7. ASSUME p \in Trained, NEW a \in Actor, AuthorizesRollback(p, a)
      PROVE  RegistryInv' /\ GoesOn
  <2>1. /\ Known(p) /\ pol[p].status = "active" /\ head' = head
        /\ d.ev # NoEvidence /\ d.auth = Nobody /\ d.by = Nobody
        /\ Writes(p, "active", b, AuthorizedBy(d, a)) /\ Logs("rollback_authorized", p)
        /\ b.ev # NoEvidence /\ b.auth # Nobody /\ b.by # Nobody
    BY <1>3, <1>7 DEF AuthorizesRollback, StatusInvAt, Applied, Coherent
  <2> DEFINE new == AuthorizedBy(d, a)
  <2>2. new \in Binding /\ new.by = Nobody
    BY <1>3, <1>7, <2>1, SignedFields
  <2>3. Later(d, new) /\ Coherent(new)
    BY <1>3, <1>7, <2>1, LaterBinding
  <2> HIDE DEF new
  <2>4. Writes(p, "active", b, new)
    BY <2>1 DEF new
  <2> QED BY <1>3, <1>7, <2>1, <2>2, <2>3, <2>4, RecordStep DEF Applied
<1>8. ASSUME p \in Trained, NEW a \in Actor, Activates(p, a)
      PROVE  RegistryInv' /\ GoesOn
  <2>1. /\ Known(p) /\ Known(base[p]) /\ pol[p].status = "authorized"
        /\ head.active = base[p] /\ pol[base[p]].status = "active"
        /\ head' = [active |-> p, rev |-> head.rev + 1] /\ Logs("activated", p)
        /\ b.ev # NoEvidence /\ b.auth # Nobody /\ b.by = Nobody /\ d.by = Nobody
    BY <1>3, <1>8 DEF Activates, StatusInvAt, Applied
  <2> DEFINE new == ExecutedBy(b, a)
  <2>2. new \in Binding /\ new.ev # NoEvidence /\ new.auth # Nobody /\ new.by # Nobody
    BY <1>0, <1>3, <1>8, <2>1, SignedFields
  <2>3. Later(b, new) /\ Coherent(new)
    BY <1>3, <1>8, <2>1, LaterBinding
  <2> HIDE DEF new
  <2>4. Moves(p, base[p], Content("active", new, d), "superseded")
    BY <1>8 DEF new, Activates
  <2> QED BY <1>3, <1>8, <2>1, <2>2, <2>3, <2>4, PointerStep
<1>9. ASSUME p \in Trained, NEW a \in Actor, RollsBack(p, a)
      PROVE  RegistryInv' /\ GoesOn
  <2>1. /\ Known(p) /\ Known(base[p]) /\ pol[p].status = "active"
        /\ head.active = p /\ pol[base[p]].status = "superseded"
        /\ head' = [active |-> base[p], rev |-> head.rev + 1] /\ Logs("rolled_back", p)
        /\ b.ev # NoEvidence /\ b.auth # Nobody /\ b.by # Nobody
        /\ d.auth # Nobody /\ d.by = Nobody
    BY <1>3, <1>9 DEF RollsBack, MayRollBack, StatusInvAt, Applied
  <2> DEFINE new == ExecutedBy(d, a)
  <2>2. new \in Binding /\ new.by # Nobody
    BY <1>0, <1>3, <1>9, <2>1, SignedFields
  <2>3. Later(d, new) /\ Coherent(new)
    BY <1>3, <1>9, <2>1, LaterBinding
  <2> HIDE DEF new
  <2>4. Moves(p, base[p], Content("rolled_back", b, new), "active")
    BY <1>9 DEF new, RollsBack
  <2> QED BY <1>3, <1>9, <2>1, <2>2, <2>3, <2>4, PointerStep
<1> QED BY <1>1, <1>2, <1>4, <1>5, <1>6, <1>7, <1>8, <1>9

-----------------------------------------------------------------------------
(* The two databases together *)

Final(k) == IF k = "promotion" THEN Applied ELSE {"rolled_back"}

(* The hands of the stages before: those of a rollback are also the two     *)
(* that made the activation.                                                *)
Controls(k, p) ==
  IF k = "promotion" THEN {} ELSE {pol[p].promotion.auth, pol[p].promotion.by}
EarlierHands(k, p) == Prohibited(CaseOf(k, p)) \cup Controls(k, p)

(* A campaign is what its case says; nobody votes before it is bound to its *)
(* policy, and it is completed only when the policy has moved.              *)
IsBoundTo(c, case) == Known(case.p) /\ pol[case.p][case.kind].camp = c
ShellInvAt(c) ==
  LET case == camp[c].fp IN
  Exists(c) =>
    /\ case \in Case /\ case.p \in Trained
    /\ camp[c].target = TargetOf(case) /\ camp[c].gen = GeneratorOf(case)
    /\ camp[c].need = 2
    /\ camp[c].state \in WithCandidate => camp[c].cand = case
    /\ Approvers(c) # {} \/ camp[c].state \notin {"open", "cancelled"} => IsBoundTo(c, case)
    /\ camp[c].state = "completed" => pol[case.p].status \in Final(case.kind)
ShellInv == \A c \in CampaignId : ShellInvAt(c)

(* How often a campaign was written follows from its state.                 *)
RevisionInvAt(c) ==
  Exists(c) =>
    /\ camp[c].state # "evidence_accumulating"
    /\ camp[c].state = "open" => camp[c].rev = 0
    /\ camp[c].state = "candidate_ready" => camp[c].rev = 1
    /\ camp[c].state = "evaluation_pending" => camp[c].rev = 2
    /\ camp[c].state = "approval_pending" => camp[c].rev = 3 + Cardinality(Approvers(c))
    /\ camp[c].state \in {"authorized", "completed"} =>
         Cardinality(Approvers(c)) = 2
    /\ camp[c].state = "authorized" => camp[c].rev = 5
    /\ camp[c].state = "completed" => camp[c].rev = 6
RevisionInv == \A c \in CampaignId : RevisionInvAt(c)

(* The people who judge a rollback had no part in the promotion.            *)
JudgesAreApart(case) == RollbackEvidence(case.p, case.ev) /\ ControlsAreApart(case)

(* What a policy was bound to, and by whom it was authorized and executed.  *)
BindingInvAt(k, p) ==
  LET b == pol[p][k] IN
  /\ b.camp # NoCampaign => Exists(b.camp) /\ camp[b.camp].fp = CaseOf(k, p)
  /\ b.camp # NoCampaign /\ k = "rollback" => JudgesAreApart(CaseOf(k, p))
  /\ b.auth # Nobody =>
       /\ Decided(b.camp) /\ Cardinality(Approvers(b.camp)) = 2
       /\ Approvers(b.camp) \cap EarlierHands(k, p) = {}
       /\ b.auth \notin EarlierHands(k, p) \cup Approvers(b.camp)
  /\ b.by # Nobody => b.by \notin EarlierHands(k, p) \cup Approvers(b.camp)
BindingInv == \A p \in Trained, k \in Kinds : Known(p) => BindingInvAt(k, p)

(* What a call relies on from the step in which it checked it.              *)
Operates(j) ==
  /\ j.p \in Trained /\ Known(j.p) /\ pol[j.p][j.k].camp = j.c
  /\ Decided(j.c)
  /\ j.a \notin EarlierHands(j.k, j.p) \cup Approvers(j.c)
Sound(j) ==
  /\ j.pc \in SubmitPcs =>
       /\ j.case.p \in Trained /\ Known(j.case.p)
       /\ j.case.kind = "rollback" =>
            pol[j.case.p].status \in Applied /\ JudgesAreApart(j.case)
  /\ j.pc \in HoldingPcs => Exists(j.c) /\ camp[j.c].fp = j.case
  /\ j.pc \in BoundPcs => IsBoundTo(j.c, j.case)
  /\ j.pc \in GovernPcs => Operates(j)
  /\ j.pc = "mark" =>
       /\ Cardinality(Approvers(j.c)) = 2
       /\ Approvers(j.c) \cap EarlierHands(j.k, j.p) = {}
  /\ j.pc = "complete" => pol[j.p].status \in Final(j.k)
JobInv == \A w \in Worker : Sound(job[w])

IInv ==
  /\ TypeOK /\ StatusInv /\ FamilyInv /\ ApprovalInv
  /\ ShellInv /\ RevisionInv /\ BindingInv /\ JobInv


(* Each transaction that a step performs.                                   *)
Inserts(c, case, t) ==
  /\ case \in Case /\ case.p \in Trained
  /\ InsertCampaign(c, TargetOf(case), case, GeneratorOf(case), 2, "open", t)
Attaches(c, t) ==
  IsBoundTo(c, camp[c].fp) /\ AttachCandidate(c, camp[c].fp, camp[c].rev, t)
Passes(c, t) ==
  \E to \in {"evaluation_pending", "approval_pending", "rejected", "cancelled"} :
    Transition(c, to, camp[c].rev, 0, t)
Finishes(c, t) ==
  /\ camp[c].fp.p \in Trained => pol[camp[c].fp.p].status \in Final(camp[c].fp.kind)
  /\ Transition(c, "completed", camp[c].rev, 0, t)
Votes(c, t) ==
  \E a \in Actor, decision \in Decisions : RecordApproval(c, a, decision, camp[c].rev, 0, t)

ChangeAt(c, t) ==
  (\E case \in Case : Inserts(c, case, t)) \/ Attaches(c, t) \/ Passes(c, t) \/ Finishes(c, t) \/ Votes(c, t)
Change(c) == \E t \in Nat : ChangeAt(c, t)

LEMMA ChangeIsTransaction ==
  ASSUME TypeOK, AllAssumptions, ShellInv, NEW c \in CampaignId, NEW t \in Nat, ChangeAt(c, t)
  PROVE  Transaction(c, t)
<1>1. ASSUME NEW case \in Case, Inserts(c, case, t)
      PROVE  Transaction(c, t)
  <2>1. /\ TargetOf(case) \in Target /\ case \in Fingerprint /\ GeneratorOf(case) \in Actor
        /\ "open" \in InitialStates
    BY CaseFacts DEF InitialStates
  <2> QED BY <1>1, <2>1 DEF Inserts, Transaction
<1>2. CASE Attaches(c, t)
  <2>1. camp[c].fp \in Candidate
    BY <1>2, CaseFacts DEF Attaches, AttachCandidate, ShellInv, ShellInvAt
  <2> QED BY <1>2, <2>1 DEF Attaches, Transaction
<1>3. CASE Passes(c, t) \/ Finishes(c, t)
  BY <1>3 DEF Passes, Finishes, Transaction, CallerStates, ClosedStates
<1>4. CASE Votes(c, t)
  BY <1>4 DEF Votes, Transaction
<1> QED BY <1>1, <1>2, <1>3, <1>4 DEF ChangeAt

(* What a vote and a change of state leave of the row.                      *)
LEMMA PassEffect ==
  ASSUME TypeOK, NEW c \in CampaignId, NEW to, NEW rev, NEW t \in Nat, Transition(c, to, rev, 0, t)
  PROVE  /\ Exists(c) /\ <<camp[c].state, to>> \in LegalTransitions
         /\ camp'[c].state = to /\ camp'[c].rev = camp[c].rev + 1
         /\ camp'[c].cand = camp[c].cand /\ approvals' = approvals
BY TransitionWrites DEF TypeOK

LEMMA AttachEffect ==
  ASSUME TypeOK, NEW c \in CampaignId, NEW cand \in Candidate, NEW rev, NEW t \in Nat,
         AttachCandidate(c, cand, rev, t)
  PROVE  /\ Exists(c) /\ camp[c].state \in {"open", "evidence_accumulating"}
         /\ camp'[c].state = "candidate_ready" /\ camp'[c].cand = cand
         /\ camp'[c].rev = camp[c].rev + 1 /\ approvals' = approvals
BY AttachWrites DEF TypeOK, InitialStates

LEMMA VoteEffect ==
  ASSUME TypeOK, AllAssumptions, NEW c \in CampaignId, NEW a \in Actor, NEW decision \in Decisions,
         camp[c].need = 2, NEW t \in Nat,
         RecordApproval(c, a, decision, camp[c].rev, 0, t)
  PROVE  /\ Exists(c) /\ camp[c].state = "approval_pending" /\ approvals[c][a] = "none"
         /\ camp'[c].rev = camp[c].rev + 1 /\ camp'[c].cand = camp[c].cand
         /\ decision = "reject" => Approvers(c)' = Approvers(c) /\ camp'[c].state = "rejected"
         /\ decision = "approve" =>
              /\ Approvers(c)' = Approvers(c) \cup {a}
              /\ IsFiniteSet(Approvers(c))
              /\ Cardinality(Approvers(c)') = Cardinality(Approvers(c)) + 1
              /\ camp'[c].state = IF Cardinality(Approvers(c)') >= 2 THEN "authorized"
                                  ELSE "approval_pending"
<1>1. CampaignsTypeOK /\ CampaignsAssumption
  BY DEF TypeOK, AllAssumptions
<1> QED BY <1>1, ApprovalWrites

(* The invariants of the campaigns by themselves.                           *)
LEMMA RevisionStep ==
  ASSUME TypeOK, AllAssumptions, ApprovalInv, ShellInv, RevisionInv,
         NEW c \in CampaignId, NEW t \in Nat, ChangeAt(c, t)
  PROVE  RevisionInv'
<1>1. Transaction(c, t)
  BY ChangeIsTransaction
<1>2. ASSUME NEW d \in CampaignId, d # c
      PROVE  RevisionInvAt(d)'
  <2>1. camp'[d] = camp[d] /\ approvals'[d] = approvals[d]
    BY <1>1, <1>2, OthersUntouched DEF TypeOK
  <2> QED BY <2>1 DEF RevisionInv, RevisionInvAt, Exists, Approvers
<1>3. RevisionInvAt(c)
  BY DEF RevisionInv
<1>4. ASSUME \E case \in Case : Inserts(c, case, t)
      PROVE  RevisionInvAt(c)'
  <2>0. PICK case \in Case : Inserts(c, case, t)
    BY <1>4
  <2>1. camp'[c].state = "open" /\ camp'[c].rev = 0
    BY <2>0 DEF Inserts, InsertCampaign, TypeOK, CampaignsTypeOK
  <2> QED BY <2>1 DEF RevisionInvAt
<1>5. ASSUME Attaches(c, t)
      PROVE  RevisionInvAt(c)'
  <2>1. camp[c].fp \in Candidate
    BY <1>5, CaseFacts DEF Attaches, AttachCandidate, ShellInv, ShellInvAt
  <2>2. /\ Exists(c) /\ camp[c].state \in {"open", "evidence_accumulating"}
        /\ camp'[c].state = "candidate_ready" /\ camp'[c].rev = camp[c].rev + 1
    BY <1>5, <2>1, AttachEffect DEF Attaches
  <2>3. camp[c].rev = 0
    BY <1>3, <2>2 DEF RevisionInvAt
  <2>4. camp'[c].rev = 1
    BY <2>2, <2>3
  <2> QED BY <2>2, <2>4 DEF RevisionInvAt
<1>6. ASSUME Passes(c, t) \/ Finishes(c, t)
      PROVE  RevisionInvAt(c)'
  <2>0. PICK to \in {"evaluation_pending", "approval_pending", "rejected", "cancelled",
                     "completed"} :
          Transition(c, to, camp[c].rev, 0, t)
    BY <1>6 DEF Passes, Finishes
  <2>1. /\ Exists(c) /\ <<camp[c].state, to>> \in LegalTransitions
        /\ camp'[c].state = to /\ camp'[c].rev = camp[c].rev + 1
        /\ Approvers(c)' = Approvers(c)
    BY <2>0, PassEffect DEF Approvers
  <2>2. CASE to = "approval_pending"
    <3>1. camp[c].state = "evaluation_pending"
      BY <2>1, <2>2 DEF LegalTransitions
    <3>2. Approvers(c) = {}
      BY <3>1 DEF ApprovalInv, ApprovalInvAt, BeforeApproval, Approvers
    <3>3. Cardinality(Approvers(c)') = 0
      BY <2>1, <3>2, FS_EmptySet
    <3> QED BY <1>3, <2>1, <2>2, <3>1, <3>3 DEF RevisionInvAt
  <2>3. CASE to # "approval_pending"
    BY <1>3, <2>1, <2>3 DEF LegalTransitions, RevisionInvAt
  <2> QED BY <2>2, <2>3
<1>7. ASSUME Votes(c, t)
      PROVE  RevisionInvAt(c)'
  <2>0. PICK a \in Actor, decision \in Decisions :
          RecordApproval(c, a, decision, camp[c].rev, 0, t)
    BY <1>7 DEF Votes
  <2>1. camp[c].need = 2
    BY <2>0 DEF RecordApproval, ShellInv, ShellInvAt
  <2>2. /\ camp[c].state = "approval_pending" /\ Exists(c)
        /\ camp[c].rev = 3 + Cardinality(Approvers(c)) /\ Cardinality(Approvers(c)) < 2
    BY <1>3, <2>0, <2>1 DEF RecordApproval, RevisionInvAt, ApprovalInv, ApprovalInvAt
  <2>3. CASE decision = "reject"
    BY <2>0, <2>1, <2>3, VoteEffect DEF RevisionInvAt
  <2>4. CASE decision = "approve"
    <3>1. /\ camp'[c].rev = camp[c].rev + 1
          /\ IsFiniteSet(Approvers(c))
          /\ Cardinality(Approvers(c)') = Cardinality(Approvers(c)) + 1
          /\ camp'[c].state = IF Cardinality(Approvers(c)') >= 2 THEN "authorized"
                              ELSE "approval_pending"
      BY <2>0, <2>1, <2>4, VoteEffect
    <3>2. Cardinality(Approvers(c)) \in Nat
      BY <3>1, FS_CardinalityType
    <3> QED BY <2>2, <3>1, <3>2 DEF RevisionInvAt
  <2> QED BY <2>3, <2>4 DEF Decisions
<1>8. RevisionInvAt(c)'
  BY <1>4, <1>5, <1>6, <1>7 DEF ChangeAt
<1> QED BY <1>2, <1>8 DEF RevisionInv

LEMMA ShellStep ==
  ASSUME TypeOK, AllAssumptions, ApprovalInv, ShellInv, UNCHANGED registryVars,
         NEW c \in CampaignId, NEW t \in Nat, ChangeAt(c, t)
  PROVE  ShellInv'
<1>1. Transaction(c, t)
  BY ChangeIsTransaction
<1>0. pol' = pol
  BY DEF registryVars
<1>2. ASSUME NEW d \in CampaignId, d # c
      PROVE  ShellInvAt(d)'
  <2>1. camp'[d] = camp[d] /\ approvals'[d] = approvals[d]
    BY <1>1, <1>2, OthersUntouched DEF TypeOK
  <2> QED BY <1>0, <2>1 DEF ShellInv, ShellInvAt, Exists, Approvers, IsBoundTo, Known
<1>3. ShellInvAt(c)
  BY DEF ShellInv
<1>4. ASSUME \E case \in Case : Inserts(c, case, t)
      PROVE  ShellInvAt(c)'
  <2>0. PICK case \in Case : Inserts(c, case, t)
    BY <1>4
  <2>1. /\ camp'[c].state = "open" /\ camp'[c].fp = case /\ camp'[c].target = TargetOf(case)
        /\ camp'[c].gen = GeneratorOf(case) /\ camp'[c].need = 2 /\ case.p \in Trained
        /\ approvals' = approvals /\ ~Exists(c)
    BY <2>0 DEF Inserts, InsertCampaign, TypeOK, CampaignsTypeOK
  <2>2. Approvers(c)' = {}
    BY <2>1 DEF ApprovalInv, ApprovalInvAt, Approvers
  <2> QED BY <2>1, <2>2 DEF ShellInvAt, WithCandidate
<1>5. ASSUME Exists(c)
      PROVE  /\ camp'[c].fp = camp[c].fp /\ camp'[c].target = camp[c].target
             /\ camp'[c].gen = camp[c].gen /\ camp'[c].need = camp[c].need
  BY <1>1, <1>5, DecidedStays DEF TypeOK
<1>6. ASSUME Attaches(c, t)
      PROVE  ShellInvAt(c)'
  <2>0. camp[c].fp \in Candidate
    BY <1>6, CaseFacts DEF Attaches, AttachCandidate, ShellInv, ShellInvAt
  <2>1. /\ Exists(c) /\ camp'[c].state = "candidate_ready" /\ camp'[c].cand = camp[c].fp
        /\ IsBoundTo(c, camp[c].fp)
    BY <1>6, <2>0, AttachEffect DEF Attaches
  <2>2. IsBoundTo(c, camp[c].fp)' /\ camp'[c].state # "completed"
    BY <1>0, <1>5, <2>1 DEF IsBoundTo, Known
  <2> QED BY <1>0, <1>3, <1>5, <2>1, <2>2 DEF ShellInvAt
<1>7. ASSUME Passes(c, t) \/ Finishes(c, t)
      PROVE  ShellInvAt(c)'
  <2>0. PICK to \in {"evaluation_pending", "approval_pending", "rejected", "cancelled",
                     "completed"} :
          /\ Transition(c, to, camp[c].rev, 0, t)
          /\ to = "completed" /\ camp[c].fp.p \in Trained =>
               pol[camp[c].fp.p].status \in Final(camp[c].fp.kind)
    BY <1>7 DEF Passes, Finishes
  <2>1. /\ Exists(c) /\ <<camp[c].state, to>> \in LegalTransitions
        /\ camp'[c].state = to /\ camp'[c].cand = camp[c].cand
        /\ Approvers(c)' = Approvers(c)
    BY <2>0, PassEffect DEF Approvers
  <2>2. to \in WithCandidate => camp[c].state \in WithCandidate
    BY <2>0, <2>1 DEF LegalTransitions, WithCandidate
  <2>3. to # "cancelled" => camp[c].state \notin {"open", "cancelled"}
    BY <2>0, <2>1 DEF LegalTransitions
  <2> QED BY <1>0, <1>3, <1>5, <2>0, <2>1, <2>2, <2>3 DEF ShellInvAt, IsBoundTo, Known
<1>8. ASSUME Votes(c, t)
      PROVE  ShellInvAt(c)'
  <2>0. PICK a \in Actor, decision \in Decisions :
          RecordApproval(c, a, decision, camp[c].rev, 0, t)
    BY <1>8 DEF Votes
  <2>1. Exists(c) /\ camp[c].need = 2 /\ camp[c].state = "approval_pending"
    BY <1>3, <2>0 DEF RecordApproval, ShellInvAt
  <2>2. camp'[c].cand = camp[c].cand /\ camp'[c].state # "completed"
    BY <2>0, <2>1, VoteEffect DEF Decisions
  <2> QED BY <1>0, <1>3, <1>5, <2>1, <2>2 DEF ShellInvAt, IsBoundTo, Known, WithCandidate
<1>9. ShellInvAt(c)'
  BY <1>4, <1>6, <1>7, <1>8 DEF ChangeAt
<1> QED BY <1>2, <1>9 DEF ShellInv

-----------------------------------------------------------------------------
(* What a step does to the two databases: it changes at most one of them,  *)
(* and that by one transaction.                                            *)
LEMMA StepOnCampaigns ==
  ASSUME IInv, AllAssumptions, [Next]_vars
  PROVE  UNCHANGED campaignVars \/ (UNCHANGED registryVars /\ \E c \in CampaignId : Change(c))
<1> DEFINE Goal == UNCHANGED campaignVars \/ (UNCHANGED registryVars /\ \E c \in CampaignId : Change(c))
<1> SUFFICES Goal
  OBVIOUS
<1>0. TypeOK /\ JobInv /\ clock \in Nat
  BY DEF IInv, TypeOK, AllAssumptions, LifecycleAssumption
<1>1. ASSUME NEW w \in Worker, SubmitReserve(w)
      PROVE  Goal
  <2>1. /\ job[w].case \in Case /\ job[w].case.p \in Trained /\ UNCHANGED registryVars
        /\ askedAt[job[w].case.ev] \in Nat
    BY <1>0, <1>1, JobFacts, CaseFacts DEF AllAssumptions, LocalPolicyAssumption, SubmitReserve, SubmitPcs, JobInv, Sound
  <2>2. PICK c \in CampaignId :
          \/ InsertCampaign(c, TargetOf(job[w].case), job[w].case, GeneratorOf(job[w].case), 2, "open",
                            askedAt[job[w].case.ev])
          \/ UNCHANGED campaignVars
    BY <1>1 DEF SubmitReserve, ReuseCampaign
  <2> QED BY <2>1, <2>2 DEF Change, ChangeAt, Inserts
<1>2. ASSUME NEW w \in Worker, SubmitAttach(w)
      PROVE  Goal
  <2>1. /\ job[w].c \in CampaignId /\ camp[job[w].c].fp = job[w].case
        /\ IsBoundTo(job[w].c, job[w].case)
    BY <1>0, <1>2, JobFacts DEF SubmitAttach, HoldingPcs, BoundPcs, JobInv, Sound
  <2>2. AttachCandidate(job[w].c, job[w].case, camp[job[w].c].rev, clock)
    BY <1>2 DEF SubmitAttach, AttachCandidate
  <2> QED BY <1>0, <1>2, <2>1, <2>2 DEF SubmitAttach, Change, ChangeAt, Attaches
<1>3. ASSUME NEW w \in Worker, SubmitEvaluate(w)
      PROVE  Goal
  <2>1. job[w].c \in CampaignId
    BY <1>0, <1>3, JobFacts DEF SubmitEvaluate, HoldingPcs
  <2>2. PICK to \in {"evaluation_pending", "approval_pending", "rejected"} :
          Transition(job[w].c, to, job[w].row.rev, 0, clock)
    BY <1>3 DEF SubmitEvaluate
  <2>3. Transition(job[w].c, to, camp[job[w].c].rev, 0, clock)
    BY <2>2 DEF Transition
  <2> QED BY <1>0, <1>3, <2>1, <2>3 DEF SubmitEvaluate, Change, ChangeAt, Passes
<1>4. ASSUME NEW w \in Worker, MoveComplete(w)
      PROVE  Goal
  <2>1. /\ job[w].c \in CampaignId /\ job[w].p \in Trained /\ job[w].k \in Kinds
        /\ Known(job[w].p) /\ pol[job[w].p][job[w].k].camp = job[w].c
        /\ pol[job[w].p].status \in Final(job[w].k)
    BY <1>0, <1>4, JobFacts DEF MoveComplete, GovernPcs, JobInv, Sound, Operates
  <2>2. camp[job[w].c].fp = CaseOf(job[w].k, job[w].p)
    BY <2>1 DEF IInv, BindingInv, BindingInvAt, AllAssumptions, LocalPolicyAssumption
  <2>3. camp[job[w].c].fp.p = job[w].p /\ camp[job[w].c].fp.kind = job[w].k
    BY <2>2 DEF CaseOf
  <2> DEFINE t == Latest(job[w].t, camp[job[w].c].upd)
  <2>4. CASE Transition(job[w].c, "completed", camp[job[w].c].rev, 0, t)
    <3>1. t \in Nat
      <4>1. job[w].t \in Nat
        BY <1>0, <1>4, JobFacts DEF MoveComplete, GovernPcs
      <4>2. camp[job[w].c] \in RowBy(Actor)
        BY <1>0, <2>1, <2>4 DEF Transition, TypeOK, CampaignsTypeOK, Exists, NoRow
      <4> QED BY <4>1, <4>2 DEF Latest, RowBy
    <3> QED BY <1>4, <2>1, <2>3, <2>4, <3>1 DEF MoveComplete, Change, ChangeAt, Finishes
  <2> QED BY <1>4, <2>4 DEF MoveComplete
<1>5. ASSUME NEW c \in CampaignId, NEW k \in Kinds, NEW a \in approverOf[k],
             ApproveDirectly(c, a) \/ Close(c, a)
      PROVE  Goal
  <2>1. a \in Actor /\ {"approve", "reject"} = Decisions
    BY DEF AllAssumptions, LifecycleAssumption, Decisions
  <2>2. CASE Transition(c, "cancelled", camp[c].rev, 0, clock)
    BY <1>0, <1>5, <2>2 DEF ApproveDirectly, Close, Change, ChangeAt, Passes
  <2>3. CASE \E decision \in Decisions : RecordApproval(c, a, decision, camp[c].rev, 0, clock)
    BY <1>0, <1>5, <2>1, <2>3 DEF ApproveDirectly, Close, Change, ChangeAt, Votes
  <2> QED BY <1>5, <2>1, <2>2, <2>3 DEF ApproveDirectly, Close
<1>6. ASSUME NEW k \in Kinds, NEW p \in Policy, NEW a \in approverOf[k], Approve(k, p, a)
      PROVE  Goal
  <2>1. a \in Actor /\ "approve" \in Decisions
    BY DEF AllAssumptions, LifecycleAssumption, Decisions
  <2>2. pol[p][k].camp \in CampaignId /\ UNCHANGED registryVars
    BY <1>0, <1>6, RecordFacts DEF Approve, MayApprove, TypeOK, Binding
  <2>3. RecordApproval(pol[p][k].camp, a, "approve", camp[pol[p][k].camp].rev, 0, clock)
    BY <1>6 DEF Approve
  <2> QED BY <1>0, <2>1, <2>2, <2>3 DEF Change, ChangeAt, Votes
<1>7. CASE \E p \in Policy : Register(p) \/ Admit(p)
  BY <1>7 DEF Register, Admit
<1>8. ASSUME NEW w \in Worker,
             \/ \E case \in Submitted : SubmitStart(w, case) \/ SubmitAgain(w, case)
             \/ \E k \in Kinds, p \in Policy : Synchronize(w, k, p) \/ Move(w, k, p)
             \/ SubmitFind(w) \/ SubmitRecord(w) \/ SubmitResume(w) \/ SynchronizeMark(w)
             \/ MoveRegistry(w) \/ Abort(w)
      PROVE  Goal
  <2>1. CASE \E case \in Submitted : SubmitStart(w, case) \/ SubmitAgain(w, case)
    BY <2>1 DEF SubmitStart, SubmitAgain
  <2>2. CASE \E k \in Kinds, p \in Policy : Synchronize(w, k, p) \/ Move(w, k, p)
    BY <2>2 DEF Synchronize, Move, SynchronizeStart, MoveStart
  <2>3. CASE SubmitFind(w) \/ SubmitRecord(w) \/ SubmitResume(w)
    BY <2>3 DEF SubmitFind, SubmitRecord, SubmitResume
  <2>4. CASE SynchronizeMark(w) \/ MoveRegistry(w) \/ Abort(w)
    BY <2>4 DEF SynchronizeMark, MoveRegistry, Abort
  <2> QED BY <1>8, <2>1, <2>2, <2>3, <2>4
<1>9. CASE Tick \/ UNCHANGED vars
  BY <1>9 DEF Tick, vars, campaignVars
<1> HIDE DEF Goal
<1> QED BY <1>1, <1>2, <1>3, <1>4, <1>5, <1>6, <1>7, <1>8, <1>9 DEF Next, Progress

Records(w) ==
  /\ job[w].pc = "record"
  /\ LET case == job[w].case IN
     IF case.kind = "promotion" THEN BindsPromotion(case.p, case.ev, job[w].c)
                                ELSE BindsRollback(case.p, case.ev, job[w].c)
Marks(w) ==
  /\ job[w].pc = "mark"
  /\ IF job[w].k = "promotion" THEN AuthorizesPromotion(job[w].p, job[w].a)
                               ELSE AuthorizesRollback(job[w].p, job[w].a)
MovesHead(w) ==
  /\ job[w].pc = "move"
  /\ IF job[w].k = "promotion" THEN Activates(job[w].p, job[w].a)
                               ELSE RollsBack(job[w].p, job[w].a)
Fresh == \E p \in Policy : RegisterInitial(p) \/ AdmitCandidate(p)

RegistryChange == Fresh \/ \E w \in Worker : Records(w) \/ Marks(w) \/ MovesHead(w)

LEMMA RecordWrites ==
  ASSUME IInv, AllAssumptions, NEW w \in Worker, SubmitRecord(w)
  PROVE  (UNCHANGED registryVars /\ IsBoundTo(job[w].c, job[w].case)) \/ Records(w)
<1>1. /\ RegistryTypeOK /\ job[w].pc = "record" /\ job[w].case \in Case /\ job[w].c \in CampaignId
      /\ job[w].case.p \in Policy /\ Known(job[w].case.p) /\ job[w].case.ev \in Evidence
      /\ job[w].case.kind \in Kinds
  BY JobFacts, CaseFacts DEF SubmitRecord, HoldingPcs, SubmitPcs, IInv, TypeOK, JobInv, Sound
<1> DEFINE p == job[w].case.p  ev == job[w].case.ev  c == job[w].c  k == job[w].case.kind
<1>2. CASE pol[p][k].ev # NoEvidence
  <2>1. UNCHANGED registryVars /\ pol[p][k].camp = c
    BY <1>1, <1>2 DEF SubmitRecord, RecordPromotion, RecordRollback, Bind, Kinds
  <2> QED BY <1>1, <2>1 DEF IsBoundTo
<1>3. CASE k = "promotion" /\ pol[p].promotion.ev = NoEvidence
  <2>1. PICK status \in {"evaluated", "rejected"} :
          /\ status = "rejected" <=> p \notin promotable
          /\ Bind("promotion", p, ev, c, status, status)
          /\ pol[p].status = "candidate"
    BY <1>1, <1>3 DEF SubmitRecord, RecordPromotion
  <2>2. status \in Statuses /\ status \in EventTypes /\ "promotion" \in Kinds
    BY DEF Statuses, EventTypes, Kinds
  <2>3. /\ Writes(p, status, With(pol[p].promotion, ev, c), pol[p].rollback)
        /\ head' = head /\ Logs(status, p)
    BY <1>1, <1>3, <2>1, <2>2, BindEffect
  <2>4. BindsPromotion(p, ev, c)
    BY <1>1, <2>1, <2>3 DEF BindsPromotion
  <2> QED BY <1>1, <1>3, <2>4 DEF Records
<1>4. CASE k = "rollback" /\ pol[p].rollback.ev = NoEvidence
  <2>1. /\ pol[p].status = "active" /\ Bind("rollback", p, ev, c, "active", "rollback_submitted")
    BY <1>1, <1>4 DEF SubmitRecord, RecordRollback
  <2>2. "active" \in Statuses /\ "rollback_submitted" \in EventTypes /\ "rollback" \in Kinds
    BY DEF Statuses, EventTypes, Kinds
  <2>3. /\ Writes(p, "active", pol[p].promotion, With(pol[p].rollback, ev, c))
        /\ head' = head /\ Logs("rollback_submitted", p)
    BY <1>1, <1>4, <2>1, <2>2, BindEffect
  <2>4. BindsRollback(p, ev, c)
    BY <1>1, <1>4, <2>1, <2>3 DEF BindsRollback
  <2> QED BY <1>1, <1>4, <2>4 DEF Records
<1> QED BY <1>1, <1>2, <1>3, <1>4 DEF Kinds

LEMMA MarkWrites ==
  ASSUME IInv, AllAssumptions, NEW w \in Worker, SynchronizeMark(w)
  PROVE  UNCHANGED registryVars \/ Marks(w)
<1>1. /\ RegistryTypeOK /\ job[w].pc = "mark" /\ job[w].k \in Kinds /\ job[w].p \in Policy
      /\ job[w].c \in CampaignId /\ job[w].a \in Actor /\ Known(job[w].p)
  BY JobFacts DEF SynchronizeMark, GovernPcs, IInv, TypeOK, JobInv, Sound, Operates
<1> DEFINE p == job[w].p  c == job[w].c  a == job[w].a  k == job[w].k
<1>2. CASE pol[p][k].auth # Nobody
  BY <1>1, <1>2 DEF SynchronizeMark, MarkPromotionAuthorized, MarkRollbackAuthorized, Authorize, Kinds
<1>3. CASE k = "promotion" /\ pol[p].promotion.auth = Nobody
  <2>1. MarkPromotionAuthorized(p, c, a)
    BY <1>3 DEF SynchronizeMark
  <2>2. AuthorizesPromotion(p, a)
    BY <1>1, <1>3, <2>1, PromotionAuthorizeEffect DEF AuthorizesPromotion
  <2> QED BY <1>1, <1>3, <2>2 DEF Marks
<1>4. CASE k = "rollback" /\ pol[p].rollback.auth = Nobody
  <2>1. MarkRollbackAuthorized(p, c, a)
    BY <1>4 DEF SynchronizeMark
  <2>2. AuthorizesRollback(p, a)
    BY <1>1, <1>4, <2>1, RollbackAuthorizeEffect
       DEF AuthorizesRollback, AllAssumptions, LocalPolicyAssumption
  <2> QED BY <1>1, <1>4, <2>2 DEF Marks
<1> QED BY <1>1, <1>2, <1>3, <1>4 DEF Kinds

LEMMA MoveWrites ==
  ASSUME IInv, AllAssumptions, NEW w \in Worker, MoveRegistry(w)
  PROVE  (UNCHANGED registryVars /\ pol[job[w].p].status \in Final(job[w].k)) \/ MovesHead(w)
<1>1. /\ RegistryTypeOK /\ job[w].pc = "move" /\ job[w].k \in Kinds /\ job[w].p \in Trained
      /\ job[w].c \in CampaignId /\ job[w].a \in Actor /\ job[w].rev \in Nat /\ Known(job[w].p)
  BY JobFacts DEF MoveRegistry, GovernPcs, IInv, TypeOK, JobInv, Sound, Operates
<1> DEFINE p == job[w].p  c == job[w].c  a == job[w].a  k == job[w].k  rev == job[w].rev
              seen == job[w].saw = "applied"
<1>2. Known(base[p])
  BY <1>1 DEF IInv, FamilyInv, StateVerifies, Known, Trained
<1>3. CASE k = "promotion"
  <2>1. Activate(p, c, rev, a, seen)
    BY <1>3 DEF MoveRegistry
  <2>2. CASE ActivateDone(p, rev, a, seen)
    BY <1>3, <2>1, <2>2 DEF Activate, ActivateDone, Activated, Final, Applied
  <2>3. CASE ~ActivateDone(p, rev, a, seen)
    <3>1. Activates(p, a)
      BY <1>1, <1>2, <2>1, <2>3, ActivateEffect DEF Activates
    <3> QED BY <1>1, <1>3, <3>1 DEF MovesHead
  <2> QED BY <2>2, <2>3
<1>4. CASE k = "rollback"
  <2>1. RollBack(p, c, rev, a, seen)
    BY <1>4 DEF MoveRegistry
  <2>2. CASE RollBackDone(p, rev, a, seen)
    BY <1>4, <2>1, <2>2 DEF RollBack, RollBackDone, IsRolledBack, MayRollBack, Final
  <2>3. CASE ~RollBackDone(p, rev, a, seen)
    <3>1. RollsBack(p, a)
      BY <1>1, <1>2, <2>1, <2>3, RollBackEffect DEF RollsBack
    <3> QED BY <1>1, <1>4, <3>1 DEF MovesHead
  <2> QED BY <2>2, <2>3
<1> QED BY <1>1, <1>3, <1>4 DEF Kinds

LEMMA StepOnRegistry ==
  ASSUME IInv, AllAssumptions, [Next]_vars
  PROVE  UNCHANGED registryVars \/ (UNCHANGED campaignVars /\ RegistryChange)
<1> DEFINE Goal == UNCHANGED registryVars \/ (UNCHANGED campaignVars /\ RegistryChange)
<1> SUFFICES Goal
  OBVIOUS
<1>1. ASSUME NEW w \in Worker, SubmitRecord(w)
      PROVE  Goal
  BY <1>1, RecordWrites DEF SubmitRecord, RegistryChange
<1>2. ASSUME NEW w \in Worker, SynchronizeMark(w)
      PROVE  Goal
  BY <1>2, MarkWrites DEF SynchronizeMark, RegistryChange
<1>3. ASSUME NEW w \in Worker, MoveRegistry(w)
      PROVE  Goal
  BY <1>3, MoveWrites DEF MoveRegistry, RegistryChange
<1>4. CASE \E p \in Policy : Register(p) \/ Admit(p)
  BY <1>4 DEF Register, Admit, RegistryChange, Fresh
<1>5. ASSUME NEW w \in Worker,
             \/ \E case \in Submitted : SubmitStart(w, case) \/ SubmitAgain(w, case)
             \/ \E k \in Kinds, p \in Policy : Synchronize(w, k, p) \/ Move(w, k, p)
             \/ SubmitFind(w) \/ SubmitReserve(w) \/ SubmitResume(w) \/ SubmitAttach(w)
             \/ SubmitEvaluate(w) \/ MoveComplete(w) \/ Abort(w)
      PROVE  Goal
  <2>1. ASSUME \E case \in Submitted : SubmitStart(w, case) \/ SubmitAgain(w, case)
        PROVE  UNCHANGED registryVars
    BY <2>1 DEF SubmitStart, SubmitAgain
  <2>2. ASSUME \E k \in Kinds, p \in Policy : Synchronize(w, k, p) \/ Move(w, k, p)
        PROVE  UNCHANGED registryVars
    BY <2>2 DEF Synchronize, Move, SynchronizeStart, MoveStart
  <2>3. ASSUME SubmitFind(w) \/ SubmitReserve(w) \/ SubmitResume(w) \/ SubmitAttach(w)
        PROVE  UNCHANGED registryVars
    BY <2>3 DEF SubmitFind, SubmitReserve, SubmitResume, SubmitAttach
  <2>4. ASSUME SubmitEvaluate(w) \/ MoveComplete(w) \/ Abort(w)
        PROVE  UNCHANGED registryVars
    BY <2>4 DEF SubmitEvaluate, MoveComplete, Abort
  <2> QED BY <1>5, <2>1, <2>2, <2>3, <2>4
<1>6. CASE \E k \in Kinds : \E p \in Policy, a \in approverOf[k] : Approve(k, p, a)
  BY <1>6 DEF Approve
<1>7. CASE \E c \in CampaignId, k \in Kinds : \E a \in approverOf[k] : ApproveDirectly(c, a) \/ Close(c, a)
  BY <1>7 DEF ApproveDirectly, Close
<1>8. CASE Tick \/ UNCHANGED vars
  BY <1>8 DEF Tick, vars, registryVars
<1> HIDE DEF Goal
<1> QED BY <1>1, <1>2, <1>3, <1>4, <1>5, <1>6, <1>7, <1>8 DEF Next, Progress

LEMMA ChangeIsOperation ==
  ASSUME IInv, AllAssumptions, RegistryChange
  PROVE  Operation
<1>1. CASE Fresh
  BY <1>1 DEF Fresh, Operation
<1>2. ASSUME NEW w \in Worker, Records(w)
      PROVE  Operation
  <2>1. /\ job[w].case \in Case /\ job[w].c \in CampaignId /\ job[w].case.p \in Trained
        /\ job[w].case.p \in Policy /\ job[w].case.ev \in Evidence
    BY <1>2, JobFacts, CaseFacts DEF Records, HoldingPcs, SubmitPcs, IInv, JobInv, Sound
  <2> QED BY <1>2, <2>1 DEF Records, Operation
<1>3. ASSUME NEW w \in Worker, Marks(w) \/ MovesHead(w)
      PROVE  Operation
  <2>1. job[w].p \in Policy /\ job[w].p \in Trained /\ job[w].a \in Actor
    BY <1>3, JobFacts DEF Marks, MovesHead, GovernPcs, IInv, JobInv, Sound, Operates
  <2> QED BY <1>3, <2>1 DEF Marks, MovesHead, Operation
<1> QED BY <1>1, <1>2, <1>3 DEF RegistryChange

-----------------------------------------------------------------------------
(* What every step leaves of a campaign and of a policy.                    *)
CampaignsGoOn ==
  \A c \in CampaignId : Exists(c) =>
    /\ Exists(c)' /\ camp'[c].fp = camp[c].fp
    /\ Decided(c) => Decided(c)' /\ Approvers(c)' = Approvers(c)
    /\ camp[c].state = "completed" => camp'[c].state = "completed"

LEMMA StepFacts ==
  ASSUME IInv, AllAssumptions, [Next]_vars
  PROVE  /\ GoesOn /\ CampaignsGoOn
         /\ RegistryTypeOK' /\ StatusInv' /\ FamilyInv' /\ CampaignsTypeOK' /\ ApprovalInv'
<1> USE DEF IInv, TypeOK
<1>1. RegistryInv
  BY DEF RegistryInv
<1>2. CASE UNCHANGED registryVars
  <2>1. GoesOn
    BY <1>2 DEF registryVars, GoesOn, Later, Known
  <2>2. RegistryTypeOK' /\ StatusInv' /\ FamilyInv'
    BY <1>2 DEF registryVars, RegistryTypeOK, StatusInv, StatusInvAt, FamilyInv, StateVerifies, Known
  <2>3. CASE UNCHANGED campaignVars
    <3>1. CampaignsGoOn
      BY <2>3 DEF campaignVars, CampaignsGoOn, Exists, Decided, Approvers
    <3>2. CampaignsTypeOK' /\ ApprovalInv'
      BY <2>3 DEF campaignVars, CampaignsTypeOK, ApprovalInv, ApprovalInvAt, Exists, Approvers
    <3> QED BY <2>1, <2>2, <3>1, <3>2
  <2>4. ASSUME NEW c \in CampaignId, Change(c)
        PROVE  CampaignsGoOn /\ CampaignsTypeOK' /\ ApprovalInv'
    <3>1. PICK t \in Nat : Transaction(c, t)
      BY <2>4, ChangeIsTransaction DEF Change
    <3>2. CampaignsGoOn
      BY <3>1, DecidedStays DEF CampaignsGoOn
    <3> QED BY <3>1, <3>2, TransactionType, TransactionApproval DEF AllAssumptions
  <2> QED BY <2>1, <2>2, <2>3, <2>4, StepOnCampaigns
<1>3. CASE UNCHANGED campaignVars /\ RegistryChange
  <2>1. RegistryInv' /\ GoesOn
    BY <1>1, <1>3, ChangeIsOperation, OperationStep
  <2>2. CampaignsGoOn
    BY <1>3 DEF campaignVars, CampaignsGoOn, Exists, Decided, Approvers
  <2>3. CampaignsTypeOK' /\ ApprovalInv'
    BY <1>3 DEF campaignVars, CampaignsTypeOK, ApprovalInv, ApprovalInvAt, Exists, Approvers
  <2> QED BY <2>1, <2>2, <2>3 DEF RegistryInv
<1> QED BY <1>2, <1>3, StepOnRegistry

(* A bound policy: its binding, and who had a part in it, are settled.      *)
LEMMA BindingStays ==
  ASSUME IInv, AllAssumptions, GoesOn, NEW p \in Policy, Known(p), NEW k \in Kinds,
         pol[p][k].camp # NoCampaign
  PROVE  /\ p \in Trained /\ Known(p)' /\ pol[p][k].ev # NoEvidence
         /\ pol'[p][k].camp = pol[p][k].camp /\ pol'[p][k].ev = pol[p][k].ev
         /\ CaseOf(k, p)' = CaseOf(k, p)
         /\ pol[p][k].camp \in CampaignId /\ pol[p][k].ev \in Evidence
         /\ k = "rollback" => pol[p].status \in Applied
<1>1. pol[p][k] \in Binding
  BY RecordFacts DEF IInv, TypeOK
<1>2. StatusInvAt(p)
  BY DEF IInv, StatusInv
<1>3. pol[p][k].ev # NoEvidence /\ p \in Trained /\ (k = "rollback" => pol[p].status \in Applied)
  BY <1>2 DEF StatusInvAt, Coherent, Kinds
<1>4. /\ Known(p)'
      /\ pol'[p][k].camp = pol[p][k].camp /\ pol'[p][k].ev = pol[p][k].ev
  BY <1>3 DEF GoesOn, Later, Kinds
<1> QED BY <1>1, <1>3, <1>4 DEF CaseOf, Binding

(* The people of a promotion that was carried out are settled.              *)
LEMMA PromotionStays ==
  ASSUME IInv, AllAssumptions, GoesOn, CampaignsGoOn, NEW p \in Trained, Known(p),
         pol[p].status \in Applied
  PROVE  /\ PromotionRoles(p)' = PromotionRoles(p)
         /\ Approvers(pol[p].promotion.camp)' = Approvers(pol[p].promotion.camp)
         /\ Controls("rollback", p)' = Controls("rollback", p)
         /\ \A case : case.p = p => JudgesAreApart(case)' = JudgesAreApart(case)
<1>0. p \in Policy /\ "promotion" \in Kinds
  BY DEF Trained, Kinds
<1>1. StatusInvAt(p)
  BY <1>0 DEF IInv, StatusInv
<1>2. /\ pol[p].promotion.ev # NoEvidence /\ pol[p].promotion.camp # NoCampaign
      /\ pol[p].promotion.auth # Nobody /\ pol[p].promotion.by # Nobody
  BY <1>1 DEF StatusInvAt, Applied, Coherent
<1>3. /\ pol'[p].promotion.ev = pol[p].promotion.ev
      /\ pol'[p].promotion.camp = pol[p].promotion.camp
      /\ pol'[p].promotion.auth = pol[p].promotion.auth
      /\ pol'[p].promotion.by = pol[p].promotion.by
  BY <1>0, <1>2 DEF GoesOn, Later
<1>4. PromotionRoles(p)' = PromotionRoles(p) /\ Controls("rollback", p)' = Controls("rollback", p)
  BY <1>3 DEF PromotionRoles, Controls, Judges
<1>5. BindingInvAt("promotion", p)
  BY <1>0 DEF IInv, BindingInv
<1>6. Decided(pol[p].promotion.camp) /\ pol[p].promotion.camp \in CampaignId
  BY <1>0, <1>2, <1>5, BindingStays DEF BindingInvAt
<1>7. Approvers(pol[p].promotion.camp)' = Approvers(pol[p].promotion.camp)
  BY <1>3, <1>6 DEF CampaignsGoOn, Approvers, Decided
<1>8. ASSUME NEW case, case.p = p
      PROVE  JudgesAreApart(case)' = JudgesAreApart(case)
  BY <1>3, <1>4, <1>7, <1>8 DEF JudgesAreApart, RollbackEvidence, ControlsAreApart
<1> QED BY <1>4, <1>7, <1>8

LEMMA HandsStay ==
  ASSUME IInv, AllAssumptions, GoesOn, CampaignsGoOn, NEW p \in Policy, Known(p), NEW k \in Kinds,
         pol[p][k].camp # NoCampaign
  PROVE  EarlierHands(k, p)' = EarlierHands(k, p)
<1>1. /\ p \in Trained /\ CaseOf(k, p)' = CaseOf(k, p)
      /\ k = "rollback" => pol[p].status \in Applied
  BY BindingStays
<1>2. CASE k = "promotion"
  BY <1>1, <1>2 DEF EarlierHands, Prohibited, Controls, CaseOf, Judges
<1>3. CASE k = "rollback"
  <2>1. /\ PromotionRoles(p)' = PromotionRoles(p)
        /\ Approvers(pol[p].promotion.camp)' = Approvers(pol[p].promotion.camp)
        /\ Controls("rollback", p)' = Controls("rollback", p)
    BY <1>1, <1>3, PromotionStays
  <2>2. /\ EarlierHands(k, p) = PromotionRoles(p) \cup Approvers(pol[p].promotion.camp)
                                  \cup Judges(pol[p].rollback.ev) \cup Controls("rollback", p)
        /\ EarlierHands(k, p)' = PromotionRoles(p)' \cup Approvers(pol[p].promotion.camp)'
                                   \cup Judges(pol[p].rollback.ev)' \cup Controls("rollback", p)'
    BY <1>3 DEF EarlierHands, Prohibited, CaseOf
  <2>3. Judges(pol[p].rollback.ev)' = Judges(pol[p].rollback.ev)
    BY <1>1, <1>3 DEF CaseOf, Judges
  <2> QED BY <2>1, <2>2, <2>3
<1> QED BY <1>2, <1>3 DEF Kinds

-----------------------------------------------------------------------------
(* Campaigns and bindings *)

LEMMA BoundStays ==
  ASSUME IInv, AllAssumptions, GoesOn, NEW c \in CampaignId, NEW case \in Case, IsBoundTo(c, case)
  PROVE  IsBoundTo(c, case)'
<1>1. case.p \in Policy /\ case.kind \in Kinds /\ c # NoCampaign
  BY CaseFacts DEF AllAssumptions, LocalPolicyAssumption
<1> QED BY <1>1, BindingStays DEF IsBoundTo

LEMMA FinalStays ==
  ASSUME GoesOn, NEW p \in Policy, Known(p), NEW k \in Kinds, pol[p].status \in Final(k)
  PROVE  pol'[p].status \in Final(k)
BY DEF GoesOn, Final, Kinds

LEMMA CampaignInvariants ==
  ASSUME IInv, AllAssumptions, [Next]_vars
  PROVE  ShellInv' /\ RevisionInv'
<1>1. CASE \E c \in CampaignId : UNCHANGED registryVars /\ Change(c)
  BY <1>1, ShellStep, RevisionStep DEF IInv, Change
<1>2. CASE UNCHANGED campaignVars
  <2>0. camp' = camp /\ approvals' = approvals /\ GoesOn
    BY <1>2, StepFacts DEF campaignVars
  <2>1. RevisionInv'
    BY <2>0 DEF IInv, RevisionInv, RevisionInvAt, Exists, Approvers
  <2>2. ASSUME NEW c \in CampaignId, Exists(c)
        PROVE  ShellInvAt(c)'
    <3> DEFINE case == camp[c].fp
    <3>1. ShellInvAt(c) /\ case \in Case /\ case.p \in Trained /\ case.p \in Policy /\ case.kind \in Kinds
      BY <2>2, CaseFacts DEF IInv, ShellInv, ShellInvAt
    <3>2. IsBoundTo(c, case) => IsBoundTo(c, case)'
      BY <2>0, <3>1, BoundStays
    <3>3. camp[c].state = "completed" => pol'[case.p].status \in Final(case.kind)
      <4>1. camp[c].state = "completed" => Known(case.p) /\ pol[case.p].status \in Final(case.kind)
        BY <2>2, <3>1 DEF ShellInvAt, IsBoundTo
      <4> QED BY <2>0, <3>1, <4>1, FinalStays
    <3>4. Approvers(c)' = Approvers(c)
      BY <2>0 DEF Approvers
    <3> QED BY <2>0, <2>2, <3>1, <3>2, <3>3, <3>4 DEF ShellInvAt
  <2>3. ASSUME NEW c \in CampaignId, ~Exists(c)
        PROVE  ShellInvAt(c)'
    BY <2>0, <2>3 DEF ShellInvAt, Exists
  <2> QED BY <2>1, <2>2, <2>3 DEF ShellInv
<1> QED BY <1>1, <1>2, StepOnCampaigns

LEMMA JudgesStay ==
  ASSUME IInv, AllAssumptions, GoesOn, CampaignsGoOn, NEW p \in Policy, Known(p),
         pol[p]["rollback"].camp # NoCampaign, JudgesAreApart(CaseOf("rollback", p))
  PROVE  JudgesAreApart(CaseOf("rollback", p))'
<1>1. "rollback" \in Kinds
  BY DEF Kinds
<1>2. p \in Trained /\ CaseOf("rollback", p)' = CaseOf("rollback", p) /\ pol[p].status \in Applied
  BY <1>1, BindingStays
<1>3. PICK case : case = CaseOf("rollback", p)
  OBVIOUS
<1>4. JudgesAreApart(case)'
  BY <1>2, <1>3, PromotionStays DEF CaseOf
<1> QED BY <1>2, <1>3, <1>4 DEF JudgesAreApart, RollbackEvidence, ControlsAreApart

(* A binding that the step does not touch, ...                              *)
LEMMA UntouchedBinding ==
  ASSUME IInv, AllAssumptions, [Next]_vars, NEW p \in Trained, Known(p), NEW k \in Kinds,
         pol'[p][k] = pol[p][k]
  PROVE  BindingInvAt(k, p)'
<1>0. GoesOn /\ CampaignsGoOn /\ p \in Policy
  BY StepFacts DEF Trained
<1>1. BindingInvAt(k, p) /\ pol[p][k] \in Binding /\ StatusInvAt(p)
  BY <1>0, RecordFacts DEF IInv, TypeOK, BindingInv, StatusInv
<1> DEFINE b == pol[p][k]
<1>2. CASE b.camp = NoCampaign
  <2>1. b.auth = Nobody /\ b.by = Nobody
    BY <1>1, <1>2 DEF StatusInvAt, Coherent, Kinds
  <2> QED BY <1>2, <2>1 DEF BindingInvAt
<1>3. CASE b.camp # NoCampaign
  <2>1. /\ b.camp \in CampaignId /\ CaseOf(k, p)' = CaseOf(k, p)
        /\ EarlierHands(k, p)' = EarlierHands(k, p)
        /\ k = "rollback" => pol[p].status \in Applied
    BY <1>0, <1>3, BindingStays, HandsStay
  <2>2. Exists(b.camp)' /\ camp'[b.camp].fp = camp[b.camp].fp
    BY <1>0, <1>1, <1>3, <2>1 DEF BindingInvAt, CampaignsGoOn
  <2>3. k = "rollback" => JudgesAreApart(CaseOf(k, p))'
    BY <1>0, <1>1, <1>3, JudgesStay DEF BindingInvAt
  <2>4. b.auth # Nobody \/ b.by # Nobody =>
          b.auth # Nobody /\ Decided(b.camp)' /\ Approvers(b.camp)' = Approvers(b.camp)
    <3>1. b.by # Nobody => b.auth # Nobody
      BY <1>1 DEF StatusInvAt, Coherent, Kinds
    <3> QED BY <1>0, <1>1, <2>1, <3>1 DEF BindingInvAt, CampaignsGoOn, Decided
  <2>5. pol'[p][k].camp = b.camp /\ pol'[p][k].auth = b.auth /\ pol'[p][k].by = b.by
    OBVIOUS
  <2> QED BY <1>1, <1>3, <2>1, <2>2, <2>3, <2>4, <2>5 DEF BindingInvAt
<1> QED BY <1>2, <1>3

LEMMA Written ==
  ASSUME RegistryTypeOK, NEW p \in Policy, Known(p), NEW status \in Statuses,
         NEW b \in Binding, NEW d \in Binding, Writes(p, status, b, d)
  PROVE  /\ pol'[p].status = status /\ pol'[p].promotion = b /\ pol'[p].rollback = d
         /\ \A q \in Policy : q # p => pol'[q] = pol[q]
         /\ \A q \in Policy : Known(q)' <=> Known(q)
BY ContentFields DEF Writes, RegistryTypeOK, Known

LEMMA Moved ==
  ASSUME RegistryTypeOK, AllAssumptions, NEW p \in Trained, Known(p), Known(base[p]),
         NEW status \in Statuses, NEW under \in Statuses, NEW b \in Binding, NEW d \in Binding,
         Moves(p, base[p], Content(status, b, d), under)
  PROVE  /\ pol'[p].status = status /\ pol'[p].promotion = b /\ pol'[p].rollback = d
         /\ \A q \in Policy : q # p => pol'[q].promotion = pol[q].promotion
                                       /\ pol'[q].rollback = pol[q].rollback
         /\ \A q \in Policy : q # p /\ q # base[p] => pol'[q] = pol[q]
         /\ pol'[base[p]].status = under
         /\ \A q \in Policy : Known(q)' <=> Known(q)
<1>0. p \in Policy /\ base[p] \in Policy /\ base[p] # p
  BY DEF Trained, AllAssumptions, LocalPolicyAssumption
<1>1. pol[base[p]].promotion \in Binding /\ pol[base[p]].rollback \in Binding
  BY <1>0, RecordFacts
<1>2. /\ pol'[p] = Content(status, b, d)
      /\ pol'[base[p]] = Content(under, pol[base[p]].promotion, pol[base[p]].rollback)
      /\ \A q \in Policy : q # p /\ q # base[p] => pol'[q] = pol[q]
  BY <1>0 DEF Moves, RegistryTypeOK
<1>3. Content(status, b, d) # NoRecord
      /\ Content(under, pol[base[p]].promotion, pol[base[p]].rollback) # NoRecord
  BY <1>1, ContentFields
<1> QED BY <1>0, <1>1, <1>2, <1>3, ContentFields DEF Known

(* The events that record the evidence of a change, authorize it and carry  *)
(* it out.                                                                  *)
SubmitEvent(k, p) == IF k = "rollback" THEN "rollback_submitted"
                     ELSE IF p \in promotable THEN "evaluated" ELSE "rejected"
AuthEvent(k) == IF k = "promotion" THEN "authorized" ELSE "rollback_authorized"
MoveEvent(k) == IF k = "promotion" THEN "activated" ELSE "rolled_back"

LEMMA RecordEffect ==
  ASSUME IInv, AllAssumptions, NEW w \in Worker, Records(w),
         NEW p \in Policy, NEW k \in Kinds, NEW ev \in Evidence, NEW c \in CampaignId,
         p = job[w].case.p, k = job[w].case.kind, ev = job[w].case.ev, c = job[w].c
  PROVE  /\ p \in Trained /\ Known(p)
         /\ pol[p][k].ev = NoEvidence
         /\ pol'[p][k].ev = ev /\ pol'[p][k].camp = c
         /\ pol'[p][k].auth = Nobody /\ pol'[p][k].by = Nobody
         /\ \A j \in Kinds : j # k => pol'[p][j] = pol[p][j]
         /\ \A q \in Policy : q # p => pol'[q] = pol[q]
         /\ \A q \in Policy : Known(q)' <=> Known(q)
         /\ Logs(SubmitEvent(k, p), p)
         /\ IF k = "promotion" THEN pol'[p].status = "rejected" <=> p \notin promotable
                               ELSE pol[p].status = "active"
<1>0. (\A a \in Actor : a # Nobody) /\ (\A e \in Evidence : e # NoEvidence) /\ NoCampaign \notin CampaignId
  BY DEF AllAssumptions, LocalPolicyAssumption
<1>1. /\ RegistryTypeOK /\ p \in Trained /\ Known(p)
  BY DEF Records, SubmitPcs, IInv, TypeOK, JobInv, Sound
<1>2. /\ pol[p] \in Record /\ pol[p].promotion \in Binding /\ pol[p].rollback \in Binding
      /\ pol[p][k] \in Binding /\ StatusInvAt(p)
  BY <1>1, RecordFacts DEF IInv, StatusInv
<1>3. CASE k = "promotion"
  <2>1. PICK status \in {"evaluated", "rejected"} :
          /\ status = "rejected" <=> p \notin promotable
          /\ Writes(p, status, With(pol[p].promotion, ev, c), pol[p].rollback)
          /\ Logs(status, p) /\ pol[p].status = "candidate"
    BY <1>3 DEF Records, BindsPromotion
  <2>2. status \in Statuses /\ With(pol[p].promotion, ev, c) \in Binding
    BY <1>1, <1>2, BoundFields DEF Statuses
  <2>3. /\ pol[p].promotion.auth = Nobody /\ pol[p].promotion.by = Nobody
        /\ pol[p].promotion.ev = NoEvidence
    BY <1>1, <1>2, <2>1 DEF StatusInvAt, Applied
  <2>4. Logs(SubmitEvent(k, p), p)
    BY <1>3, <2>1 DEF SubmitEvent
  <2>5. /\ pol'[p].promotion = With(pol[p].promotion, ev, c) /\ pol'[p].rollback = pol[p].rollback
        /\ pol'[p].status = status
        /\ \A q \in Policy : q # p => pol'[q] = pol[q]
        /\ \A q \in Policy : Known(q)' <=> Known(q)
    BY <1>1, <1>2, <2>1, <2>2, Written
  <2>6. /\ pol'[p].promotion.ev = ev /\ pol'[p].promotion.camp = c
        /\ pol'[p].promotion.auth = Nobody /\ pol'[p].promotion.by = Nobody
    <3>1. pol[p].promotion \in Binding
      BY <1>2
    <3> QED BY <2>3, <2>5, <3>1, BoundFields
  <2>7. \A j \in Kinds : j # k => j = "rollback"
    BY <1>3 DEF Kinds
  <2>8. \A j \in Kinds : j # k => pol'[p][j] = pol[p][j]
    <3>1. pol'[p]["rollback"] = pol[p]["rollback"]
      BY <2>5
    <3> QED BY <2>7, <3>1
  <2>9. pol[p][k].ev = NoEvidence
    BY <1>3, <2>3
  <2>10. /\ pol'[p][k].ev = ev /\ pol'[p][k].camp = c
         /\ pol'[p][k].auth = Nobody /\ pol'[p][k].by = Nobody
    BY <1>3, <2>6
  <2> QED BY <1>1, <1>3, <2>1, <2>4, <2>5, <2>8, <2>9, <2>10
<1>4. CASE k = "rollback"
  <2>1. /\ Writes(p, "active", pol[p].promotion, With(pol[p].rollback, ev, c))
        /\ Logs("rollback_submitted", p)
        /\ pol[p].rollback.ev = NoEvidence /\ pol[p].status = "active"
    BY <1>4 DEF Records, BindsRollback
  <2>2. "active" \in Statuses /\ With(pol[p].rollback, ev, c) \in Binding
    BY <1>1, <1>2, BoundFields DEF Statuses
  <2>3. pol[p].rollback.auth = Nobody /\ pol[p].rollback.by = Nobody
    BY <1>1, <1>2, <2>1 DEF StatusInvAt, Coherent
  <2>4. Logs(SubmitEvent(k, p), p)
    BY <1>4, <2>1 DEF SubmitEvent
  <2>5. /\ pol'[p].promotion = pol[p].promotion /\ pol'[p].rollback = With(pol[p].rollback, ev, c)
        /\ \A q \in Policy : q # p => pol'[q] = pol[q]
        /\ \A q \in Policy : Known(q)' <=> Known(q)
    BY <1>1, <1>2, <2>1, <2>2, Written
  <2>6. /\ pol'[p].rollback.ev = ev /\ pol'[p].rollback.camp = c
        /\ pol'[p].rollback.auth = Nobody /\ pol'[p].rollback.by = Nobody
    <3>1. pol[p].rollback \in Binding
      BY <1>2
    <3> QED BY <2>3, <2>5, <3>1, BoundFields
  <2>7. \A j \in Kinds : j # k => j = "promotion"
    BY <1>4 DEF Kinds
  <2>8. \A j \in Kinds : j # k => pol'[p][j] = pol[p][j]
    <3>1. pol'[p]["promotion"] = pol[p]["promotion"]
      BY <2>5
    <3> QED BY <2>7, <3>1
  <2>9. pol[p][k].ev = NoEvidence
    BY <1>4, <2>1
  <2>10. /\ pol'[p][k].ev = ev /\ pol'[p][k].camp = c
         /\ pol'[p][k].auth = Nobody /\ pol'[p][k].by = Nobody
    BY <1>4, <2>6
  <2> QED BY <1>1, <1>4, <2>1, <2>4, <2>5, <2>8, <2>9, <2>10
<1> QED BY <1>3, <1>4 DEF Kinds

LEMMA MarkEffect ==
  ASSUME IInv, AllAssumptions, NEW w \in Worker, Marks(w),
         NEW p \in Policy, NEW k \in Kinds, NEW a \in Actor,
         p = job[w].p, k = job[w].k, a = job[w].a
  PROVE  /\ p \in Trained /\ Known(p)
         /\ pol[p][k].auth = Nobody /\ pol[p][k].ev # NoEvidence
         /\ pol'[p][k].ev = pol[p][k].ev /\ pol'[p][k].camp = pol[p][k].camp
         /\ pol'[p][k].auth = a /\ pol'[p][k].by = Nobody
         /\ \A j \in Kinds : j # k => pol'[p][j] = pol[p][j]
         /\ \A q \in Policy : q # p => pol'[q] = pol[q]
         /\ \A q \in Policy : Known(q)' <=> Known(q)
         /\ Logs(AuthEvent(k), p)
         /\ pol[p].status \in {"evaluated", "active"}
<1>1. /\ RegistryTypeOK /\ p \in Trained /\ Known(p) /\ pol[p][k].camp \in CampaignId
  BY JobFacts DEF Marks, GovernPcs, IInv, TypeOK, JobInv, Sound, Operates
<1>2. /\ pol[p].promotion \in Binding /\ pol[p].rollback \in Binding /\ pol[p][k] \in Binding
      /\ StatusInvAt(p) /\ {"authorized", "active"} \subseteq Statuses
  BY <1>1, RecordFacts DEF IInv, StatusInv, Statuses
<1>3. pol[p][k].ev # NoEvidence
  BY <1>1, <1>2 DEF StatusInvAt, Coherent, Kinds, AllAssumptions, LocalPolicyAssumption
<1>4. /\ pol[p][k].auth = Nobody
      /\ pol'[p][k] = AuthorizedBy(pol[p][k], a)
      /\ \A j \in Kinds : j # k => pol'[p][j] = pol[p][j]
      /\ \A q \in Policy : q # p => pol'[q] = pol[q]
      /\ \A q \in Policy : Known(q)' <=> Known(q)
      /\ Logs(AuthEvent(k), p) /\ pol[p].status \in {"evaluated", "active"}
  <2>1. CASE k = "promotion"
    <3>1. /\ Writes(p, "authorized", AuthorizedBy(pol[p].promotion, a), pol[p].rollback)
          /\ pol[p].promotion.auth = Nobody /\ pol[p].status = "evaluated"
          /\ Logs("authorized", p)
      BY <2>1 DEF Marks, AuthorizesPromotion
    <3>2. AuthorizedBy(pol[p].promotion, a) \in Binding
      BY <1>2, SignedFields
    <3>3. Logs(AuthEvent(k), p)
      BY <2>1, <3>1 DEF AuthEvent
    <3>4. /\ pol'[p].promotion = AuthorizedBy(pol[p].promotion, a)
          /\ pol'[p].rollback = pol[p].rollback
          /\ \A q \in Policy : q # p => pol'[q] = pol[q]
          /\ \A q \in Policy : Known(q)' <=> Known(q)
      BY <1>1, <1>2, <3>1, <3>2, Written
    <3> QED BY <2>1, <3>1, <3>3, <3>4 DEF Kinds
  <2>2. CASE k = "rollback"
    <3>1. /\ Writes(p, "active", pol[p].promotion, AuthorizedBy(pol[p].rollback, a))
          /\ pol[p].rollback.auth = Nobody /\ pol[p].status = "active"
          /\ Logs("rollback_authorized", p)
      BY <2>2 DEF Marks, AuthorizesRollback
    <3>2. AuthorizedBy(pol[p].rollback, a) \in Binding
      BY <1>2, SignedFields
    <3>3. Logs(AuthEvent(k), p)
      BY <2>2, <3>1 DEF AuthEvent
    <3>4. /\ pol'[p].promotion = pol[p].promotion
          /\ pol'[p].rollback = AuthorizedBy(pol[p].rollback, a)
          /\ \A q \in Policy : q # p => pol'[q] = pol[q]
          /\ \A q \in Policy : Known(q)' <=> Known(q)
      BY <1>1, <1>2, <3>1, <3>2, Written
    <3> QED BY <2>2, <3>1, <3>3, <3>4 DEF Kinds
  <2> QED BY <2>1, <2>2 DEF Kinds
<1>5. pol[p][k].by = Nobody
  BY <1>2, <1>4 DEF StatusInvAt, Coherent, Kinds
<1> QED BY <1>1, <1>2, <1>3, <1>4, <1>5, SignedFields

LEMMA MoveEffect ==
  ASSUME IInv, AllAssumptions, NEW w \in Worker, MovesHead(w),
         NEW p \in Policy, NEW k \in Kinds, NEW a \in Actor,
         p = job[w].p, k = job[w].k, a = job[w].a
  PROVE  /\ p \in Trained /\ Known(p)
         /\ pol[p][k].auth # Nobody /\ pol[p][k].ev # NoEvidence /\ pol[p][k].by = Nobody
         /\ pol'[p][k].ev = pol[p][k].ev /\ pol'[p][k].camp = pol[p][k].camp
         /\ pol'[p][k].auth = pol[p][k].auth /\ pol'[p][k].by = a
         /\ \A j \in Kinds : j # k => pol'[p][j] = pol[p][j]
         /\ \A q \in Policy : q # p => pol'[q].promotion = pol[q].promotion
                                       /\ pol'[q].rollback = pol[q].rollback
         /\ \A q \in Policy : q # p => pol'[q] = pol[q] \/ pol[q].status \in Applied
         /\ \A q \in Policy : Known(q)' <=> Known(q)
         /\ Logs(MoveEvent(k), p)
         /\ pol[p].status \in {"authorized", "active"} \ Final(k) /\ pol'[p].status \in Final(k)
<1>1. /\ RegistryTypeOK /\ p \in Trained /\ Known(p) /\ pol[p][k].camp \in CampaignId
  BY JobFacts DEF MovesHead, GovernPcs, IInv, TypeOK, JobInv, Sound, Operates
<1>2. /\ pol[p].promotion \in Binding /\ pol[p].rollback \in Binding /\ pol[p][k] \in Binding
      /\ StatusInvAt(p) /\ {"superseded", "rolled_back", "active"} \subseteq Statuses
  BY <1>1, RecordFacts DEF IInv, StatusInv, Statuses
<1>3. pol[p][k].ev # NoEvidence
  BY <1>1, <1>2 DEF StatusInvAt, Coherent, Kinds, AllAssumptions, LocalPolicyAssumption
<1>4. /\ pol[p][k].auth # Nobody /\ pol[p][k].by = Nobody
      /\ pol'[p][k] = ExecutedBy(pol[p][k], a)
      /\ \A j \in Kinds : j # k => pol'[p][j] = pol[p][j]
      /\ \A q \in Policy : q # p => pol'[q].promotion = pol[q].promotion
                                    /\ pol'[q].rollback = pol[q].rollback
      /\ \A q \in Policy : q # p => pol'[q] = pol[q] \/ pol[q].status \in Applied
      /\ \A q \in Policy : Known(q)' <=> Known(q)
      /\ Logs(MoveEvent(k), p)
      /\ pol[p].status \in {"authorized", "active"} \ Final(k) /\ pol'[p].status \in Final(k)
  <2>1. CASE k = "promotion"
    <3>1. /\ Moves(p, base[p], Content("active", ExecutedBy(pol[p].promotion, a), pol[p].rollback),
                   "superseded")
          /\ Known(base[p]) /\ pol[p].status = "authorized" /\ Logs("activated", p)
          /\ pol[base[p]].status = "active"
      BY <2>1 DEF MovesHead, Activates
    <3>2. ExecutedBy(pol[p].promotion, a) \in Binding
      BY <1>2, SignedFields
    <3>3. pol[p].promotion.auth # Nobody /\ pol[p].promotion.by = Nobody
      BY <1>1, <1>2, <3>1 DEF StatusInvAt, Applied
    <3>4. Logs(MoveEvent(k), p)
      BY <2>1, <3>1 DEF MoveEvent
    <3>5. /\ pol'[p].status = "active" /\ pol'[p].promotion = ExecutedBy(pol[p].promotion, a)
          /\ pol'[p].rollback = pol[p].rollback
          /\ \A q \in Policy : q # p => pol'[q].promotion = pol[q].promotion
                                        /\ pol'[q].rollback = pol[q].rollback
          /\ \A q \in Policy : q # p /\ q # base[p] => pol'[q] = pol[q]
          /\ \A q \in Policy : Known(q)' <=> Known(q)
      BY <1>1, <1>2, <3>1, <3>2, Moved
    <3>6. /\ pol[p].status \in {"authorized", "active"} \ Final(k) /\ pol'[p].status \in Final(k)
          /\ pol[base[p]].status \in Applied
      BY <2>1, <3>1, <3>5 DEF Final, Applied
    <3> QED BY <2>1, <3>3, <3>4, <3>5, <3>6 DEF Kinds
  <2>2. CASE k = "rollback"
    <3>1. /\ Moves(p, base[p], Content("rolled_back", pol[p].promotion, ExecutedBy(pol[p].rollback, a)),
                   "active")
          /\ Known(base[p]) /\ pol[p].rollback.auth # Nobody /\ Logs("rolled_back", p)
          /\ pol[p].status = "active" /\ pol[base[p]].status = "superseded"
      BY <2>2 DEF MovesHead, RollsBack, MayRollBack
    <3>2. ExecutedBy(pol[p].rollback, a) \in Binding
      BY <1>2, SignedFields
    <3>3. pol[p].rollback.by = Nobody
      BY <1>1, <1>2, <3>1 DEF StatusInvAt
    <3>4. Logs(MoveEvent(k), p)
      BY <2>2, <3>1 DEF MoveEvent
    <3>5. /\ pol'[p].status = "rolled_back" /\ pol'[p].rollback = ExecutedBy(pol[p].rollback, a)
          /\ pol'[p].promotion = pol[p].promotion
          /\ \A q \in Policy : q # p => pol'[q].promotion = pol[q].promotion
                                        /\ pol'[q].rollback = pol[q].rollback
          /\ \A q \in Policy : q # p /\ q # base[p] => pol'[q] = pol[q]
          /\ \A q \in Policy : Known(q)' <=> Known(q)
      BY <1>1, <1>2, <3>1, <3>2, Moved
    <3>6. /\ pol[p].status \in {"authorized", "active"} \ Final(k) /\ pol'[p].status \in Final(k)
          /\ pol[base[p]].status \in Applied
      BY <2>2, <3>1, <3>5 DEF Final, Applied
    <3> QED BY <2>2, <3>1, <3>3, <3>4, <3>5, <3>6 DEF Kinds
  <2> QED BY <2>1, <2>2 DEF Kinds
<1> QED BY <1>1, <1>2, <1>3, <1>4, SignedFields

(* ... one that is made, ...                                                *)
LEMMA RecordedBinding ==
  ASSUME IInv, AllAssumptions, [Next]_vars, UNCHANGED campaignVars, NEW w \in Worker, Records(w)
  PROVE  /\ BindingInv'
         /\ \A case \in Case, c \in CampaignId :
              case = job[w].case /\ c = job[w].c => IsBoundTo(c, case)'
<1>1. PICK case \in Case, c \in CampaignId, p \in Policy, k \in Kinds, ev \in Evidence :
        /\ case = job[w].case /\ c = job[w].c
        /\ p = case.p /\ k = case.kind /\ ev = case.ev
  BY JobFacts, CaseFacts DEF Records, HoldingPcs, SubmitPcs, IInv
<1>2. /\ Exists(c) /\ camp[c].fp = case
      /\ k = "rollback" => pol[p].status \in Applied /\ JudgesAreApart(case)
  BY <1>1 DEF Records, HoldingPcs, SubmitPcs, IInv, TypeOK, JobInv, Sound
<1>3. /\ p \in Trained /\ Known(p)
      /\ pol'[p][k].ev = ev /\ pol'[p][k].camp = c
      /\ pol'[p][k].auth = Nobody /\ pol'[p][k].by = Nobody
      /\ \A j \in Kinds : j # k => pol'[p][j] = pol[p][j]
      /\ \A q \in Policy : q # p => pol'[q] = pol[q]
      /\ \A q \in Policy : Known(q)' <=> Known(q)
  BY <1>1, RecordEffect
<1>4. CaseOf(k, p)' = case
  <2>1. case = [kind |-> case.kind, p |-> case.p, ev |-> case.ev]
    BY DEF Case
  <2> QED BY <1>1, <1>3, <2>1 DEF CaseOf
<1>5. BindingInvAt(k, p)'
  <2>1. Exists(c)' /\ camp'[c].fp = case
    BY <1>2 DEF campaignVars, Exists
  <2>2. k = "rollback" => JudgesAreApart(case)'
    BY <1>1, <1>2, <1>3, PromotionStays, StepFacts
  <2>3. ASSUME k = "rollback"
        PROVE  JudgesAreApart(CaseOf(k, p))'
    BY <1>4, <2>2, <2>3 DEF JudgesAreApart, RollbackEvidence, ControlsAreApart
  <2> QED BY <1>3, <1>4, <2>1, <2>3 DEF BindingInvAt
<1>6. ASSUME NEW q \in Trained, NEW j \in Kinds, Known(q)', ~(q = p /\ j = k)
      PROVE  BindingInvAt(j, q)'
  <2>1. q \in Policy
    BY DEF Trained
  <2>2. Known(q) /\ pol'[q][j] = pol[q][j]
    BY <1>3, <1>6, <2>1
  <2> QED BY <2>2, UntouchedBinding
<1>7. IsBoundTo(c, case)'
  BY <1>1, <1>3 DEF IsBoundTo
<1>8. BindingInv'
  BY <1>5, <1>6 DEF BindingInv
<1> QED BY <1>1, <1>7, <1>8

(* ... one that is signed by its authorizer, ...                            *)
LEMMA MarkedBinding ==
  ASSUME IInv, AllAssumptions, [Next]_vars, UNCHANGED campaignVars, NEW w \in Worker, Marks(w)
  PROVE  BindingInv'
<1>1. PICK p \in Policy, k \in Kinds, c \in CampaignId, a \in Actor :
        /\ p = job[w].p /\ k = job[w].k /\ c = job[w].c /\ a = job[w].a
  BY JobFacts DEF Marks, GovernPcs, IInv
<1>2. /\ pol[p][k].camp = c /\ Decided(c)
      /\ a \notin EarlierHands(k, p) \cup Approvers(c)
      /\ Cardinality(Approvers(c)) = 2 /\ Approvers(c) \cap EarlierHands(k, p) = {}
  BY <1>1 DEF Marks, GovernPcs, IInv, TypeOK, JobInv, Sound, Operates
<1>3. /\ p \in Trained /\ Known(p)
      /\ pol'[p][k].ev = pol[p][k].ev /\ pol'[p][k].camp = c
      /\ pol'[p][k].auth = a /\ pol'[p][k].by = Nobody
      /\ \A j \in Kinds : j # k => pol'[p][j] = pol[p][j]
      /\ \A q \in Policy : q # p => pol'[q] = pol[q]
      /\ \A q \in Policy : Known(q)' <=> Known(q)
  BY <1>1, <1>2, MarkEffect
<1>4. BindingInvAt(k, p)
  BY <1>3 DEF IInv, BindingInv
<1>5. BindingInvAt(k, p)'
  <2>0. c # NoCampaign /\ GoesOn /\ CampaignsGoOn
    BY StepFacts DEF AllAssumptions, LocalPolicyAssumption
  <2>1. CaseOf(k, p)' = CaseOf(k, p) /\ EarlierHands(k, p)' = EarlierHands(k, p)
        /\ (k = "rollback" => pol[p].status \in Applied)
    BY <1>2, <1>3, <2>0, BindingStays, HandsStay
  <2>2. /\ Exists(c)' /\ camp'[c].fp = camp[c].fp /\ Decided(c)' /\ Approvers(c)' = Approvers(c)
        /\ camp[c].fp = CaseOf(k, p)
    BY <1>2, <1>4, <2>0 DEF CampaignsGoOn, Decided, BindingInvAt
  <2>3. k = "rollback" => JudgesAreApart(CaseOf(k, p))'
    BY <1>2, <1>3, <1>4, <2>0, JudgesStay DEF BindingInvAt
  <2> QED BY <1>2, <1>3, <2>1, <2>2, <2>3 DEF BindingInvAt
<1>6. ASSUME NEW q \in Trained, NEW j \in Kinds, Known(q)', ~(q = p /\ j = k)
      PROVE  BindingInvAt(j, q)'
  <2>1. q \in Policy
    BY DEF Trained
  <2>2. Known(q) /\ pol'[q][j] = pol[q][j]
    BY <1>3, <1>6, <2>1
  <2> QED BY <2>2, UntouchedBinding
<1> QED BY <1>5, <1>6 DEF BindingInv

(* ... and one that is carried out.                                         *)
LEMMA MovedBinding ==
  ASSUME IInv, AllAssumptions, [Next]_vars, UNCHANGED campaignVars, NEW w \in Worker, MovesHead(w)
  PROVE  /\ BindingInv'
         /\ pol'[job[w].p].status \in Final(job[w].k)
<1>1. PICK p \in Policy, k \in Kinds, c \in CampaignId, a \in Actor :
        /\ p = job[w].p /\ k = job[w].k /\ c = job[w].c /\ a = job[w].a
  BY JobFacts DEF MovesHead, GovernPcs, IInv
<1>2. /\ pol[p][k].camp = c /\ Decided(c)
      /\ a \notin EarlierHands(k, p) \cup Approvers(c)
  BY <1>1 DEF MovesHead, GovernPcs, IInv, TypeOK, JobInv, Sound, Operates
<1>3. /\ p \in Trained /\ Known(p)
      /\ pol[p][k].auth # Nobody
      /\ pol'[p][k].ev = pol[p][k].ev /\ pol'[p][k].camp = c
      /\ pol'[p][k].auth = pol[p][k].auth /\ pol'[p][k].by = a
      /\ \A j \in Kinds : j # k => pol'[p][j] = pol[p][j]
      /\ \A q \in Policy : q # p => pol'[q].promotion = pol[q].promotion
                                    /\ pol'[q].rollback = pol[q].rollback
      /\ \A q \in Policy : Known(q)' <=> Known(q)
      /\ pol'[p].status \in Final(k)
  BY <1>1, <1>2, MoveEffect
<1>4. BindingInvAt(k, p)
  BY <1>3 DEF IInv, BindingInv
<1>5. BindingInvAt(k, p)'
  <2>0. c # NoCampaign /\ GoesOn /\ CampaignsGoOn
    BY StepFacts DEF AllAssumptions, LocalPolicyAssumption
  <2>1. CaseOf(k, p)' = CaseOf(k, p) /\ EarlierHands(k, p)' = EarlierHands(k, p)
        /\ (k = "rollback" => pol[p].status \in Applied)
    BY <1>2, <1>3, <2>0, BindingStays, HandsStay
  <2>2. /\ Exists(c)' /\ camp'[c].fp = camp[c].fp /\ Decided(c)' /\ Approvers(c)' = Approvers(c)
        /\ camp[c].fp = CaseOf(k, p)
    BY <1>2, <1>4, <2>0 DEF CampaignsGoOn, Decided, BindingInvAt
  <2>3. k = "rollback" => JudgesAreApart(CaseOf(k, p))'
    BY <1>2, <1>3, <1>4, <2>0, JudgesStay DEF BindingInvAt
  <2> QED BY <1>2, <1>3, <1>4, <2>0, <2>1, <2>2, <2>3 DEF BindingInvAt
<1>6. ASSUME NEW q \in Trained, NEW j \in Kinds, Known(q)', ~(q = p /\ j = k)
      PROVE  BindingInvAt(j, q)'
  <2>1. q \in Policy
    BY DEF Trained
  <2>2. Known(q) /\ pol'[q][j] = pol[q][j]
    BY <1>3, <1>6, <2>1 DEF Kinds
  <2> QED BY <2>2, UntouchedBinding
<1>7. BindingInv'
  BY <1>5, <1>6 DEF BindingInv
<1> QED BY <1>1, <1>3, <1>7

LEMMA BindingStep ==
  ASSUME IInv, AllAssumptions, [Next]_vars
  PROVE  BindingInv'
<1>1. CASE UNCHANGED registryVars
  <2>1. ASSUME NEW q \in Trained, NEW j \in Kinds, Known(q)'
        PROVE  BindingInvAt(j, q)'
    BY <1>1, <2>1, UntouchedBinding DEF registryVars, Known
  <2> QED BY <2>1 DEF BindingInv
<1>2. ASSUME NEW p \in Policy, RegisterInitial(p) \/ AdmitCandidate(p)
      PROVE  BindingInv'
  <2>1. pol[p] = NoRecord
    BY <1>2 DEF RegisterInitial, AdmitCandidate, IInv, FamilyInv
  <2>2. PICK status : pol' = [pol EXCEPT ![p] = NewRecord(status)]
    BY <1>2 DEF RegisterInitial, AdmitCandidate
  <2>3. pol'[p].promotion = Unbound /\ pol'[p].rollback = Unbound
        /\ \A q \in Policy : q # p => pol'[q] = pol[q]
    BY <2>2 DEF NewRecord, IInv, TypeOK, RegistryTypeOK
  <2>4. \A j \in Kinds : BindingInvAt(j, p)'
    BY <2>3 DEF BindingInvAt, Unbound, Kinds
  <2>5. ASSUME NEW q \in Trained, NEW j \in Kinds, Known(q)', q # p
        PROVE  BindingInvAt(j, q)'
    <3>1. q \in Policy
      BY DEF Trained
    <3> QED BY <2>3, <2>5, <3>1, UntouchedBinding DEF Known
  <2> QED BY <2>4, <2>5 DEF BindingInv
<1>3. CASE UNCHANGED campaignVars /\ RegistryChange
  BY <1>2, <1>3, RecordedBinding, MarkedBinding, MovedBinding DEF RegistryChange, Fresh
<1> QED BY <1>1, <1>3, StepOnRegistry

-----------------------------------------------------------------------------
(* The calls *)

(* What a call relies on stays true, whatever the others do.                *)
LEMMA SoundStays ==
  ASSUME IInv, AllAssumptions, [Next]_vars, NEW j \in Jobs \cup {Idle}, Sound(j)
  PROVE  Sound(j)'
<1>0. GoesOn /\ CampaignsGoOn /\ NoCampaign \notin CampaignId
  BY StepFacts DEF AllAssumptions, LocalPolicyAssumption
<1>1. /\ j.pc \in SubmitPcs => j.case \in Case
      /\ j.pc \in HoldingPcs => j.c \in CampaignId
      /\ j.pc \in GovernPcs => j.k \in Kinds /\ j.p \in Policy /\ j.c \in CampaignId
  BY DEF Jobs, Idle, SubmitPcs, HoldingPcs, GovernPcs
<1>2. ASSUME j.pc \in SubmitPcs
      PROVE  /\ j.case.p \in Trained /\ Known(j.case.p)'
             /\ j.case.kind = "rollback" =>
                  pol'[j.case.p].status \in Applied /\ JudgesAreApart(j.case)'
  <2>1. j.case.p \in Policy /\ j.case.p \in Trained /\ Known(j.case.p)
    BY <1>1, <1>2, CaseFacts DEF Sound
  <2>2. Known(j.case.p)'
    BY <1>0, <2>1 DEF GoesOn
  <2>3. ASSUME j.case.kind = "rollback"
        PROVE  pol'[j.case.p].status \in Applied /\ JudgesAreApart(j.case)'
    <3>1. pol[j.case.p].status \in Applied /\ JudgesAreApart(j.case)
      BY <1>2, <2>3 DEF Sound
    <3>2. JudgesAreApart(j.case)' = JudgesAreApart(j.case)
      BY <1>0, <2>1, <3>1, PromotionStays
    <3> QED BY <1>0, <2>1, <3>1, <3>2 DEF GoesOn
  <2> QED BY <2>1, <2>2, <2>3
<1>3. ASSUME j.pc \in HoldingPcs
      PROVE  /\ Exists(j.c)' /\ camp'[j.c].fp = j.case
             /\ j.pc \in BoundPcs => IsBoundTo(j.c, j.case)'
  <2>1. j.c \in CampaignId /\ j.case \in Case /\ Exists(j.c) /\ camp[j.c].fp = j.case
    BY <1>1, <1>3 DEF Sound, HoldingPcs, SubmitPcs
  <2>2. Exists(j.c)' /\ camp'[j.c].fp = j.case
    BY <1>0, <2>1 DEF CampaignsGoOn
  <2>3. ASSUME j.pc \in BoundPcs
        PROVE  IsBoundTo(j.c, j.case)'
    BY <1>0, <2>1, <2>3, BoundStays DEF Sound
  <2> QED BY <2>2, <2>3
<1>4. ASSUME j.pc \in GovernPcs
      PROVE  /\ Operates(j)'
             /\ Approvers(j.c)' = Approvers(j.c)
             /\ EarlierHands(j.k, j.p)' = EarlierHands(j.k, j.p)
             /\ pol[j.p].status \in Final(j.k) => pol'[j.p].status \in Final(j.k)
  <2>1. /\ j.k \in Kinds /\ j.p \in Policy /\ j.c \in CampaignId /\ j.c # NoCampaign
        /\ Operates(j) /\ Known(j.p) /\ pol[j.p][j.k].camp = j.c
    BY <1>0, <1>1, <1>4 DEF Sound, Operates
  <2>2. /\ Known(j.p)' /\ pol'[j.p][j.k].camp = j.c
        /\ EarlierHands(j.k, j.p)' = EarlierHands(j.k, j.p)
    BY <1>0, <2>1, BindingStays, HandsStay
  <2>3. Decided(j.c)' /\ Approvers(j.c)' = Approvers(j.c)
    BY <1>0, <2>1 DEF CampaignsGoOn, Operates, Decided
  <2>4. pol[j.p].status \in Final(j.k) => pol'[j.p].status \in Final(j.k)
    BY <1>0, <2>1, FinalStays
  <2> QED BY <2>1, <2>2, <2>3, <2>4 DEF Operates
<1>5. j.pc = "mark" \/ j.pc = "complete" => j.pc \in GovernPcs
  BY DEF GovernPcs
<1>6. j.pc = "mark" => /\ Cardinality(Approvers(j.c)') = 2
                       /\ Approvers(j.c)' \cap EarlierHands(j.k, j.p)' = {}
  BY <1>4, <1>5 DEF Sound
<1>7. j.pc = "complete" => pol'[j.p].status \in Final(j.k)
  BY <1>4, <1>5 DEF Sound
<1>8. j.pc \in SubmitPcs =>
        /\ j.case.p \in Trained /\ Known(j.case.p)'
        /\ j.case.kind = "rollback" =>
             pol'[j.case.p].status \in Applied /\ JudgesAreApart(j.case)'
  BY <1>2
<1>9. /\ j.pc \in HoldingPcs => Exists(j.c)' /\ camp'[j.c].fp = j.case
      /\ j.pc \in BoundPcs => IsBoundTo(j.c, j.case)'
  BY <1>3 DEF BoundPcs
<1>10. j.pc \in GovernPcs => Operates(j)'
  BY <1>4
<1> QED BY <1>6, <1>7, <1>8, <1>9, <1>10 DEF Sound

SubmitJobs == [pc: SubmitPcs, case: Case, c: CampaignId \cup {NoCampaign},
               row: RowBy(Actor) \cup {NoRow}]
SubmitJob(pc, case, c, row) == [pc |-> pc, case |-> case, c |-> c, row |-> row]

LEMMA SubmitJobFacts ==
  ASSUME TypeOK, NEW w \in Worker, job[w].pc \in SubmitPcs
  PROVE  /\ job[w] = SubmitJob(job[w].pc, job[w].case, job[w].c, job[w].row)
         /\ job[w] \in SubmitJobs
<1>1. job[w] \in Jobs \cup {Idle}
  BY DEF TypeOK
<1> USE DEF SubmitPcs, SubmitJob, SubmitJobs
<1>2. CASE job[w] \in [pc: {"find", "reserve"}, case: Case, c: {NoCampaign}, row: {NoRow}]
  BY <1>2
<1>3. CASE job[w] \in [pc: {"record", "attach", "start", "finish"}, case: Case, c: CampaignId,
                       row: RowBy(Actor)]
  BY <1>3
<1>4. CASE job[w] \in [pc: {"resume"}, case: Case, c: CampaignId, row: {NoRow}]
  BY <1>4
<1>5. CASE job[w] \in [pc: {"mark"}, k: Kinds, p: Policy, c: CampaignId, a: Actor, t: Nat]
  BY <1>5
<1>6. CASE job[w] \in [pc: {"move", "complete"}, k: Kinds, p: Policy, c: CampaignId, a: Actor,
                       rev: Nat, t: Nat, saw: {"nothing", "authorized", "applied"}]
  BY <1>6
<1>7. CASE job[w] = Idle
  BY <1>7 DEF Idle
<1> QED BY <1>1, <1>2, <1>3, <1>4, <1>5, <1>6, <1>7 DEF Jobs

LEMMA ContinuedJob ==
  ASSUME NEW r \in SubmitJobs, NEW pc, NEW row
  PROVE  [r EXCEPT !.pc = pc, !.row = row] = SubmitJob(pc, r.case, r.c, row)
<1>1. ASSUME NEW new, new = [r EXCEPT !.pc = pc, !.row = row]
      PROVE  new = SubmitJob(pc, r.case, r.c, row)
  BY <1>1 DEF SubmitJob, SubmitJobs
<1> QED BY <1>1

LEMMA MovedJob ==
  ASSUME NEW r \in SubmitJobs, NEW pc
  PROVE  [r EXCEPT !.pc = pc] = SubmitJob(pc, r.case, r.c, r.row)
<1>1. ASSUME NEW new, new = [r EXCEPT !.pc = pc]
      PROVE  new = SubmitJob(pc, r.case, r.c, r.row)
  BY <1>1 DEF SubmitJob, SubmitJobs
<1> QED BY <1>1

LEMMA SubmitJobTypes ==
  ASSUME NEW case \in Case, NEW pc
  PROVE  /\ pc \in {"find", "reserve"} => SubmitJob(pc, case, NoCampaign, NoRow) \in Jobs
         /\ \A c \in CampaignId : SubmitJob("resume", case, c, NoRow) \in Jobs
         /\ \A c \in CampaignId, row \in RowBy(Actor) :
              pc \in {"record", "attach", "start", "finish"} => SubmitJob(pc, case, c, row) \in Jobs
BY DEF SubmitJob, Jobs

(* What the three ways to go on with a submission write.                    *)
LEMMA JobWrites ==
  ASSUME TypeOK, NEW w \in Worker, job[w].pc \in SubmitPcs
  PROVE  /\ \A pc : Goto(w, pc) =>
              job' = [job EXCEPT ![w] = SubmitJob(pc, job[w].case, job[w].c, job[w].row)]
         /\ \A pc, c : Remember(w, pc, c) =>
              job' = [job EXCEPT ![w] = SubmitJob(pc, job[w].case, c, camp'[c])]
         /\ \A row : Continue(w, row) =>
              \/ Done(w)
              \/ /\ RowStep(row) \in {"attach", "start", "finish"}
                 /\ job' = [job EXCEPT ![w] = SubmitJob(RowStep(row), job[w].case, job[w].c, row)]
<1>1. PICK r \in SubmitJobs : r = job[w]
  BY SubmitJobFacts
<1>2. ASSUME NEW pc, Goto(w, pc)
      PROVE  job' = [job EXCEPT ![w] = SubmitJob(pc, r.case, r.c, r.row)]
  <2>1. job' = [job EXCEPT ![w] = [r EXCEPT !.pc = pc]]
    BY <1>1, <1>2 DEF Goto, TypeOK
  <2> QED BY <2>1, MovedJob
<1>3. ASSUME NEW pc, NEW c, Remember(w, pc, c)
      PROVE  job' = [job EXCEPT ![w] = SubmitJob(pc, r.case, c, camp'[c])]
  <2>1. PICK row : row = camp'[c]
    OBVIOUS
  <2>2. job' = [job EXCEPT ![w] = [r EXCEPT !.pc = pc, !.c = c, !.row = row]]
    BY <1>1, <1>3, <2>1 DEF Remember, TypeOK
  <2>3. PICK new : new = [r EXCEPT !.pc = pc, !.c = c, !.row = row]
    OBVIOUS
  <2>4. new = SubmitJob(pc, r.case, c, row)
    BY <2>3 DEF SubmitJob, SubmitJobs
  <2> QED BY <2>1, <2>2, <2>3, <2>4
<1>4. ASSUME NEW row, Continue(w, row), ~Done(w)
      PROVE  /\ RowStep(row) \in {"attach", "start", "finish"}
             /\ job' = [job EXCEPT ![w] = SubmitJob(RowStep(row), r.case, r.c, row)]
  <2>1. PICK pc : pc = RowStep(row)
    OBVIOUS
  <2>2. pc \in {"attach", "start", "finish"} /\ job' = [job EXCEPT ![w].pc = pc, ![w].row = row]
    BY <1>4, <2>1 DEF Continue, RowStep
  <2>3. job' = [job EXCEPT ![w] = [r EXCEPT !.pc = pc, !.row = row]]
    BY <1>1, <2>2 DEF TypeOK
  <2>4. [r EXCEPT !.pc = pc, !.row = row] = SubmitJob(pc, r.case, r.c, row)
    BY ContinuedJob
  <2> QED BY <2>1, <2>2, <2>3, <2>4
<1> QED BY <1>1, <1>2, <1>3, <1>4

JobChange ==
  \/ job' = job
  \/ \E w \in Worker, j \in Jobs \cup {Idle} : job' = [job EXCEPT ![w] = j] /\ Sound(j)'

LEMMA DoneIsSound ==
  ASSUME NEW w \in Worker, Done(w)
  PROVE  JobChange
<1>1. Sound(Idle)'
  BY DEF Sound, Idle, SubmitPcs, HoldingPcs, BoundPcs, GovernPcs
<1> QED BY <1>1 DEF Done, JobChange

(* A call that starts relies on what it has just read.                      *)
LEMMA StartIsSound ==
  ASSUME IInv, AllAssumptions, [Next]_vars, NEW w \in Worker, NEW j \in Jobs, Sound(j),
         job' = [job EXCEPT ![w] = j]
  PROVE  JobChange
BY SoundStays DEF JobChange

LEMMA SubmitSound ==
  ASSUME NEW j, Sound(j)', j.pc \in SubmitPcs, NEW pc \in SubmitPcs, NEW c, NEW row,
         pc \in HoldingPcs => Exists(c)' /\ camp'[c].fp = j.case,
         pc \in BoundPcs => IsBoundTo(c, j.case)'
  PROVE  Sound(SubmitJob(pc, j.case, c, row))'
BY DEF Sound, SubmitJob, SubmitPcs, GovernPcs

LEMMA StoredRow ==
  ASSUME IInv, AllAssumptions, [Next]_vars, NEW c \in CampaignId, Exists(c)'
  PROVE  camp'[c] \in RowBy(Actor)
BY StepFacts DEF CampaignsTypeOK, Exists, NoRow

LEMMA ContinueSound ==
  ASSUME IInv, AllAssumptions, [Next]_vars, NEW w \in Worker, job[w].pc \in HoldingPcs,
         NEW row \in RowBy(Actor), Continue(w, row),
         \A case \in Case, c \in CampaignId :
           case = job[w].case /\ c = job[w].c => IsBoundTo(c, case)'
  PROVE  JobChange
<1>1. PICK j \in Jobs \cup {Idle} : j = job[w]
  BY DEF IInv, TypeOK
<1>2. j.pc \in HoldingPcs /\ j.pc \in SubmitPcs /\ j.case \in Case /\ j.c \in CampaignId
  BY <1>1, JobFacts DEF IInv, HoldingPcs, SubmitPcs
<1>3. Sound(j)'
  BY <1>1, SoundStays DEF IInv, JobInv
<1>4. Exists(j.c)' /\ camp'[j.c].fp = j.case /\ IsBoundTo(j.c, j.case)'
  BY <1>1, <1>2, <1>3 DEF Sound
<1>5. CASE Done(w)
  BY <1>5, DoneIsSound
<1>6. CASE ~Done(w)
  <2>1. PICK pc : pc = RowStep(row)
    OBVIOUS
  <2>2. /\ pc \in {"attach", "start", "finish"}
        /\ job' = [job EXCEPT ![w] = SubmitJob(pc, j.case, j.c, row)]
    BY <1>1, <1>2, <1>6, <2>1, JobWrites DEF IInv
  <2>3. Sound(SubmitJob(pc, j.case, j.c, row))'
    BY <1>2, <1>3, <1>4, <2>2, SubmitSound DEF SubmitPcs
  <2>4. SubmitJob(pc, j.case, j.c, row) \in Jobs
    BY <1>2, <2>2, SubmitJobTypes
  <2> QED BY <2>2, <2>3, <2>4 DEF JobChange
<1> QED BY <1>5, <1>6

LEMMA SubmitJobs_ ==
  ASSUME IInv, AllAssumptions, [Next]_vars, NEW w \in Worker,
         \/ SubmitFind(w) \/ SubmitReserve(w) \/ SubmitRecord(w) \/ SubmitResume(w)
         \/ SubmitAttach(w) \/ SubmitEvaluate(w)
  PROVE  JobChange
<1>1. PICK j \in Jobs \cup {Idle} : j = job[w]
  BY DEF IInv, TypeOK
<1>2. Sound(j) /\ Sound(j)' /\ TypeOK
  BY <1>1, SoundStays DEF IInv, JobInv
<1>3. /\ j.pc \in SubmitPcs => j.case \in Case
      /\ j.pc \in HoldingPcs => j.c \in CampaignId
      /\ j.pc \in HoldingPcs \ {"resume"} => j.row \in RowBy(Actor)
  BY <1>1, <1>2, JobFacts
<1>4. CASE SubmitFind(w)
  <2>1. j.pc = "find" /\ j.pc \in SubmitPcs /\ j.case \in Case
    BY <1>1, <1>3, <1>4 DEF SubmitFind, SubmitPcs
  <2>2. CASE Goto(w, "reserve")
    <3>1. j.c = NoCampaign /\ j.row = NoRow
      BY <1>1, <2>1 DEF Jobs, Idle
    <3>2. job' = [job EXCEPT ![w] = SubmitJob("reserve", j.case, NoCampaign, NoRow)]
      BY <1>1, <1>2, <2>1, <2>2, <3>1, JobWrites
    <3>3. Sound(SubmitJob("reserve", j.case, NoCampaign, NoRow))'
      BY <1>2, <2>1, SubmitSound DEF SubmitPcs, HoldingPcs, BoundPcs
    <3>4. SubmitJob("reserve", j.case, NoCampaign, NoRow) \in Jobs
      BY <2>1, SubmitJobTypes
    <3> QED BY <3>2, <3>3, <3>4 DEF JobChange
  <2>3. CASE \E c \in CampaignId : CampaignMatches(c, j.case) /\ Remember(w, "record", c)
    <3>1. PICK c \in CampaignId : CampaignMatches(c, j.case) /\ Remember(w, "record", c)
      BY <2>3
    <3>2. Exists(c)' /\ camp'[c].fp = j.case /\ camp'[c] \in RowBy(Actor)
      BY <1>4, <3>1, StoredRow DEF SubmitFind, CampaignMatches, campaignVars, Exists
    <3>3. PICK row \in RowBy(Actor) : row = camp'[c]
      BY <3>2
    <3>4. job' = [job EXCEPT ![w] = SubmitJob("record", j.case, c, row)]
      BY <1>1, <1>2, <2>1, <3>1, <3>3, JobWrites
    <3>5. Sound(SubmitJob("record", j.case, c, row))'
      BY <1>2, <2>1, <3>2, SubmitSound DEF SubmitPcs, BoundPcs
    <3>6. SubmitJob("record", j.case, c, row) \in Jobs
      BY <2>1, SubmitJobTypes
    <3> QED BY <3>4, <3>5, <3>6 DEF JobChange
  <2>4. OpenOn(TargetOf(j.case)) \subseteq CampaignId
    BY DEF OpenOn
  <2> QED BY <1>1, <1>4, <2>2, <2>3, <2>4 DEF SubmitFind
<1>5. CASE SubmitReserve(w)
  <2>1. j.pc = "reserve" /\ j.pc \in SubmitPcs /\ j.case \in Case
    BY <1>1, <1>3, <1>5 DEF SubmitReserve, SubmitPcs
  <2>2. PICK c \in CampaignId :
          /\ \/ InsertCampaign(c, TargetOf(j.case), j.case, GeneratorOf(j.case), 2, "open",
                              askedAt[j.case.ev])
             \/ ReuseCampaign(c, TargetOf(j.case), j.case)
          /\ Remember(w, "record", c)
    BY <1>1, <1>5 DEF SubmitReserve
  <2>3. Exists(c)' /\ camp'[c].fp = j.case
    <3>1. CASE InsertCampaign(c, TargetOf(j.case), j.case, GeneratorOf(j.case), 2, "open",
                              askedAt[j.case.ev])
      BY <1>2, <3>1 DEF InsertCampaign, Exists, TypeOK, CampaignsTypeOK
    <3>2. CASE ReuseCampaign(c, TargetOf(j.case), j.case)
      BY <3>2 DEF ReuseCampaign, OpenOn, OpenStates, Exists, campaignVars
    <3> QED BY <2>2, <3>1, <3>2
  <2>4. PICK row \in RowBy(Actor) : row = camp'[c]
    BY <2>3, StoredRow
  <2>5. job' = [job EXCEPT ![w] = SubmitJob("record", j.case, c, row)]
    BY <1>1, <1>2, <2>1, <2>2, <2>4, JobWrites
  <2>6. Sound(SubmitJob("record", j.case, c, row))'
    BY <1>2, <2>1, <2>3, SubmitSound DEF SubmitPcs, BoundPcs
  <2>7. SubmitJob("record", j.case, c, row) \in Jobs
    BY <2>1, SubmitJobTypes
  <2> QED BY <2>5, <2>6, <2>7 DEF JobChange
<1>6. CASE SubmitRecord(w)
  <2>1. j.pc \in HoldingPcs /\ j.c \in CampaignId /\ j.case \in Case /\ j.row \in RowBy(Actor)
    BY <1>1, <1>3, <1>6 DEF SubmitRecord, HoldingPcs, SubmitPcs
  <2>2. IsBoundTo(j.c, j.case)'
    <3>1. CASE IsBoundTo(j.c, j.case)
      BY <2>1, <3>1, BoundStays, StepFacts
    <3>2. CASE Records(w)
      BY <1>1, <1>6, <2>1, <3>2, RecordedBinding DEF SubmitRecord
    <3> QED BY <1>1, <1>6, <3>1, <3>2, RecordWrites
  <2>3. Continue(w, j.row)
    BY <1>1, <1>6 DEF SubmitRecord
  <2> QED BY <1>1, <2>1, <2>2, <2>3, ContinueSound
<1>7. CASE SubmitResume(w) \/ SubmitAttach(w) \/ SubmitEvaluate(w)
  <2>1. j.pc \in HoldingPcs /\ j.pc \in BoundPcs /\ j.c \in CampaignId
    BY <1>1, <1>3, <1>7 DEF SubmitResume, SubmitAttach, SubmitEvaluate, HoldingPcs, BoundPcs
  <2>2. Exists(j.c)' /\ IsBoundTo(j.c, j.case)'
    BY <1>2, <2>1 DEF Sound
  <2>3. PICK row \in RowBy(Actor) : row = camp'[j.c]
    BY <2>1, <2>2, StoredRow
  <2>4. Continue(w, row)
    BY <1>1, <1>7, <2>3 DEF SubmitResume, SubmitAttach, SubmitEvaluate, campaignVars
  <2> QED BY <1>1, <2>1, <2>2, <2>4, ContinueSound
<1> QED BY <1>4, <1>5, <1>6, <1>7

LEMMA StartJobs ==
  ASSUME IInv, AllAssumptions, [Next]_vars, NEW w \in Worker, NEW case \in Submitted,
         SubmitStart(w, case) \/ SubmitAgain(w, case)
  PROVE  JobChange
<1>1. /\ case \in Case /\ case.kind \in Kinds /\ case.ev \in Evidence /\ case.p \in Policy
      /\ case = [kind |-> case.kind, p |-> case.p, ev |-> case.ev]
      /\ \A e \in Evidence : e # NoEvidence
  BY CaseFacts DEF AllAssumptions, LifecycleAssumption, LocalPolicyAssumption, Case
<1>2. CASE SubmitStart(w, case)
  <2>1. job' = [job EXCEPT ![w] = SubmitJob("find", case, NoCampaign, NoRow)]
    BY <1>2 DEF SubmitStart, SubmitJob
  <2>2. case.p \in Trained /\ Known(case.p)
    BY <1>2 DEF SubmitStart, MayPromote, MayRequest
  <2>3. case.kind = "rollback" => pol[case.p].status \in Applied /\ JudgesAreApart(case)
    BY <1>2 DEF SubmitStart, MayRequest, Applied, JudgesAreApart
  <2>4. Sound(SubmitJob("find", case, NoCampaign, NoRow))
    BY <2>2, <2>3 DEF Sound, SubmitJob, HoldingPcs, BoundPcs, GovernPcs
  <2>5. SubmitJob("find", case, NoCampaign, NoRow) \in Jobs
    BY <1>1, SubmitJobTypes
  <2> QED BY <2>1, <2>4, <2>5, StartIsSound
<1>3. CASE SubmitAgain(w, case)
  <2>1. /\ case.p \in Trained /\ Known(case.p) /\ pol[case.p][case.kind].ev = case.ev
        /\ job' = [job EXCEPT ![w] = SubmitJob("resume", case, pol[case.p][case.kind].camp, NoRow)]
    BY <1>3 DEF SubmitAgain, SubmitJob
  <2>2. /\ BindingInvAt(case.kind, case.p) /\ StatusInvAt(case.p)
        /\ pol[case.p][case.kind] \in Binding
    BY <1>1, <2>1, RecordFacts DEF IInv, TypeOK, BindingInv, StatusInv
  <2>3. PICK c \in CampaignId : c = pol[case.p][case.kind].camp
    BY <1>1, <2>1, <2>2 DEF StatusInvAt, Coherent, Kinds, Binding
  <2>4. c # NoCampaign /\ case = CaseOf(case.kind, case.p)
    BY <1>1, <2>1 DEF CaseOf, AllAssumptions, LocalPolicyAssumption
  <2>5. Exists(c) /\ camp[c].fp = case /\ IsBoundTo(c, case)
    BY <2>1, <2>2, <2>3, <2>4 DEF BindingInvAt, IsBoundTo
  <2>6. case.kind = "rollback" => pol[case.p].status \in Applied /\ JudgesAreApart(case)
    BY <1>1, <2>1, <2>2, <2>3, <2>4 DEF BindingInvAt, StatusInvAt
  <2>7. Sound(SubmitJob("resume", case, c, NoRow))
    BY <2>1, <2>5, <2>6 DEF Sound, SubmitJob, GovernPcs
  <2>8. SubmitJob("resume", case, c, NoRow) \in Jobs
    BY <1>1, SubmitJobTypes
  <2> QED BY <2>1, <2>3, <2>7, <2>8, StartIsSound
<1> QED BY <1>2, <1>3

(* The checks of an operator's call leave it apart from the hands before.   *)
LEMMA OperatorIsApart ==
  ASSUME NEW k \in Kinds, NEW p, NEW c, NEW a, MayOperate(k, p, c, a)
  PROVE  a \notin EarlierHands(k, p) \cup Approvers(c)
BY DEF MayOperate, EarlierHands, Controls, Forbidden, Kinds

LEMMA GovernJobs ==
  ASSUME IInv, AllAssumptions, [Next]_vars, NEW w \in Worker, NEW k \in Kinds, NEW p \in Policy,
         Synchronize(w, k, p) \/ Move(w, k, p)
  PROVE  JobChange
<1>0. pol[p][k].camp # NoCampaign /\ Known(p)
  BY DEF Synchronize, Move, SynchronizeStart, MoveStart
<1>1. p \in Trained /\ pol[p][k].camp \in CampaignId
  <2>1. pol[p][k] \in Binding /\ StatusInvAt(p)
    BY <1>0, RecordFacts DEF IInv, TypeOK, StatusInv
  <2> QED BY <1>0, <2>1 DEF StatusInvAt, Coherent, Binding, Kinds
<1>2. PICK c \in CampaignId : c = pol[p][k].camp
  BY <1>1
<1>3. ASSUME NEW a \in authorizerOf[k], SynchronizeStart(w, k, p, a)
      PROVE  JobChange
  <2>1. PICK j : j = [pc |-> "mark", k |-> k, p |-> p, c |-> c, a |-> a, t |-> clock]
    OBVIOUS
  <2>2. a \in Actor /\ clock \in Nat
    BY DEF AllAssumptions, LifecycleAssumption, IInv, TypeOK
  <2>3. j \in Jobs
    BY <2>1, <2>2 DEF Jobs
  <2>4. /\ Decided(c) /\ MayOperate(k, p, c, a) /\ ApprovalsAreValid(k, p, c)
        /\ job' = [job EXCEPT ![w] = j]
    BY <1>2, <1>3, <2>1 DEF SynchronizeStart, Decided, Exists, ClosedStates
  <2>5. Cardinality(Approvers(c)) = 2 /\ Approvers(c) \cap EarlierHands(k, p) = {}
    BY <2>4 DEF ApprovalsAreValid, EarlierHands, Controls, Forbidden, Kinds
  <2>6. Operates(j)
    BY <1>0, <1>1, <1>2, <2>1, <2>4, OperatorIsApart DEF Operates
  <2>7. Sound(j)
    BY <2>1, <2>5, <2>6 DEF Sound, SubmitPcs, HoldingPcs, BoundPcs
  <2> QED BY <2>3, <2>4, <2>7, StartIsSound
<1>4. ASSUME NEW a \in executorOf[k], NEW rev \in {head.rev, head.rev - 1}, MoveStart(w, k, p, a, rev)
      PROVE  JobChange
  <2>1. PICK j : j = [pc |-> "move", k |-> k, p |-> p, c |-> c, a |-> a, rev |-> rev,
                  t |-> clock, saw |-> Seen(k, p)]
    OBVIOUS
  <2>2. /\ a \in Actor /\ rev \in Nat /\ clock \in Nat
        /\ Seen(k, p) \in {"nothing", "authorized", "applied"}
    BY <1>4 DEF AllAssumptions, LifecycleAssumption, MoveStart, IInv, TypeOK, Seen
  <2>3. j \in Jobs
    BY <2>1, <2>2 DEF Jobs
  <2>4. /\ Decided(c) /\ MayOperate(k, p, c, a)
        /\ job' = [job EXCEPT ![w] = j]
    BY <1>2, <1>4, <2>1 DEF MoveStart, StillAuthorized, Decided, Exists, ClosedStates
  <2>5. Operates(j)
    BY <1>0, <1>1, <1>2, <2>1, <2>4, OperatorIsApart DEF Operates
  <2>6. Sound(j)
    BY <2>1, <2>5 DEF Sound, SubmitPcs, HoldingPcs, BoundPcs
  <2> QED BY <2>3, <2>4, <2>6, StartIsSound
<1> QED BY <1>3, <1>4 DEF Synchronize, Move

LEMMA MoveJobs ==
  ASSUME IInv, AllAssumptions, [Next]_vars, NEW w \in Worker, MoveRegistry(w)
  PROVE  JobChange
<1>1. PICK j \in Jobs \cup {Idle} : j = job[w]
  BY DEF IInv, TypeOK
<1>2. j.pc = "move" /\ Sound(j)' /\ Goto(w, "complete")
  BY <1>1, SoundStays DEF MoveRegistry, IInv, JobInv
<1> DEFINE MoveJob == [pc: {"move", "complete"}, k: Kinds, p: Policy, c: CampaignId, a: Actor,
                       rev: Nat, t: Nat, saw: {"nothing", "authorized", "applied"}]
<1>3. j \in MoveJob
  BY <1>1, <1>2 DEF Jobs, Idle
<1>4. PICK n : n = [j EXCEPT !.pc = "complete"]
  OBVIOUS
<1>5. /\ n.pc = "complete" /\ n.k = j.k /\ n.p = j.p /\ n.c = j.c /\ n.a = j.a
      /\ n \in MoveJob
  BY <1>3, <1>4
<1>6. job' = [job EXCEPT ![w] = n] /\ n \in Jobs
  BY <1>1, <1>2, <1>4, <1>5 DEF Goto, IInv, TypeOK, Jobs
<1>7. pol'[j.p].status \in Final(j.k)
  <2>1. CASE UNCHANGED registryVars /\ pol[job[w].p].status \in Final(job[w].k)
    BY <1>1, <2>1 DEF registryVars, Final
  <2>2. CASE MovesHead(w)
    BY <1>1, <2>2, MovedBinding DEF MoveRegistry, Final
  <2> QED BY <2>1, <2>2, MoveWrites
<1>8. Operates(j)'
  BY <1>2 DEF Sound, GovernPcs
<1>9. Sound(n)'
  BY <1>5, <1>7, <1>8 DEF Sound, Operates, SubmitPcs, HoldingPcs, BoundPcs
<1> QED BY <1>6, <1>9 DEF JobChange

LEMMA JobStep ==
  ASSUME IInv, AllAssumptions, [Next]_vars
  PROVE  JobInv' /\ job' \in [Worker -> Jobs \cup {Idle}]
<1>1. JobChange
  <2>1. ASSUME NEW w \in Worker, Progress(w) \/ Abort(w)
        PROVE  JobChange
    BY <2>1, SubmitJobs_, MoveJobs, DoneIsSound DEF Progress, Abort, SynchronizeMark, MoveComplete
  <2>2. ASSUME NEW w \in Worker, NEW k \in Kinds, NEW p \in Policy, Synchronize(w, k, p) \/ Move(w, k, p)
        PROVE  JobChange
    BY <2>2, GovernJobs
  <2>3. ASSUME NEW w \in Worker, NEW case \in Submitted, SubmitStart(w, case) \/ SubmitAgain(w, case)
        PROVE  JobChange
    BY <2>3, StartJobs
  <2>4. CASE \E p \in Policy : Register(p) \/ Admit(p)
    BY <2>4 DEF Register, Admit, JobChange
  <2>5. CASE \E k \in Kinds : \E p \in Policy, a \in approverOf[k] : Approve(k, p, a)
    BY <2>5 DEF Approve, JobChange
  <2>6. CASE \E c \in CampaignId, k \in Kinds : \E a \in approverOf[k] : ApproveDirectly(c, a) \/ Close(c, a)
    BY <2>6 DEF ApproveDirectly, Close, JobChange
  <2>7. CASE Tick \/ UNCHANGED vars
    BY <2>7 DEF Tick, vars, JobChange
  <2> QED BY <2>1, <2>2, <2>3, <2>4, <2>5, <2>6, <2>7 DEF Next
<1>2. \A v \in Worker : job[v] \in Jobs \cup {Idle} /\ Sound(job[v])
  BY DEF IInv, TypeOK, JobInv
<1>3. ASSUME NEW v \in Worker, NEW j, j = job[v]
      PROVE  Sound(j)'
  BY <1>2, <1>3, SoundStays
<1>4. CASE job' = job
  <2>1. ASSUME NEW v \in Worker
        PROVE  Sound(job[v])'
    <3>1. PICK j : j = job[v]
      OBVIOUS
    <3>2. job'[v] = j /\ Sound(j)'
      BY <1>3, <1>4, <3>1
    <3> QED BY <3>2 DEF Sound, Operates
  <2> QED BY <1>4, <2>1 DEF JobInv, IInv, TypeOK
<1>5. ASSUME NEW w \in Worker, NEW new \in Jobs \cup {Idle}, job' = [job EXCEPT ![w] = new], Sound(new)'
      PROVE  JobInv' /\ job' \in [Worker -> Jobs \cup {Idle}]
  <2>1. ASSUME NEW v \in Worker
        PROVE  Sound(job[v])'
    <3>1. PICK j : j = job[v]
      OBVIOUS
    <3>2. PICK n : n = job'[v] /\ Sound(n)'
      BY <1>3, <1>5, <3>1 DEF IInv, TypeOK
    <3> QED BY <3>2 DEF Sound, Operates
  <2> QED BY <1>5, <2>1 DEF JobInv, IInv, TypeOK
<1> QED BY <1>1, <1>4, <1>5 DEF JobChange

-----------------------------------------------------------------------------

LEMMA Assumed == AllAssumptions
BY CampaignsAssumption, LocalPolicyAssumption, LifecycleAssumption DEF AllAssumptions

LEMMA InvariantStarts ==
  ASSUME Init
  PROVE  IInv
<1> USE DEF Init, CampaignsInit, RegistryInit
<1>1. /\ \A c \in CampaignId : camp[c] = NoRow /\ ~Exists(c)
      /\ \A c \in CampaignId : Approvers(c) = {}
      /\ \A p \in Policy : pol[p] = NoRecord /\ ~Known(p)
  BY DEF Exists, NoRow, Approvers, Known
<1>2. TypeOK
  <2>1. CampaignsTypeOK
    BY DEF CampaignsTypeOK
  <2>2. RegistryTypeOK
    BY DEF RegistryTypeOK
  <2>3. at \in EventTimes /\ clock \in 0..MaxClock
    BY Assumed DEF EventTimes, AllAssumptions, LifecycleAssumption
  <2> QED BY <2>1, <2>2, <2>3 DEF TypeOK
<1>3. StatusInv /\ FamilyInv
  BY <1>1 DEF StatusInv, FamilyInv, StateVerifies
<1>4. ApprovalInv
  BY <1>1 DEF ApprovalInv, ApprovalInvAt, NoRow, WithCandidate
<1>5. ShellInv /\ RevisionInv /\ BindingInv
  <2>1. \A p \in Trained : ~Known(p)
    BY <1>1 DEF Trained
  <2> QED BY <1>1, <2>1 DEF ShellInv, ShellInvAt, RevisionInv, RevisionInvAt, BindingInv
<1>6. JobInv
  BY DEF JobInv, Sound, Idle, SubmitPcs, HoldingPcs, BoundPcs, GovernPcs
<1> QED BY <1>2, <1>3, <1>4, <1>5, <1>6 DEF IInv

(* The registry and its times change in five kinds of steps only.           *)
WritesRegistry ==
  \/ \E p \in Policy : Register(p) \/ Admit(p)
  \/ \E w \in Worker : SubmitRecord(w) \/ SynchronizeMark(w) \/ MoveRegistry(w)

LEMMA QuietTimes ==
  ASSUME IInv, AllAssumptions, [Next]_vars, ~WritesRegistry
  PROVE  /\ UNCHANGED <<registryVars, at, overtook>>
         /\ clock' \in 0..MaxClock /\ clock <= clock'
<1> DEFINE Quiet == UNCHANGED <<registryVars, at, clock, overtook>>
<1>0. clock \in 0..MaxClock /\ MaxClock \in Nat
  BY DEF IInv, TypeOK, AllAssumptions, LifecycleAssumption
<1>1. ASSUME NEW w \in Worker, SubmitFind(w) \/ SubmitReserve(w) \/ SubmitResume(w)
      PROVE  Quiet
  BY <1>1 DEF SubmitFind, SubmitReserve, SubmitResume, times, history, registryVars
<1>2. ASSUME NEW w \in Worker,
             SubmitAttach(w) \/ SubmitEvaluate(w) \/ MoveComplete(w) \/ Abort(w)
      PROVE  Quiet
  BY <1>2 DEF SubmitAttach, SubmitEvaluate, MoveComplete, Abort, times, history, registryVars
<1>3. ASSUME NEW w \in Worker,
             \/ \E case \in Submitted : SubmitStart(w, case) \/ SubmitAgain(w, case)
             \/ \E k \in Kinds, p \in Policy : Synchronize(w, k, p) \/ Move(w, k, p)
      PROVE  Quiet
  <2>1. ASSUME NEW case \in Submitted, SubmitStart(w, case) \/ SubmitAgain(w, case)
        PROVE  Quiet
    BY <2>1 DEF SubmitStart, SubmitAgain, times, history, registryVars
  <2>2. ASSUME NEW k \in Kinds, NEW p \in Policy, Synchronize(w, k, p) \/ Move(w, k, p)
        PROVE  Quiet
    BY <2>2 DEF Synchronize, Move, SynchronizeStart, MoveStart, times, history, registryVars
  <2> QED BY <1>3, <2>1, <2>2
<1>4. ASSUME NEW k \in Kinds, NEW a,
             (\E p \in Policy : Approve(k, p, a))
               \/ \E c \in CampaignId : ApproveDirectly(c, a) \/ Close(c, a)
      PROVE  Quiet
  BY <1>4 DEF Approve, ApproveDirectly, Close, times, history, registryVars
<1>5. ASSUME Tick
      PROVE  UNCHANGED <<registryVars, at, overtook>> /\ clock' \in 0..MaxClock /\ clock <= clock'
  BY <1>0, <1>5 DEF Tick, history, registryVars
<1>6. ASSUME UNCHANGED vars
      PROVE  Quiet
  BY <1>6 DEF vars, times, history, registryVars
<1> HIDE DEF Quiet
<1>7. Quiet \/ Tick
  BY <1>1, <1>2, <1>3, <1>4, <1>6 DEF Next, Progress, WritesRegistry
<1> QED BY <1>0, <1>5, <1>7 DEF Quiet

LEMMA HistoryStep ==
  ASSUME IInv, AllAssumptions, [Next]_vars
  PROVE  /\ reused' \subseteq CampaignId /\ overtook' \subseteq Kinds \X Policy
         /\ at' \in EventTimes /\ clock' \in 0..MaxClock
<1>0. /\ reused \subseteq CampaignId /\ overtook \subseteq Kinds \X Policy
      /\ at \in EventTimes /\ clock \in 0..MaxClock /\ clock \in Nat
      /\ \A e \in Evidence : judgedAt[e] \in Nat
  BY DEF IInv, TypeOK, AllAssumptions, LifecycleAssumption, LocalPolicyAssumption
<1>1. ASSUME NEW t \in Nat, EventAt(t)
      PROVE  at' \in EventTimes
  <2>1. PICK e : e = log'[Len(log')]
    OBVIOUS
  <2>2. at' = at \/ at' = [at EXCEPT ![e.type][e.p] = t]
    BY <1>1, <2>1 DEF EventAt
  <2> QED BY <1>0, <1>1, <2>2 DEF EventTimes
<1>2. ASSUME NEW w \in Worker, SubmitReserve(w)
      PROVE  reused' \subseteq CampaignId
  BY <1>0, <1>2 DEF SubmitReserve
<1>3. ASSUME NEW w \in Worker, SubmitRecord(w)
      PROVE  at' \in EventTimes /\ UNCHANGED <<clock, reused, overtook>>
  <2>1. job[w].case.ev \in Evidence
    BY <1>3, JobFacts, CaseFacts DEF SubmitRecord, SubmitPcs, IInv
  <2> QED BY <1>0, <1>1, <1>3, <2>1 DEF SubmitRecord, history
<1>4. ASSUME NEW w \in Worker, SynchronizeMark(w)
      PROVE  at' \in EventTimes /\ UNCHANGED <<clock, reused, overtook>>
  <2>1. job[w].t \in Nat
    BY <1>4, JobFacts DEF SynchronizeMark, GovernPcs, IInv
  <2> QED BY <1>1, <1>4, <2>1 DEF SynchronizeMark, history
<1>5. ASSUME NEW w \in Worker, MoveRegistry(w)
      PROVE  /\ at' \in EventTimes /\ overtook' \subseteq Kinds \X Policy
             /\ UNCHANGED <<clock, reused>>
  <2>1. job[w].t \in Nat /\ job[w].k \in Kinds /\ job[w].p \in Policy
    BY <1>5, JobFacts DEF MoveRegistry, GovernPcs, IInv
  <2> QED BY <1>0, <1>1, <1>5, <2>1 DEF MoveRegistry
<1>6. ASSUME NEW p \in Policy, Register(p) \/ Admit(p)
      PROVE  at' \in EventTimes /\ UNCHANGED <<clock, reused, overtook>>
  <2>1. PICK t \in 0..clock : EventAt(t)
    BY <1>0, <1>6 DEF Register, Admit
  <2> QED BY <1>0, <1>1, <1>6, <2>1 DEF Register, Admit, history
<1>7. ASSUME ~WritesRegistry, ~\E w \in Worker : SubmitReserve(w)
      PROVE  reused' = reused
  <2>1. ASSUME NEW w \in Worker,
               \/ SubmitFind(w) \/ SubmitResume(w) \/ SubmitAttach(w) \/ SubmitEvaluate(w)
               \/ MoveComplete(w) \/ Abort(w)
        PROVE  reused' = reused
    BY <2>1 DEF SubmitFind, SubmitResume, SubmitAttach, SubmitEvaluate, MoveComplete, Abort, history
  <2>2. ASSUME NEW w \in Worker,
               \/ \E case \in Submitted : SubmitStart(w, case) \/ SubmitAgain(w, case)
               \/ \E k \in Kinds, p \in Policy : Synchronize(w, k, p) \/ Move(w, k, p)
        PROVE  reused' = reused
    BY <2>2 DEF SubmitStart, SubmitAgain, Synchronize, Move, SynchronizeStart, MoveStart, history
  <2>3. ASSUME NEW k \in Kinds, NEW a,
               (\E p \in Policy : Approve(k, p, a))
                 \/ \E c \in CampaignId : ApproveDirectly(c, a) \/ Close(c, a)
        PROVE  reused' = reused
    BY <2>3 DEF Approve, ApproveDirectly, Close, history
  <2>4. CASE Tick \/ UNCHANGED vars
    BY <2>4 DEF Tick, vars, history
  <2> QED BY <1>7, <2>1, <2>2, <2>3, <2>4 DEF Next, Progress, WritesRegistry
<1>8. CASE WritesRegistry
  BY <1>0, <1>3, <1>4, <1>5, <1>6, <1>8 DEF WritesRegistry
<1>9. CASE ~WritesRegistry
  BY <1>0, <1>2, <1>7, <1>9, QuietTimes
<1> QED BY <1>8, <1>9

LEMMA InvariantStep ==
  ASSUME IInv, [Next]_vars
  PROVE  IInv'
BY Assumed, HistoryStep, StepFacts, CampaignInvariants, BindingStep, JobStep DEF IInv, TypeOK

THEOREM InvariantHolds == Spec => []IInv
<1>1. Init => IInv
  BY InvariantStarts
<1>2. IInv /\ [Next]_vars => IInv'
  BY InvariantStep
<1> QED BY <1>1, <1>2, PTL DEF Spec

(* Records are well formed and the pointer designates the one active        *)
(* policy, whatever calls run, stop and repeat between the two databases.   *)
THEOREM TypeCorrect == Spec => []TypeOK
<1>1. IInv => TypeOK
  BY DEF IInv
<1> QED BY <1>1, InvariantHolds, PTL

(* verify_state never raises.                                               *)
THEOREM RegistryIsConsistent == Spec => []RegistryVerifies
<1>1. IInv => RegistryVerifies
  BY DEF IInv, FamilyInv, RegistryVerifies
<1> QED BY <1>1, InvariantHolds, PTL

-----------------------------------------------------------------------------
(* The times of the registry: each event of a change is dated after what it *)
(* follows, and by another hand than the one that authorized it.            *)
TimesAt(k, p) ==
  LET b == pol[p][k] IN
  /\ b.ev # NoEvidence =>
       /\ at[Judged(k)][p] <= askedAt[b.ev] /\ askedAt[b.ev] <= judgedAt[b.ev]
       /\ judgedAt[b.ev] <= clock
       /\ at[SubmitEvent(k, p)][p] = judgedAt[b.ev]
  /\ b.auth # Nobody =>
       judgedAt[b.ev] <= at[AuthEvent(k)][p] /\ at[AuthEvent(k)][p] <= clock
  /\ b.by # Nobody /\ <<k, p>> \notin overtook =>
       at[AuthEvent(k)][p] <= at[MoveEvent(k)][p] /\ b.by # b.auth

(* What a call knows of the times, and a move of its authorizer, from the   *)
(* step in which it checked them.                                           *)
InTime(j) ==
  /\ j.pc \in {"find", "reserve", "record"} => IsDated(j.case)
  /\ j.pc = "mark" => judgedAt[pol[j.p][j.k].ev] <= j.t /\ j.t <= clock
  /\ j.pc = "move" =>
       /\ j.saw = "authorized" =>
            /\ pol[j.p][j.k].auth # Nobody /\ pol[j.p][j.k].auth # j.a
            /\ at[AuthEvent(j.k)][j.p] <= j.t
       /\ j.saw = "applied" => pol[j.p].status \in Final(j.k)

PassedInv ==
  \A p \in Trained :
    Known(p) /\ pol[p].status \notin {"candidate", "rejected"} => p \in promotable

TimeInv ==
  /\ \A p \in Trained, k \in Kinds : Known(p) => TimesAt(k, p)
  /\ \A w \in Worker : InTime(job[w])
  /\ PassedInv

(* The event that a transaction appends is dated, and no other.             *)
Dates(type, p, t) ==
  /\ at'[type][p] = t
  /\ \A u \in EventTypes, q \in Policy : u # type \/ q # p => at'[u][q] = at[u][q]

LEMMA EventEffect ==
  ASSUME TypeOK, NEW p \in Policy, NEW type \in EventTypes, Logs(type, p), NEW t, EventAt(t)
  PROVE  Dates(type, p, t) /\ log' # log
<1>1. log \in Seq([type: EventTypes, p: Policy]) /\ [type |-> type, p |-> p] \in [type: EventTypes, p: Policy]
  BY DEF TypeOK, RegistryTypeOK
<1>2. Len(log') = Len(log) + 1 /\ log'[Len(log')] = [type |-> type, p |-> p]
  BY <1>1 DEF Logs
<1>3. log' # log
  BY <1>1, <1>2
<1>4. at' = [at EXCEPT ![type][p] = t]
  BY <1>2, <1>3 DEF EventAt
<1> QED BY <1>3, <1>4 DEF Dates, TypeOK, EventTimes

LEMMA EventNames ==
  ASSUME NEW k \in Kinds, NEW p
  PROVE  /\ {Judged(k), SubmitEvent(k, p), AuthEvent(k), MoveEvent(k)} \subseteq EventTypes
         /\ "candidate_admitted" \in EventTypes /\ "registered" \in EventTypes
BY DEF EventTypes, Judged, SubmitEvent, AuthEvent, MoveEvent, Kinds

(* The events of a policy that tell of its bindings are settled with them.  *)
EventsStay ==
  \A q \in Trained : Known(q) =>
    /\ at'["candidate_admitted"][q] = at["candidate_admitted"][q]
    /\ \A k \in Kinds :
         /\ pol[q][k].ev # NoEvidence => at'[SubmitEvent(k, q)][q] = at[SubmitEvent(k, q)][q]
         /\ pol[q][k].auth # Nobody => at'[AuthEvent(k)][q] = at[AuthEvent(k)][q]
         /\ pol[q][k].by # Nobody => at'[MoveEvent(k)][q] = at[MoveEvent(k)][q]

LEMMA OneEvent ==
  ASSUME AllAssumptions, NEW p \in Policy, NEW k \in Kinds, NEW t,
         \/ ~Known(p) /\ \E type \in EventTypes : Dates(type, p, t)
         \/ pol[p][k].ev = NoEvidence /\ Dates(SubmitEvent(k, p), p, t)
         \/ pol[p][k].auth = Nobody /\ Dates(AuthEvent(k), p, t)
         \/ pol[p][k].by = Nobody /\ Dates(MoveEvent(k), p, t)
  PROVE  EventsStay
<1> SUFFICES ASSUME NEW q \in Trained, Known(q), NEW j \in Kinds
             PROVE  /\ at'["candidate_admitted"][q] = at["candidate_admitted"][q]
                    /\ pol[q][j].ev # NoEvidence => at'[SubmitEvent(j, q)][q] = at[SubmitEvent(j, q)][q]
                    /\ pol[q][j].auth # Nobody => at'[AuthEvent(j)][q] = at[AuthEvent(j)][q]
                    /\ pol[q][j].by # Nobody => at'[MoveEvent(j)][q] = at[MoveEvent(j)][q]
  BY DEF EventsStay, Kinds
<1>1. /\ q \in Policy
      /\ {SubmitEvent(j, q), AuthEvent(j), MoveEvent(j), "candidate_admitted"} \subseteq EventTypes
  BY EventNames DEF Trained
<1>2. CASE q # p
  BY <1>1, <1>2 DEF Dates
<1>3. CASE q = p
  <2>1. CASE pol[p][k].ev = NoEvidence /\ Dates(SubmitEvent(k, p), p, t)
    <3>1. /\ SubmitEvent(k, p) \notin {AuthEvent(j), MoveEvent(j), "candidate_admitted"}
          /\ j # k => SubmitEvent(k, p) # SubmitEvent(j, p)
      BY DEF SubmitEvent, AuthEvent, MoveEvent, Kinds
    <3> QED BY <1>1, <1>3, <2>1, <3>1 DEF Dates
  <2>2. CASE pol[p][k].auth = Nobody /\ Dates(AuthEvent(k), p, t)
    <3>1. /\ AuthEvent(k) \notin {SubmitEvent(j, p), MoveEvent(j), "candidate_admitted"}
          /\ j # k => AuthEvent(k) # AuthEvent(j)
      BY DEF SubmitEvent, AuthEvent, MoveEvent, Kinds
    <3> QED BY <1>1, <1>3, <2>2, <3>1 DEF Dates
  <2>3. CASE pol[p][k].by = Nobody /\ Dates(MoveEvent(k), p, t)
    <3>1. /\ MoveEvent(k) \notin {SubmitEvent(j, p), AuthEvent(j), "candidate_admitted"}
          /\ j # k => MoveEvent(k) # MoveEvent(j)
      BY DEF SubmitEvent, AuthEvent, MoveEvent, Kinds
    <3> QED BY <1>1, <1>3, <2>3, <3>1 DEF Dates
  <2> QED BY <1>3, <2>1, <2>2, <2>3
<1> QED BY <1>2, <1>3

(* Each kind of step that writes the registry, with its event.              *)
Enters(p) ==
  /\ ~Known(p) /\ pol'[p].promotion = Unbound /\ pol'[p].rollback = Unbound
  /\ p \in Trained => pol'[p].status = "candidate"
  /\ \A q \in Policy : q # p => pol'[q] = pol[q]
  /\ \E type \in EventTypes, t \in Nat : Dates(type, p, t)
Recorded(w) == Records(w) /\ EventAt(judgedAt[job[w].case.ev]) /\ overtook' = overtook
Marked(w) == Marks(w) /\ EventAt(job[w].t) /\ overtook' = overtook
Carried(w) ==
  /\ MovesHead(w) /\ EventAt(job[w].t)
  /\ overtook' = IF job[w].saw = "nothing" /\ log' # log
                 THEN overtook \cup {<<job[w].k, job[w].p>>} ELSE overtook

LEMMA StepOnTimes ==
  ASSUME IInv, AllAssumptions, [Next]_vars
  PROVE  \/ UNCHANGED <<registryVars, at, overtook>> /\ clock <= clock'
         \/ /\ clock' = clock /\ UNCHANGED campaignVars
            /\ \/ \E p \in Policy : Enters(p) /\ overtook' = overtook
               \/ \E w \in Worker : Recorded(w) \/ Marked(w) \/ Carried(w)
<1>0. clock \in Nat /\ TypeOK
  BY DEF IInv, TypeOK
<1>1. ASSUME UNCHANGED registryVars, NEW t, EventAt(t)
      PROVE  at' = at
  BY <1>1 DEF registryVars, EventAt
<1>2. ASSUME NEW p \in Policy, Register(p) \/ Admit(p)
      PROVE  Enters(p) /\ UNCHANGED <<campaignVars, clock, overtook>>
  <2>1. PICK t \in 0..clock : EventAt(t)
    BY <1>0, <1>2 DEF Register, Admit
  <2>2. PICK type \in EventTypes, status \in Statuses :
          /\ Logs(type, p) /\ pol' = [pol EXCEPT ![p] = NewRecord(status)]
          /\ pol[p] = NoRecord /\ (p \in Trained => status = "candidate")
    BY <1>2 DEF Register, Admit, RegisterInitial, AdmitCandidate, Append_, Logs, EventTypes,
                Statuses, IInv, FamilyInv, Trained
  <2>3. /\ pol'[p].promotion = Unbound /\ pol'[p].rollback = Unbound /\ pol'[p].status = status
        /\ \A q \in Policy : q # p => pol'[q] = pol[q]
    BY <1>0, <2>2 DEF NewRecord, TypeOK, RegistryTypeOK
  <2>4. Dates(type, p, t) /\ t \in Nat
    BY <1>0, <2>1, <2>2, EventEffect
  <2>5. Enters(p)
    BY <2>2, <2>3, <2>4 DEF Enters, Known
  <2> QED BY <1>2, <2>5 DEF Register, Admit, history
<1>3. ASSUME NEW w \in Worker, SubmitRecord(w)
      PROVE  /\ UNCHANGED <<campaignVars, clock, overtook>>
             /\ UNCHANGED <<registryVars, at>> \/ Recorded(w)
  BY <1>1, <1>3, RecordWrites DEF SubmitRecord, history, Recorded
<1>4. ASSUME NEW w \in Worker, SynchronizeMark(w)
      PROVE  /\ UNCHANGED <<campaignVars, clock, overtook>>
             /\ UNCHANGED <<registryVars, at>> \/ Marked(w)
  BY <1>1, <1>4, MarkWrites DEF SynchronizeMark, history, Marked
<1>5. ASSUME NEW w \in Worker, MoveRegistry(w)
      PROVE  /\ UNCHANGED <<campaignVars, clock>>
             /\ UNCHANGED <<registryVars, at, overtook>> \/ Carried(w)
  <2>1. CASE UNCHANGED registryVars
    BY <1>1, <1>5, <2>1 DEF MoveRegistry, registryVars
  <2>2. CASE MovesHead(w)
    BY <1>5, <2>2 DEF MoveRegistry, Carried
  <2> QED BY <1>5, <2>1, <2>2, MoveWrites DEF MoveRegistry
<1>6. CASE WritesRegistry
  BY <1>0, <1>2, <1>3, <1>4, <1>5, <1>6 DEF WritesRegistry
<1>7. CASE ~WritesRegistry
  BY <1>7, QuietTimes
<1> QED BY <1>6, <1>7

(* The fields that a written event belongs to, whichever step wrote it.     *)
LEMMA RecordedFields ==
  ASSUME IInv, AllAssumptions, NEW w \in Worker, Recorded(w)
  PROVE  \E p \in Trained, k \in Kinds, ev \in Evidence :
           /\ p \in Policy /\ p = job[w].case.p /\ k = job[w].case.kind /\ ev = job[w].case.ev
           /\ Known(p) /\ pol[p][k].ev = NoEvidence /\ Dates(SubmitEvent(k, p), p, judgedAt[ev])
           /\ pol'[p][k].ev = ev /\ pol'[p][k].auth = Nobody /\ pol'[p][k].by = Nobody
           /\ \A q \in Policy, j \in Kinds : q # p \/ j # k => pol'[q][j] = pol[q][j]
           /\ \A q \in Policy : Known(q)' <=> Known(q)
           /\ \A q \in Policy : q # p => pol'[q] = pol[q]
           /\ IF k = "promotion" THEN pol'[p].status = "rejected" <=> p \notin promotable
                                 ELSE pol[p].status = "active"
<1>1. PICK c \in CampaignId, p \in Policy, k \in Kinds, ev \in Evidence :
        /\ c = job[w].c /\ p = job[w].case.p /\ k = job[w].case.kind /\ ev = job[w].case.ev
  BY JobFacts, CaseFacts DEF Recorded, Records, HoldingPcs, SubmitPcs, IInv
<1>2. Records(w) /\ EventAt(judgedAt[ev]) /\ TypeOK
  BY <1>1 DEF Recorded, IInv
<1>3. /\ p \in Trained /\ Known(p) /\ pol[p][k].ev = NoEvidence
      /\ pol'[p][k].ev = ev /\ pol'[p][k].auth = Nobody /\ pol'[p][k].by = Nobody
      /\ \A j \in Kinds : j # k => pol'[p][j] = pol[p][j]
      /\ \A q \in Policy : q # p => pol'[q] = pol[q]
      /\ \A q \in Policy : Known(q)' <=> Known(q)
      /\ Logs(SubmitEvent(k, p), p)
      /\ IF k = "promotion" THEN pol'[p].status = "rejected" <=> p \notin promotable
                            ELSE pol[p].status = "active"
  BY <1>1, <1>2, RecordEffect
<1>4. Dates(SubmitEvent(k, p), p, judgedAt[ev])
  BY <1>2, <1>3, EventEffect, EventNames
<1>5. \A q \in Policy, j \in Kinds : q # p \/ j # k => pol'[q][j] = pol[q][j]
  BY <1>3
<1> QED BY <1>1, <1>3, <1>4, <1>5

LEMMA MarkedFields ==
  ASSUME IInv, AllAssumptions, NEW w \in Worker, Marked(w)
  PROVE  \E p \in Trained, k \in Kinds :
           /\ p \in Policy /\ p = job[w].p /\ k = job[w].k
           /\ Known(p) /\ pol[p][k].ev # NoEvidence /\ pol[p][k].auth = Nobody
           /\ Dates(AuthEvent(k), p, job[w].t)
           /\ pol'[p][k].ev = pol[p][k].ev /\ pol'[p][k].by = Nobody
           /\ \A q \in Policy, j \in Kinds : q # p \/ j # k => pol'[q][j] = pol[q][j]
           /\ \A q \in Policy : Known(q)' <=> Known(q)
           /\ \A q \in Policy : q # p => pol'[q] = pol[q]
           /\ pol[p].status \in {"evaluated", "active"}
<1>1. PICK p \in Policy, k \in Kinds, a \in Actor : p = job[w].p /\ k = job[w].k /\ a = job[w].a
  BY JobFacts DEF Marked, Marks, GovernPcs, IInv
<1>2. Marks(w) /\ EventAt(job[w].t) /\ TypeOK
  BY <1>1 DEF Marked, IInv
<1>3. /\ p \in Trained /\ Known(p) /\ pol[p][k].ev # NoEvidence /\ pol[p][k].auth = Nobody
      /\ pol'[p][k].ev = pol[p][k].ev /\ pol'[p][k].by = Nobody
      /\ \A j \in Kinds : j # k => pol'[p][j] = pol[p][j]
      /\ \A q \in Policy : q # p => pol'[q] = pol[q]
      /\ \A q \in Policy : Known(q)' <=> Known(q)
      /\ Logs(AuthEvent(k), p) /\ pol[p].status \in {"evaluated", "active"}
  BY <1>1, <1>2, MarkEffect
<1>4. Dates(AuthEvent(k), p, job[w].t)
  BY <1>2, <1>3, EventEffect, EventNames
<1>5. \A q \in Policy, j \in Kinds : q # p \/ j # k => pol'[q][j] = pol[q][j]
  BY <1>3
<1> QED BY <1>1, <1>3, <1>4, <1>5

LEMMA CarriedFields ==
  ASSUME IInv, AllAssumptions, NEW w \in Worker, Carried(w)
  PROVE  \E p \in Trained, k \in Kinds :
           /\ p \in Policy /\ p = job[w].p /\ k = job[w].k
           /\ Known(p) /\ pol[p][k].ev # NoEvidence /\ pol[p][k].by = Nobody
           /\ Dates(MoveEvent(k), p, job[w].t)
           /\ pol[p][k].auth # Nobody
           /\ pol'[p][k].ev = pol[p][k].ev /\ pol'[p][k].auth = pol[p][k].auth
           /\ pol'[p][k].by = job[w].a
           /\ \A q \in Policy, j \in Kinds : q # p \/ j # k => pol'[q][j] = pol[q][j]
           /\ \A q \in Policy : Known(q)' <=> Known(q)
           /\ \A q \in Policy : q # p => pol'[q] = pol[q] \/ pol[q].status \in Applied
           /\ pol[p].status \in {"authorized", "active"} \ Final(k)
           /\ overtook' = IF job[w].saw = "nothing" THEN overtook \cup {<<k, p>>} ELSE overtook
<1>1. PICK p \in Policy, k \in Kinds, a \in Actor : p = job[w].p /\ k = job[w].k /\ a = job[w].a
  BY JobFacts DEF Carried, MovesHead, GovernPcs, IInv
<1>2. MovesHead(w) /\ EventAt(job[w].t) /\ TypeOK
  BY <1>1 DEF Carried, IInv
<1>3. /\ p \in Trained /\ Known(p) /\ pol[p][k].auth # Nobody /\ pol[p][k].ev # NoEvidence
      /\ pol[p][k].by = Nobody
      /\ pol'[p][k].ev = pol[p][k].ev /\ pol'[p][k].auth = pol[p][k].auth /\ pol'[p][k].by = a
      /\ \A j \in Kinds : j # k => pol'[p][j] = pol[p][j]
      /\ \A q \in Policy : q # p => pol'[q].promotion = pol[q].promotion
                                    /\ pol'[q].rollback = pol[q].rollback
      /\ \A q \in Policy : q # p => pol'[q] = pol[q] \/ pol[q].status \in Applied
      /\ \A q \in Policy : Known(q)' <=> Known(q)
      /\ Logs(MoveEvent(k), p)
      /\ pol[p].status \in {"authorized", "active"} \ Final(k)
  BY <1>1, <1>2, MoveEffect
<1>4. Dates(MoveEvent(k), p, job[w].t) /\ log' # log
  BY <1>2, <1>3, EventEffect, EventNames
<1>5. \A q \in Policy, j \in Kinds : q # p \/ j # k => pol'[q][j] = pol[q][j]
  BY <1>3 DEF Kinds
<1>6. overtook' = IF job[w].saw = "nothing" THEN overtook \cup {<<k, p>>} ELSE overtook
  BY <1>1, <1>4 DEF Carried
<1>7. pol'[p][k].by = job[w].a
  BY <1>1, <1>3
<1>8. p \in Trained /\ k \in Kinds /\ p \in Policy
  BY <1>3
<1> QED BY <1>1, <1>3, <1>4, <1>5, <1>6, <1>7, <1>8, ZenonT(60)

LEMMA EventsAreSettled ==
  ASSUME IInv, AllAssumptions, [Next]_vars
  PROVE  EventsStay
<1>1. CASE at' = at
  BY <1>1 DEF EventsStay
<1>2. ASSUME NEW p \in Policy, Enters(p)
      PROVE  EventsStay
  BY <1>2, OneEvent DEF Enters, Kinds
<1>3. ASSUME NEW w \in Worker, Recorded(w)
      PROVE  EventsStay
  <2>1. PICK p \in Trained, k \in Kinds, ev \in Evidence :
          p \in Policy /\ pol[p][k].ev = NoEvidence /\ Dates(SubmitEvent(k, p), p, judgedAt[ev])
    BY <1>3, RecordedFields
  <2> QED BY <2>1, OneEvent
<1>4. ASSUME NEW w \in Worker, Marked(w)
      PROVE  EventsStay
  <2>1. PICK p \in Trained, k \in Kinds :
          p \in Policy /\ pol[p][k].auth = Nobody /\ Dates(AuthEvent(k), p, job[w].t)
    BY <1>4, MarkedFields
  <2> QED BY <2>1, OneEvent
<1>5. ASSUME NEW w \in Worker, Carried(w)
      PROVE  EventsStay
  <2>1. PICK p \in Trained, k \in Kinds :
          p \in Policy /\ pol[p][k].by = Nobody /\ Dates(MoveEvent(k), p, job[w].t)
    BY <1>5, CarriedFields
  <2> QED BY <2>1, OneEvent
<1> QED BY <1>1, <1>2, <1>3, <1>4, <1>5, StepOnTimes

(* What the evidence of a change judges is settled before the evidence.     *)
LEMMA JudgedStays ==
  ASSUME IInv, EventsStay, NEW p \in Trained, Known(p), NEW k \in Kinds,
         k = "rollback" => pol[p].status \in Applied
  PROVE  at'[Judged(k)][p] = at[Judged(k)][p]
<1>1. CASE k = "promotion"
  BY <1>1 DEF EventsStay, Judged
<1>2. CASE k = "rollback"
  <2>1. pol[p].promotion.by # Nobody
    BY <1>2 DEF IInv, StatusInv, StatusInvAt, Trained
  <2> QED BY <1>2, <2>1 DEF EventsStay, Judged, MoveEvent, Kinds
<1> QED BY <1>1, <1>2 DEF Kinds

LEMMA EvidenceIsDated ==
  ASSUME IInv, EventsStay, NEW p \in Trained, Known(p), NEW k \in Kinds,
         pol[p][k].ev # NoEvidence
  PROVE  at'[Judged(k)][p] = at[Judged(k)][p]
<1>1. k = "rollback" => pol[p].status \in Applied
  BY DEF IInv, StatusInv, StatusInvAt, Trained
<1> QED BY <1>1, JudgedStays

(* The times as they are typed.                                             *)
LEMMA TimeTypes ==
  ASSUME TypeOK, AllAssumptions
  PROVE  /\ clock \in Nat
         /\ \A type \in EventTypes, p \in Policy : at[type][p] \in Nat
         /\ \A ev \in Evidence : askedAt[ev] \in Nat /\ judgedAt[ev] \in Nat
BY DEF TypeOK, EventTimes, AllAssumptions, LifecycleAssumption, LocalPolicyAssumption

LEMMA UntouchedTimes ==
  ASSUME IInv, AllAssumptions, [Next]_vars, NEW p \in Trained, Known(p), NEW k \in Kinds,
         TimesAt(k, p), pol'[p][k] = pol[p][k],
         <<k, p>> \notin overtook' => <<k, p>> \notin overtook, clock <= clock'
  PROVE  TimesAt(k, p)'
<1>1. EventsStay /\ p \in Policy /\ pol[p][k] \in Binding /\ StatusInvAt(p) /\ TypeOK
  BY EventsAreSettled, RecordFacts DEF Trained, IInv, TypeOK, StatusInv
<1>2. clock \in Nat /\ clock' \in Nat
  BY <1>1, HistoryStep DEF TypeOK
<1>3. /\ \A ev \in Evidence : judgedAt[ev] \in Nat
      /\ at[AuthEvent(k)][p] \in Nat
  BY <1>1, TimeTypes, EventNames
<1>4. pol[p][k].ev # NoEvidence =>
        /\ pol[p][k].ev \in Evidence /\ at'[Judged(k)][p] = at[Judged(k)][p]
        /\ at'[SubmitEvent(k, p)][p] = at[SubmitEvent(k, p)][p]
  BY <1>1, EvidenceIsDated DEF EventsStay, Binding
<1>5. /\ pol[p][k].auth # Nobody => at'[AuthEvent(k)][p] = at[AuthEvent(k)][p]
      /\ pol[p][k].by # Nobody => at'[MoveEvent(k)][p] = at[MoveEvent(k)][p]
  BY <1>1 DEF EventsStay
<1>6. pol[p][k].by # Nobody => pol[p][k].auth # Nobody
  BY <1>1 DEF StatusInvAt, Coherent, Kinds
<1>7. SubmitEvent(k, p)' = SubmitEvent(k, p)
  BY DEF SubmitEvent
<1> QED BY <1>2, <1>3, <1>4, <1>5, <1>6, <1>7 DEF TimesAt

LEMMA TimesStep ==
  ASSUME IInv, TimeInv, AllAssumptions, [Next]_vars
  PROVE  \A p \in Trained, k \in Kinds : Known(p)' => TimesAt(k, p)'
<1>0. EventsStay /\ \A p \in Trained : p \in Policy
  BY EventsAreSettled DEF Trained
<1>1. ASSUME NEW p \in Trained, NEW k \in Kinds, Known(p), pol'[p][k] = pol[p][k],
             <<k, p>> \notin overtook' => <<k, p>> \notin overtook, clock <= clock'
      PROVE  TimesAt(k, p)'
  BY <1>1, UntouchedTimes DEF TimeInv
<1>2. TypeOK /\ clock <= clock
  BY TimeTypes DEF IInv
<1>3. CASE UNCHANGED <<registryVars, at, overtook>> /\ clock <= clock'
  BY <1>0, <1>1, <1>3 DEF registryVars, Known
<1>4. ASSUME NEW p \in Policy, Enters(p), overtook' = overtook, clock' = clock,
             NEW q \in Trained, NEW j \in Kinds, Known(q)'
      PROVE  TimesAt(j, q)'
  <2>1. CASE q = p
    <3>1. pol'[q][j] = Unbound
      BY <1>4, <2>1 DEF Enters, Kinds
    <3> QED BY <3>1 DEF TimesAt, Unbound
  <2>2. CASE q # p
    <3>1. Known(q) /\ pol'[q] = pol[q]
      BY <1>0, <1>4, <2>2 DEF Enters, Known
    <3> QED BY <1>1, <1>2, <1>4, <3>1
  <2> QED BY <2>1, <2>2
<1>5. ASSUME NEW w \in Worker, Recorded(w), clock' = clock,
             NEW q \in Trained, NEW j \in Kinds, Known(q)'
      PROVE  TimesAt(j, q)'
  <2>1. PICK p \in Trained, k \in Kinds, ev \in Evidence :
           /\ p \in Policy /\ p = job[w].case.p /\ k = job[w].case.kind /\ ev = job[w].case.ev
           /\ Known(p) /\ Dates(SubmitEvent(k, p), p, judgedAt[ev])
           /\ pol'[p][k].ev = ev /\ pol'[p][k].auth = Nobody /\ pol'[p][k].by = Nobody
           /\ \A x \in Policy, i \in Kinds : x # p \/ i # k => pol'[x][i] = pol[x][i]
           /\ \A x \in Policy : Known(x)' <=> Known(x)
           /\ k = "rollback" => pol[p].status = "active"
    BY <1>5, RecordedFields
  <2>2. overtook' = overtook /\ job[w].pc = "record"
    BY <1>5 DEF Recorded, Records
  <2>3. CASE q = p /\ j = k
    <3>1. IsDated(job[w].case)
      BY <2>2 DEF TimeInv, InTime
    <3>2. /\ at[Judged(k)][p] <= askedAt[ev] /\ askedAt[ev] <= judgedAt[ev]
          /\ judgedAt[ev] <= clock
      BY <2>1, <3>1 DEF IsDated
    <3>3. at'[Judged(k)][p] = at[Judged(k)][p]
      BY <1>0, <2>1, JudgedStays DEF Applied
    <3>4. at'[SubmitEvent(k, p)][p] = judgedAt[ev]
      BY <2>1 DEF Dates
    <3> QED BY <1>5, <2>1, <2>3, <3>2, <3>3, <3>4 DEF TimesAt, SubmitEvent
  <2>4. CASE ~(q = p /\ j = k)
    BY <1>0, <1>1, <1>2, <1>5, <2>1, <2>2, <2>4
  <2> QED BY <2>3, <2>4
<1>6. ASSUME NEW w \in Worker, Marked(w), clock' = clock,
             NEW q \in Trained, NEW j \in Kinds, Known(q)'
      PROVE  TimesAt(j, q)'
  <2>1. PICK p \in Trained, k \in Kinds :
           /\ p \in Policy /\ p = job[w].p /\ k = job[w].k
           /\ Known(p) /\ pol[p][k].ev # NoEvidence /\ Dates(AuthEvent(k), p, job[w].t)
           /\ pol'[p][k].ev = pol[p][k].ev /\ pol'[p][k].by = Nobody
           /\ \A x \in Policy, i \in Kinds : x # p \/ i # k => pol'[x][i] = pol[x][i]
           /\ \A x \in Policy : Known(x)' <=> Known(x)
    BY <1>6, MarkedFields
  <2>2. overtook' = overtook /\ job[w].pc = "mark"
    BY <1>6 DEF Marked, Marks
  <2>3. CASE q = p /\ j = k
    <3>1. judgedAt[pol[p][k].ev] <= job[w].t /\ job[w].t <= clock
      BY <2>1, <2>2 DEF TimeInv, InTime
    <3>2. /\ at'[Judged(k)][p] = at[Judged(k)][p]
          /\ at'[SubmitEvent(k, p)][p] = at[SubmitEvent(k, p)][p]
      BY <1>0, <2>1, EvidenceIsDated DEF EventsStay
    <3>3. at'[AuthEvent(k)][p] = job[w].t
      BY <2>1 DEF Dates
    <3>4. TimesAt(k, p)
      BY <2>1 DEF TimeInv
    <3> QED BY <1>6, <2>1, <2>3, <3>1, <3>2, <3>3, <3>4 DEF TimesAt, SubmitEvent
  <2>4. CASE ~(q = p /\ j = k)
    BY <1>0, <1>1, <1>2, <1>6, <2>1, <2>2, <2>4
  <2> QED BY <2>3, <2>4
<1>7. ASSUME NEW w \in Worker, Carried(w), clock' = clock,
             NEW q \in Trained, NEW j \in Kinds, Known(q)'
      PROVE  TimesAt(j, q)'
  <2>1. PICK p \in Trained, k \in Kinds :
           /\ p \in Policy /\ p = job[w].p /\ k = job[w].k
           /\ Known(p) /\ pol[p][k].ev # NoEvidence /\ Dates(MoveEvent(k), p, job[w].t)
           /\ pol[p][k].auth # Nobody
           /\ pol'[p][k].ev = pol[p][k].ev /\ pol'[p][k].auth = pol[p][k].auth
           /\ pol'[p][k].by = job[w].a
           /\ \A x \in Policy, i \in Kinds : x # p \/ i # k => pol'[x][i] = pol[x][i]
           /\ \A x \in Policy : Known(x)' <=> Known(x)
           /\ pol[p].status \in {"authorized", "active"} \ Final(k)
           /\ overtook' = IF job[w].saw = "nothing" THEN overtook \cup {<<k, p>>} ELSE overtook
    BY <1>7, CarriedFields
  <2>2. job[w].pc = "move" /\ job[w].saw \in {"nothing", "authorized", "applied"}
    <3>1. job[w].pc = "move" /\ job[w] \in Jobs \cup {Idle}
      BY <1>7 DEF Carried, MovesHead, IInv, TypeOK
    <3> QED BY <3>1 DEF Jobs, Idle
  <2>3. CASE q = p /\ j = k
    <3>1. <<k, p>> \notin overtook' =>
            job[w].a # pol[p][k].auth /\ at[AuthEvent(k)][p] <= job[w].t
      <4>1. job[w].saw # "applied"
        BY <2>1, <2>2 DEF TimeInv, InTime
      <4>2. job[w].saw = "authorized" =>
              job[w].a # pol[p][k].auth /\ at[AuthEvent(k)][p] <= job[w].t
        BY <2>1, <2>2 DEF TimeInv, InTime
      <4> QED BY <2>1, <2>2, <4>1, <4>2
    <3>2. /\ at'[Judged(k)][p] = at[Judged(k)][p]
          /\ at'[SubmitEvent(k, p)][p] = at[SubmitEvent(k, p)][p]
          /\ at'[AuthEvent(k)][p] = at[AuthEvent(k)][p]
      BY <1>0, <2>1, EvidenceIsDated DEF EventsStay
    <3>3. at'[MoveEvent(k)][p] = job[w].t
      BY <2>1 DEF Dates
    <3>4. TimesAt(k, p)
      BY <2>1 DEF TimeInv
    <3> QED BY <1>7, <2>1, <2>3, <3>1, <3>2, <3>3, <3>4 DEF TimesAt, SubmitEvent
  <2>4. CASE ~(q = p /\ j = k)
    BY <1>0, <1>1, <1>2, <1>7, <2>1, <2>4
  <2> QED BY <2>3, <2>4
<1> QED BY <1>3, <1>4, <1>5, <1>6, <1>7, StepOnTimes

(* Nothing that failed its evaluation goes on.                              *)
LEMMA PassedStep ==
  ASSUME IInv, PassedInv, AllAssumptions, [Next]_vars
  PROVE  PassedInv'
<1>0. \A p \in Trained : p \in Policy
  BY DEF Trained
<1>1. CASE UNCHANGED registryVars
  BY <1>1 DEF registryVars, PassedInv, Known
<1>2. ASSUME NEW p \in Policy, Enters(p)
      PROVE  PassedInv'
  BY <1>0, <1>2 DEF Enters, PassedInv, Known
<1>3. ASSUME NEW w \in Worker, Recorded(w)
      PROVE  PassedInv'
  <2>1. PICK p \in Trained, k \in Kinds :
           /\ Known(p)
           /\ \A q \in Policy : Known(q)' <=> Known(q)
           /\ \A q \in Policy : q # p => pol'[q] = pol[q]
           /\ IF k = "promotion" THEN pol'[p].status = "rejected" <=> p \notin promotable
                                 ELSE pol[p].status = "active"
    BY <1>3, RecordedFields
  <2> QED BY <1>0, <2>1 DEF PassedInv
<1>4. ASSUME NEW w \in Worker, Marked(w)
      PROVE  PassedInv'
  <2>1. PICK p \in Trained :
           /\ Known(p)
           /\ \A q \in Policy : Known(q)' <=> Known(q)
           /\ \A q \in Policy : q # p => pol'[q] = pol[q]
           /\ pol[p].status \in {"evaluated", "active"}
    BY <1>4, MarkedFields
  <2> QED BY <1>0, <2>1 DEF PassedInv
<1>5. ASSUME NEW w \in Worker, Carried(w)
      PROVE  PassedInv'
  <2>1. PICK p \in Trained :
           /\ Known(p)
           /\ \A q \in Policy : Known(q)' <=> Known(q)
           /\ \A q \in Policy : q # p => pol'[q] = pol[q] \/ pol[q].status \in Applied
           /\ pol[p].status \in {"authorized", "active"}
    BY <1>5, CarriedFields
  <2> QED BY <1>0, <2>1 DEF PassedInv, Applied
<1> QED BY <1>1, <1>2, <1>3, <1>4, <1>5, StepOnTimes

(* What a call knows of the times stays true, whatever the others do.       *)
LEMMA InTimeStays ==
  ASSUME IInv, AllAssumptions, [Next]_vars, NEW j \in Jobs \cup {Idle}, Sound(j), InTime(j)
  PROVE  InTime(j)'
<1>0. /\ EventsStay /\ GoesOn /\ TypeOK
      /\ clock \in Nat /\ clock' \in Nat /\ clock <= clock'
  <2>1. clock \in Nat /\ clock <= clock'
    BY StepOnTimes, TimeTypes DEF IInv
  <2> QED BY <2>1, EventsAreSettled, StepFacts, HistoryStep DEF IInv
<1>1. /\ j.pc \in SubmitPcs => j.case \in Case
      /\ j.pc \in GovernPcs => j.k \in Kinds /\ j.p \in Policy /\ j.c \in CampaignId /\ j.t \in Nat
  BY DEF Jobs, Idle, SubmitPcs, GovernPcs
<1>2. ASSUME j.pc \in {"find", "reserve", "record"}
      PROVE  IsDated(j.case)'
  <2>1. /\ j.case \in Case /\ j.case.p \in Trained /\ Known(j.case.p) /\ IsDated(j.case)
        /\ j.case.kind = "rollback" => pol[j.case.p].status \in Applied
    BY <1>1, <1>2 DEF Sound, InTime, SubmitPcs
  <2>2. j.case.kind \in Kinds /\ j.case.ev \in Evidence /\ judgedAt[j.case.ev] \in Nat
    BY <2>1, CaseFacts, <1>0, TimeTypes
  <2>3. at'[Judged(j.case.kind)][j.case.p] = at[Judged(j.case.kind)][j.case.p]
    BY <1>0, <2>1, <2>2, JudgedStays
  <2> QED BY <1>0, <2>1, <2>2, <2>3 DEF IsDated
<1>3. ASSUME j.pc \in GovernPcs
      PROVE  /\ Operates(j) /\ j.p \in Trained /\ Known(j.p) /\ pol[j.p][j.k].ev # NoEvidence
             /\ pol[j.p][j.k] \in Binding
             /\ Later(pol[j.p][j.k], pol'[j.p][j.k])
  <2>1. Operates(j) /\ j.p \in Trained /\ Known(j.p) /\ pol[j.p][j.k].camp = j.c
    BY <1>3 DEF Sound, Operates
  <2>2. StatusInvAt(j.p) /\ j.c # NoCampaign /\ pol[j.p][j.k] \in Binding
    BY <1>0, <1>1, <1>3, <2>1, RecordFacts
       DEF IInv, TypeOK, StatusInv, AllAssumptions, LocalPolicyAssumption
  <2>3. Later(pol[j.p][j.k], pol'[j.p][j.k])
    BY <1>0, <1>1, <1>3, <2>1 DEF GoesOn, Kinds
  <2> QED BY <1>1, <1>3, <2>1, <2>2, <2>3 DEF StatusInvAt, Coherent, Kinds
<1>4. ASSUME j.pc = "mark"
      PROVE  judgedAt[pol'[j.p][j.k].ev] <= j.t /\ j.t <= clock'
  <2>1. j.pc \in GovernPcs
    BY <1>4 DEF GovernPcs
  <2>2. pol'[j.p][j.k].ev = pol[j.p][j.k].ev
    BY <1>3, <2>1 DEF Later
  <2> QED BY <1>0, <1>1, <1>4, <2>1, <2>2 DEF InTime
<1>5. ASSUME j.pc = "move", j.saw = "authorized"
      PROVE  /\ pol'[j.p][j.k].auth # Nobody /\ pol'[j.p][j.k].auth # j.a
             /\ at'[AuthEvent(j.k)][j.p] <= j.t
  <2>1. j.pc \in GovernPcs
    BY <1>5 DEF GovernPcs
  <2>2. pol[j.p][j.k].auth # Nobody /\ pol[j.p][j.k].auth # j.a /\ at[AuthEvent(j.k)][j.p] <= j.t
    BY <1>5 DEF InTime
  <2>3. pol'[j.p][j.k].auth = pol[j.p][j.k].auth
    BY <1>3, <2>1, <2>2 DEF Later
  <2>4. at'[AuthEvent(j.k)][j.p] = at[AuthEvent(j.k)][j.p]
    BY <1>0, <1>1, <1>3, <2>1, <2>2 DEF EventsStay
  <2> QED BY <2>2, <2>3, <2>4
<1>6. ASSUME j.pc = "move", j.saw = "applied"
      PROVE  pol'[j.p].status \in Final(j.k)
  <2>1. j.pc \in GovernPcs
    BY <1>6 DEF GovernPcs
  <2>2. pol[j.p].status \in Final(j.k)
    BY <1>6 DEF InTime
  <2> QED BY <1>0, <1>1, <1>3, <2>1, <2>2, FinalStays
<1> QED BY <1>2, <1>4, <1>5, <1>6 DEF InTime, AuthEvent

JobInTime ==
  \/ job' = job
  \/ \E w \in Worker, j \in Jobs \cup {Idle} : job' = [job EXCEPT ![w] = j] /\ InTime(j)'

LEMMA DoneInTime ==
  ASSUME NEW w \in Worker, Done(w)
  PROVE  JobInTime
<1>1. InTime(Idle)'
  BY DEF InTime, Idle
<1> QED BY <1>1 DEF Done, JobInTime

LEMMA SubmitInTime ==
  ASSUME IInv, TimeInv, AllAssumptions, [Next]_vars, NEW w \in Worker,
         \/ SubmitFind(w) \/ SubmitReserve(w) \/ SubmitRecord(w) \/ SubmitResume(w)
         \/ SubmitAttach(w) \/ SubmitEvaluate(w)
  PROVE  JobInTime
<1>1. PICK j \in Jobs \cup {Idle} : j = job[w]
  BY DEF IInv, TypeOK
<1>2. /\ TypeOK /\ InTime(j)' /\ j.pc \in SubmitPcs /\ j.case \in Case
      /\ j.pc \in {"attach", "start", "finish", "record"} => j.c \in CampaignId
  <2>1. Sound(j) /\ InTime(j)
    BY <1>1 DEF IInv, JobInv, TimeInv
  <2>2. j.pc \in SubmitPcs
    BY <1>1 DEF SubmitFind, SubmitReserve, SubmitRecord, SubmitResume, SubmitAttach,
                SubmitEvaluate, SubmitPcs
  <2> QED BY <1>1, <2>1, <2>2, InTimeStays, JobFacts DEF IInv, HoldingPcs
<1>3. ASSUME SubmitFind(w) \/ SubmitReserve(w)
      PROVE  JobInTime
  <2>1. j.pc \in {"find", "reserve"} /\ IsDated(j.case)'
    BY <1>1, <1>2, <1>3 DEF SubmitFind, SubmitReserve, InTime
  <2>2. PICK pc \in {"reserve", "record"}, c \in CampaignId \cup {NoCampaign},
             row \in {j.row} \cup {camp'[d] : d \in CampaignId} :
          job' = [job EXCEPT ![w] = SubmitJob(pc, j.case, c, row)]
    <3>1. CASE Goto(w, "reserve")
      <4>1. job' = [job EXCEPT ![w] = SubmitJob("reserve", j.case, j.c, j.row)]
        BY <1>1, <1>2, <3>1, JobWrites
      <4>2. j.c = NoCampaign
        BY <2>1 DEF Jobs, Idle
      <4> QED BY <4>1, <4>2
    <3>2. ASSUME NEW c \in CampaignId, Remember(w, "record", c)
          PROVE  job' = [job EXCEPT ![w] = SubmitJob("record", j.case, c, camp'[c])]
      BY <1>1, <1>2, <3>2, JobWrites
    <3>3. Goto(w, "reserve") \/ \E c \in CampaignId : Remember(w, "record", c)
      BY <1>3 DEF SubmitFind, SubmitReserve, OpenOn
    <3> QED BY <3>1, <3>2, <3>3
  <2>3. job'[w] = SubmitJob(pc, j.case, c, row) /\ job'[w] \in Jobs \cup {Idle}
    BY <1>2, <2>2, JobStep DEF TypeOK
  <2>4. InTime(SubmitJob(pc, j.case, c, row))'
    BY <2>1, <2>2 DEF InTime, SubmitJob
  <2> QED BY <2>2, <2>3, <2>4 DEF JobInTime
<1>4. ASSUME SubmitRecord(w) \/ SubmitResume(w) \/ SubmitAttach(w) \/ SubmitEvaluate(w)
      PROVE  JobInTime
  <2>1. PICK row : Continue(w, row)
    BY <1>4 DEF SubmitRecord, SubmitResume, SubmitAttach, SubmitEvaluate
  <2>2. CASE Done(w)
    BY <2>2, DoneInTime
  <2>3. CASE ~Done(w)
    <3>1. PICK pc \in {"attach", "start", "finish"} :
            job' = [job EXCEPT ![w] = SubmitJob(pc, j.case, j.c, row)]
      BY <1>1, <1>2, <2>1, <2>3, JobWrites
    <3>2. job'[w] = SubmitJob(pc, j.case, j.c, row) /\ job'[w] \in Jobs \cup {Idle}
      BY <1>2, <3>1, JobStep DEF TypeOK
    <3>3. InTime(SubmitJob(pc, j.case, j.c, row))'
      BY <3>1 DEF InTime, SubmitJob
    <3> QED BY <3>1, <3>2, <3>3 DEF JobInTime
  <2> QED BY <2>2, <2>3
<1> QED BY <1>3, <1>4

LEMMA GovernInTime ==
  ASSUME IInv, TimeInv, AllAssumptions, [Next]_vars, NEW w \in Worker, NEW k \in Kinds,
         NEW p \in Policy, Synchronize(w, k, p) \/ Move(w, k, p)
  PROVE  JobInTime
<1>1. /\ Known(p) /\ TypeOK /\ UNCHANGED <<registryVars, at, clock>>
      /\ pol[p][k].camp # NoCampaign /\ pol[p][k].ev # NoEvidence
  BY DEF Synchronize, Move, SynchronizeStart, MoveStart, Bound, times, IInv
<1>2. p \in Trained /\ TimesAt(k, p) /\ pol[p][k].ev \in Evidence
  <2>1. StatusInvAt(p) /\ pol[p][k] \in Binding
    BY <1>1, RecordFacts DEF IInv, TypeOK, StatusInv
  <2>2. p \in Trained
    BY <1>1, <2>1 DEF StatusInvAt, Kinds
  <2> QED BY <1>1, <2>1, <2>2 DEF TimeInv, Binding
<1>3. clock \in Nat /\ job'[w] \in Jobs \cup {Idle} /\ judgedAt[pol[p][k].ev] <= clock
  BY <1>1, <1>2, TimeTypes, JobStep DEF TimesAt
<1>4. ASSUME NEW a \in authorizerOf[k], SynchronizeStart(w, k, p, a)
      PROVE  JobInTime
  <2>1. PICK c, t : c = pol[p][k].camp /\ t = clock
    OBVIOUS
  <2>2. PICK j : j = [pc |-> "mark", k |-> k, p |-> p, c |-> c, a |-> a, t |-> t]
    OBVIOUS
  <2>3. job' = [job EXCEPT ![w] = j] /\ j \in Jobs \cup {Idle}
    BY <1>1, <1>3, <1>4, <2>1, <2>2 DEF SynchronizeStart, TypeOK
  <2>4. InTime(j)'
    BY <1>1, <1>3, <2>1, <2>2 DEF InTime, registryVars
  <2> QED BY <2>3, <2>4 DEF JobInTime
<1>5. ASSUME NEW a \in executorOf[k], NEW rev, MoveStart(w, k, p, a, rev)
      PROVE  JobInTime
  <2>1. PICK c, t, saw : c = pol[p][k].camp /\ t = clock /\ saw = Seen(k, p)
    OBVIOUS
  <2>2. PICK j : j = [pc |-> "move", k |-> k, p |-> p, c |-> c, a |-> a, rev |-> rev,
                      t |-> t, saw |-> saw]
    OBVIOUS
  <2>3. job' = [job EXCEPT ![w] = j] /\ j \in Jobs \cup {Idle} /\ MayOperate(k, p, c, a)
    BY <1>1, <1>3, <1>5, <2>1, <2>2 DEF MoveStart, TypeOK
  <2>4. saw = "authorized" =>
          pol[p][k].auth # Nobody /\ pol[p][k].auth # a /\ at[AuthEvent(k)][p] <= t
    <3>1. saw = "authorized" => pol[p][k].auth # Nobody
      BY <2>1 DEF Seen
    <3>2. a # pol[p][k].auth
      BY <2>3 DEF MayOperate, Forbidden, Kinds
    <3> QED BY <1>2, <2>1, <3>1, <3>2 DEF TimesAt
  <2>5. saw = "applied" => pol[p].status \in Final(k)
    BY <2>1 DEF Seen, IsApplied, Activated, IsRolledBack, Final, Applied
  <2>6. InTime(j)'
    BY <1>1, <2>2, <2>4, <2>5 DEF InTime, registryVars, AuthEvent
  <2> QED BY <2>3, <2>6 DEF JobInTime
<1> QED BY <1>4, <1>5 DEF Synchronize, Move

LEMMA InTimeStep ==
  ASSUME IInv, TimeInv, AllAssumptions, [Next]_vars
  PROVE  \A w \in Worker : InTime(job[w])'
<1>1. JobInTime
  <2>1. ASSUME NEW w \in Worker, NEW case \in Submitted, SubmitStart(w, case) \/ SubmitAgain(w, case)
        PROVE  JobInTime
    <3>1. PICK j : j = job'[w]
      OBVIOUS
    <3>2. job' = [job EXCEPT ![w] = j] /\ j \in Jobs \cup {Idle}
      BY <2>1, <3>1, JobStep DEF SubmitStart, SubmitAgain, IInv, TypeOK
    <3>3. InTime(j)'
      <4>1. CASE SubmitStart(w, case)
        <5>1. j.pc = "find" /\ j.case = case /\ IsDated(case) /\ UNCHANGED <<at, clock>>
          BY <3>1, <4>1 DEF SubmitStart, times, IInv, TypeOK
        <5> QED BY <5>1 DEF InTime, IsDated
      <4>2. CASE SubmitAgain(w, case)
        <5>1. j.pc = "resume"
          BY <3>1, <4>2 DEF SubmitAgain, IInv, TypeOK
        <5> QED BY <5>1 DEF InTime
      <4> QED BY <2>1, <4>1, <4>2
    <3> QED BY <3>2, <3>3 DEF JobInTime
  <2>2. ASSUME NEW w \in Worker, MoveRegistry(w)
        PROVE  JobInTime
    <3>1. PICK j : j = job'[w]
      OBVIOUS
    <3>2. job' = [job EXCEPT ![w] = j] /\ j \in Jobs \cup {Idle}
      BY <2>2, <3>1, JobStep DEF MoveRegistry, Goto, IInv, TypeOK
    <3>3. j.pc = "complete"
      <4>1. job[w] \in Jobs \cup {Idle} /\ job[w].pc = "move"
        BY <2>2 DEF MoveRegistry, IInv, TypeOK
      <4>2. j = [job[w] EXCEPT !.pc = "complete"]
        BY <2>2, <3>1 DEF MoveRegistry, Goto, IInv, TypeOK
      <4>3. job[w] \in [pc: {"move", "complete"}, k: Kinds, p: Policy, c: CampaignId, a: Actor,
                        rev: Nat, t: Nat, saw: {"nothing", "authorized", "applied"}]
        BY <4>1 DEF Jobs, Idle
      <4> QED BY <4>2, <4>3
    <3>4. InTime(j)'
      BY <3>3 DEF InTime
    <3> QED BY <3>2, <3>4 DEF JobInTime
  <2>3. ASSUME NEW w \in Worker, Progress(w) \/ Abort(w)
        PROVE  JobInTime
    BY <2>2, <2>3, SubmitInTime, DoneInTime DEF Progress, Abort, SynchronizeMark, MoveComplete
  <2>4. ASSUME NEW w \in Worker, NEW k \in Kinds, NEW p \in Policy, Synchronize(w, k, p) \/ Move(w, k, p)
        PROVE  JobInTime
    BY <2>4, GovernInTime
  <2>5. CASE \E p \in Policy : Register(p) \/ Admit(p)
    BY <2>5 DEF Register, Admit, JobInTime
  <2>6. CASE \E k \in Kinds : \E p \in Policy, a \in approverOf[k] : Approve(k, p, a)
    BY <2>6 DEF Approve, JobInTime
  <2>7. CASE \E c \in CampaignId, k \in Kinds : \E a \in approverOf[k] : ApproveDirectly(c, a) \/ Close(c, a)
    BY <2>7 DEF ApproveDirectly, Close, JobInTime
  <2>8. CASE Tick \/ UNCHANGED vars
    BY <2>8 DEF Tick, vars, JobInTime
  <2> QED BY <2>1, <2>3, <2>4, <2>5, <2>6, <2>7, <2>8 DEF Next
<1>2. ASSUME NEW v \in Worker, NEW j, j = job[v]
      PROVE  InTime(j)'
  <2>1. j \in Jobs \cup {Idle} /\ Sound(j) /\ InTime(j)
    BY <1>2 DEF IInv, TypeOK, JobInv, TimeInv
  <2> QED BY <2>1, InTimeStays
<1>3. ASSUME NEW v \in Worker
      PROVE  InTime(job[v])'
  <2>1. PICK n : n = job'[v]
    OBVIOUS
  <2>2. InTime(n)'
    <3>1. CASE n = job[v]
      BY <1>2, <3>1
    <3>2. CASE n # job[v]
      BY <1>1, <2>1, <3>2 DEF JobInTime, IInv, TypeOK
    <3> QED BY <3>1, <3>2
  <2> QED BY <2>1, <2>2 DEF InTime, AuthEvent
<1> QED BY <1>3

LEMMA TimeInvariantStep ==
  ASSUME IInv, TimeInv, [Next]_vars
  PROVE  TimeInv'
BY Assumed, TimesStep, InTimeStep, PassedStep DEF TimeInv

LEMMA TimeInvariantStarts ==
  ASSUME Init
  PROVE  TimeInv
<1>1. \A p \in Trained : ~Known(p)
  BY DEF Init, RegistryInit, Known, Trained
<1>2. \A w \in Worker : InTime(job[w])
  BY DEF Init, InTime, Idle
<1> QED BY <1>1, <1>2 DEF TimeInv, PassedInv

LEMMA TimesAreKept == Spec => []TimeInv
<1>1. Init => TimeInv
  BY TimeInvariantStarts
<1>2. IInv /\ TimeInv /\ [Next]_vars => TimeInv'
  BY TimeInvariantStep
<1> QED BY <1>1, <1>2, InvariantHolds, PTL DEF Spec

-----------------------------------------------------------------------------
(* The six groups of people of a policy that was activated.                 *)
LEMMA GroupsAreApart ==
  ASSUME IInv, NEW p \in Policy, Known(p), base[p] # NoPolicy, pol[p].status \in Applied
  PROVE  LET A == PromotionRoles(p)
             B == Approvers(pol[p].promotion.camp)
             C == {pol[p].promotion.auth, pol[p].promotion.by}
             D == Judges(pol[p].rollback.ev)
             E == Approvers(pol[p].rollback.camp)
             F == {pol[p].rollback.auth, pol[p].rollback.by} \ {Nobody}
         IN  /\ A \cap B = {} /\ A \cap C = {} /\ B \cap C = {}
             /\ pol[p].rollback.auth # Nobody =>
                  /\ D \cap A = {} /\ D \cap B = {} /\ D \cap C = {}
                  /\ E \cap A = {} /\ E \cap B = {} /\ E \cap C = {} /\ E \cap D = {}
                  /\ F \cap A = {} /\ F \cap B = {} /\ F \cap C = {} /\ F \cap D = {} /\ F \cap E = {}
<1>1. p \in Trained /\ StatusInvAt(p) /\ BindingInvAt("promotion", p) /\ BindingInvAt("rollback", p)
  BY DEF Trained, Kinds, IInv, StatusInv, BindingInv
<1>2. pol[p].promotion.auth # Nobody /\ pol[p].promotion.by # Nobody
  BY <1>1 DEF StatusInvAt, Applied
<1>3. EarlierHands("promotion", p) = PromotionRoles(p)
  BY DEF EarlierHands, Controls, Prohibited, CaseOf, PromotionRoles
<1>4. EarlierHands("rollback", p)
        = PromotionRoles(p) \cup Approvers(pol[p].promotion.camp) \cup Judges(pol[p].rollback.ev)
            \cup {pol[p].promotion.auth, pol[p].promotion.by}
  BY DEF EarlierHands, Controls, Prohibited, CaseOf
<1>5. ASSUME pol[p].rollback.auth # Nobody
      PROVE  JudgesAreApart(CaseOf("rollback", p))
  BY <1>1, <1>5 DEF StatusInvAt, Coherent, BindingInvAt
<1>6. ASSUME pol[p].rollback.auth # Nobody
      PROVE  /\ Judges(pol[p].rollback.ev)
                  \cap (PromotionRoles(p) \cup Approvers(pol[p].promotion.camp)) = {}
             /\ Judges(pol[p].rollback.ev)
                  \cap {pol[p].promotion.auth, pol[p].promotion.by} = {}
  BY <1>5, <1>6 DEF JudgesAreApart, RollbackEvidence, ControlsAreApart, CaseOf
<1> HIDE DEF Known
<1> QED BY <1>1, <1>2, <1>3, <1>4, <1>6 DEF BindingInvAt

LEMMA JoinedTriples ==
  ASSUME NEW S, NEW a \in S, NEW b \in S, NEW c \in S, NEW d \in S, NEW e \in S, NEW f \in S
  PROVE  LET s == <<a, b, c>> \o <<d, e, f>> IN
         /\ DOMAIN s = 1..6
         /\ s[1] = a /\ s[2] = b /\ s[3] = c /\ s[4] = d /\ s[5] = e /\ s[6] = f
<1> DEFINE x == <<a, b, c>>  y == <<d, e, f>>  s == x \o y
<1>1. /\ x \in Seq(S) /\ Len(x) = 3 /\ x[1] = a /\ x[2] = b /\ x[3] = c
      /\ y \in Seq(S) /\ Len(y) = 3 /\ y[1] = d /\ y[2] = e /\ y[3] = f
  OBVIOUS
<1> HIDE DEF x, y
<1>2. /\ s \in Seq(S) /\ Len(s) = 6
      /\ \A i \in 1..6 : s[i] = IF i <= 3 THEN x[i] ELSE y[i - 3]
  <2>1. x \in Seq(S) /\ y \in Seq(S) /\ Len(x) = 3 /\ Len(y) = 3
    BY <1>1
  <2>2. /\ s \in Seq(S) /\ Len(s) = Len(x) + Len(y)
        /\ \A i \in 1 .. Len(x) + Len(y) : s[i] = IF i <= Len(x) THEN x[i] ELSE y[i - Len(x)]
    BY <2>1, ConcatProperties
  <2> QED BY <2>1, <2>2
<1> HIDE DEF s
<1>3. DOMAIN s = 1..6
  BY <1>2
<1>4. s[1] = a /\ s[2] = b /\ s[3] = c /\ s[4] = d /\ s[5] = e /\ s[6] = f
  BY <1>1, <1>2
<1> QED BY <1>3, <1>4 DEF s, x, y

(* The stages of one policy are in different hands: the people who made and *)
(* judged it, approved it, authorized or activated it, and those who        *)
(* judged, approved, authorized or executed its rollback.  The authorizer   *)
(* and the executor of one change are two, unless the executor's call was   *)
(* checked before there was an authorizer.                                  *)
THEOREM HandsStayApart == Spec => []HandsAreApart
<1>1. ASSUME IInv, NEW p \in Policy, Known(p), base[p] # NoPolicy, pol[p].status \in Applied,
             NEW i \in DOMAIN Hands(p), NEW j \in DOMAIN Hands(p), i # j
      PROVE  Hands(p)[i] \cap Hands(p)[j] = {}
  <2> DEFINE A == PromotionRoles(p)
             B == Approvers(pol[p].promotion.camp)
             C == {pol[p].promotion.auth, pol[p].promotion.by}
             D == Judges(pol[p].rollback.ev)
             E == Approvers(pol[p].rollback.camp)
             F == {pol[p].rollback.auth, pol[p].rollback.by} \ {Nobody}
  <2>1. /\ A \cap B = {} /\ A \cap C = {} /\ B \cap C = {}
        /\ pol[p].rollback.auth # Nobody =>
             /\ D \cap A = {} /\ D \cap B = {} /\ D \cap C = {}
             /\ E \cap A = {} /\ E \cap B = {} /\ E \cap C = {} /\ E \cap D = {}
             /\ F \cap A = {} /\ F \cap B = {} /\ F \cap C = {} /\ F \cap D = {} /\ F \cap E = {}
    BY <1>1, GroupsAreApart
  <2>2. Hands(p) = <<A, B, C>> \o (IF pol[p].rollback.auth = Nobody THEN <<>> ELSE <<D, E, F>>)
    BY DEF Hands
  <2> HIDE DEF A, B, C, D, E, F
  <2>3. CASE pol[p].rollback.auth = Nobody
    <3>1. <<A, B, C>> \in Seq({A, B, C})
      OBVIOUS
    <3>2. Hands(p) = <<A, B, C>>
      BY <2>2, <2>3, <3>1, ConcatEmptySeq
    <3>3. i \in 1..3 /\ j \in 1..3
      BY <1>1, <3>2
    <3> QED BY <1>1, <2>1, <3>2, <3>3
  <2>4. CASE pol[p].rollback.auth # Nobody
    <3> DEFINE h == Hands(p)
    <3>1. h = <<A, B, C>> \o <<D, E, F>>
      BY <2>2, <2>4
    <3>2. /\ DOMAIN h = 1..6
          /\ h[1] = A /\ h[2] = B /\ h[3] = C /\ h[4] = D /\ h[5] = E /\ h[6] = F
      <4> DEFINE S == {A, B, C, D, E, F}
      <4>1. A \in S /\ B \in S /\ C \in S /\ D \in S /\ E \in S /\ F \in S
        OBVIOUS
      <4> HIDE DEF S, h
      <4> QED BY <3>1, <4>1, JoinedTriples
    <3> HIDE DEF h
    <3>3. i \in 1..6 /\ j \in 1..6 /\ i # j
      BY <1>1, <3>2 DEF h
    <3>4. h[i] \cap h[j] = {}
      BY <2>1, <2>4, <3>2, <3>3
    <3> QED BY <3>4 DEF h
  <2> QED BY <2>3, <2>4
<1>2. IInv => StagesAreApart
  BY <1>1 DEF StagesAreApart, Applied
<1>3. IInv /\ TimeInv => ExecutorsAreApart
  <2> SUFFICES ASSUME IInv, TimeInv, NEW k \in Kinds, NEW p \in Policy, Known(p),
                      pol[p][k].by # Nobody, <<k, p>> \notin overtook
               PROVE  pol[p][k].by # pol[p][k].auth
    BY DEF ExecutorsAreApart
  <2>1. StatusInvAt(p)
    BY DEF IInv, StatusInv
  <2>2. p \in Trained
    BY <2>1 DEF StatusInvAt, Coherent, Kinds
  <2> QED BY <2>2 DEF TimeInv, TimesAt
<1>4. IInv /\ TimeInv => HandsAreApart
  BY <1>2, <1>3 DEF HandsAreApart
<1> QED BY <1>4, InvariantHolds, TimesAreKept, PTL

-----------------------------------------------------------------------------
(* The audit log of a registry that knows one candidate *)

Event(p, i) ==
  [type |-> <<"registered", "candidate_admitted", "evaluated", "authorized", "activated",
              "rollback_submitted", "rollback_authorized", "rolled_back">>[i],
   p |-> IF i = 1 THEN base[p] ELSE p]

(* How many events led to a record, and how many moves of the pointer.      *)
Events(r) ==
  CASE r.status = "candidate" -> 2
    [] r.status = "evaluated" -> 3
    [] r.status = "authorized" -> 4
    [] r.status = "active" -> IF r.rollback.ev = NoEvidence THEN 5
                              ELSE IF r.rollback.auth = Nobody THEN 6 ELSE 7
    [] r.status = "rolled_back" -> 8
    [] OTHER -> 0
MovesTo(r) == CASE r.status = "active" -> 1 [] r.status = "rolled_back" -> 2 [] OTHER -> 0

KnownPolicies == {q \in Policy : Known(q)}
IsOnlyCandidate(p) ==
  /\ p \in Trained /\ base[p] \in Policy /\ base[base[p]] = NoPolicy
  /\ KnownPolicies = {p, base[p]}
Tells(p, n) == Len(log) = n /\ \A i \in 1..n : log[i] = Event(p, i)
StoryInvAt(p) ==
  IsOnlyCandidate(p) /\ pol[p].status # "rejected" =>
    /\ pol[p].status # "superseded"
    /\ Tells(p, Events(pol[p]))
    /\ head.rev = MovesTo(pol[p])
StoryInv ==
  /\ head.active = NoPolicy => log = <<>>
  /\ \A r \in Policy : KnownPolicies = {r} =>
       /\ head.rev = 0 /\ Len(log) = 1
       /\ log[1] = [type |-> "registered", p |-> r]
  /\ KnownPolicies # {} => \E q \in KnownPolicies : base[q] = NoPolicy
  /\ \A p \in Trained : StoryInvAt(p)

LEMMA Longer ==
  ASSUME RegistryTypeOK, NEW p \in Policy, NEW n \in 1..7, Tells(p, n),
         NEW q \in Policy, NEW type \in EventTypes, Logs(type, q),
         Event(p, n + 1) = [type |-> type, p |-> q]
  PROVE  Tells(p, n + 1)'
<1>1. log \in Seq([type: EventTypes, p: Policy]) /\ [type |-> type, p |-> q] \in [type: EventTypes, p: Policy]
  BY DEF RegistryTypeOK
<1>2. /\ Len(log') = n + 1
      /\ \A i \in 1..n : log'[i] = log[i]
      /\ log'[n + 1] = [type |-> type, p |-> q]
  BY <1>1 DEF Logs, Tells
<1>3. \A i \in 1..(n + 1) : log'[i] = Event(p, i)
  BY <1>2 DEF Tells
<1> QED BY <1>2, <1>3 DEF Tells, Event

LEMMA EventFacts ==
  ASSUME NEW p \in Policy
  PROVE  /\ Event(p, 1) = [type |-> "registered", p |-> base[p]]
         /\ Event(p, 2) = [type |-> "candidate_admitted", p |-> p]
         /\ Event(p, 3) = [type |-> "evaluated", p |-> p]
         /\ Event(p, 4) = [type |-> "authorized", p |-> p]
         /\ Event(p, 5) = [type |-> "activated", p |-> p]
         /\ Event(p, 6) = [type |-> "rollback_submitted", p |-> p]
         /\ Event(p, 7) = [type |-> "rollback_authorized", p |-> p]
         /\ Event(p, 8) = [type |-> "rolled_back", p |-> p]
BY DEF Event

LEMMA OnlyCandidate ==
  ASSUME NEW p \in Trained, NEW x \in Trained, IsOnlyCandidate(x), Known(p)
  PROVE  p = x
BY DEF IsOnlyCandidate, KnownPolicies, Trained, Known

(* What an operation on a trained policy makes of its record and of the log. *)
LEMMA StoryGoesOn ==
  ASSUME RegistryInv, AllAssumptions, NEW p \in Trained,
         \/ \E ev \in Evidence, c \in CampaignId : BindsPromotion(p, ev, c) \/ BindsRollback(p, ev, c)
         \/ \E a \in Actor : \/ AuthorizesPromotion(p, a) \/ AuthorizesRollback(p, a)
                             \/ Activates(p, a) \/ RollsBack(p, a)
  PROVE  /\ Known(p) /\ head.active # NoPolicy /\ head'.active # NoPolicy
         /\ pol[p].status # "rejected"
         /\ \A q \in Policy : q # p /\ q # base[p] => pol'[q] = pol[q]
         /\ pol'[p].status # "rejected" /\ pol[p].status # "superseded" =>
              /\ pol'[p].status # "superseded"
              /\ Events(pol[p]) \in 2..7 /\ Events(pol'[p]) = Events(pol[p]) + 1
              /\ \E type \in EventTypes :
                   Logs(type, p) /\ Event(p, Events(pol[p]) + 1) = [type |-> type, p |-> p]
              /\ head'.rev = head.rev + MovesTo(pol'[p]) - MovesTo(pol[p])
<1> DEFINE b == pol[p].promotion  d == pol[p].rollback
<1>0. /\ p \in Policy /\ base[p] \in Policy /\ base[p] # p /\ NoPolicy \notin Policy
      /\ \A a \in Actor : a # Nobody
      /\ \A ev \in Evidence : ev # NoEvidence
  BY DEF Trained, AllAssumptions, LocalPolicyAssumption
<1>1. Known(p)
  BY DEF BindsPromotion, BindsRollback, AuthorizesPromotion, AuthorizesRollback, Activates, RollsBack
<1>2. /\ b \in Binding /\ d \in Binding /\ StatusInvAt(p) /\ pol[p].status \in Statuses
      /\ head.active # NoPolicy /\ head.rev \in Nat
      /\ EventTypes = {"registered", "candidate_admitted", "evaluated", "rejected",
                       "authorized", "activated", "rollback_submitted",
                       "rollback_authorized", "rolled_back"}
  BY <1>0, <1>1, RecordFacts DEF RegistryInv, RegistryTypeOK, StatusInv, FamilyInv, Known, EventTypes
<1>3. ASSUME NEW status \in Statuses, NEW new \in Binding, NEW old \in Binding, Writes(p, status, new, old)
      PROVE  /\ pol'[p].status = status /\ pol'[p].promotion = new /\ pol'[p].rollback = old
             /\ \A q \in Policy : q # p => pol'[q] = pol[q]
  BY <1>0, <1>3, ContentFields DEF Writes, RegistryInv, RegistryTypeOK
<1>4. ASSUME NEW status \in Statuses, NEW new \in Binding, NEW old \in Binding, NEW under \in Statuses,
             Moves(p, base[p], Content(status, new, old), under)
      PROVE  /\ pol'[p].status = status /\ pol'[p].promotion = new /\ pol'[p].rollback = old
             /\ \A q \in Policy : q # p /\ q # base[p] => pol'[q] = pol[q]
  BY <1>0, <1>4, ContentFields DEF Moves, RegistryInv, RegistryTypeOK
<1>5. {"candidate", "evaluated", "rejected", "authorized", "active", "superseded", "rolled_back"}
        \subseteq Statuses
  BY DEF Statuses
<1>6. ASSUME NEW ev \in Evidence, NEW c \in CampaignId, BindsPromotion(p, ev, c)
      PROVE  /\ pol[p].status = "candidate" /\ head' = head
             /\ \E type \in {"evaluated", "rejected"} : pol'[p].status = type /\ Logs(type, p)
             /\ \A q \in Policy : q # p => pol'[q] = pol[q]
  <2>1. PICK type \in {"evaluated", "rejected"} : Writes(p, type, With(b, ev, c), d) /\ Logs(type, p)
    BY <1>6 DEF BindsPromotion
  <2>2. With(b, ev, c) \in Binding /\ type \in Statuses
    BY <1>2, <1>5, <1>6, BoundFields
  <2>3. pol'[p].status = type /\ \A q \in Policy : q # p => pol'[q] = pol[q]
    BY <1>2, <1>3, <2>1, <2>2
  <2> QED BY <1>6, <2>1, <2>3 DEF BindsPromotion
<1>7. ASSUME NEW ev \in Evidence, NEW c \in CampaignId, BindsRollback(p, ev, c)
      PROVE  /\ pol[p].status = "active" /\ head' = head /\ d.ev = NoEvidence
             /\ pol'[p].status = "active" /\ Logs("rollback_submitted", p)
             /\ pol'[p].rollback.ev # NoEvidence /\ pol'[p].rollback.auth = Nobody
             /\ \A q \in Policy : q # p => pol'[q] = pol[q]
  <2>1. Writes(p, "active", b, With(d, ev, c)) /\ d.ev = NoEvidence
    BY <1>7 DEF BindsRollback
  <2>2. /\ With(d, ev, c) \in Binding
        /\ With(d, ev, c).ev = ev /\ With(d, ev, c).auth = d.auth
    BY <1>2, <1>7, BoundFields
  <2>3. /\ pol'[p].status = "active" /\ pol'[p].rollback = With(d, ev, c)
        /\ \A q \in Policy : q # p => pol'[q] = pol[q]
    BY <1>2, <1>3, <1>5, <2>1, <2>2
  <2>4. d.auth = Nobody
    BY <1>2, <2>1 DEF StatusInvAt, Coherent
  <2> QED BY <1>0, <1>7, <2>1, <2>2, <2>3, <2>4 DEF BindsRollback
<1>8. ASSUME NEW a \in Actor, AuthorizesPromotion(p, a)
      PROVE  /\ pol[p].status = "evaluated" /\ head' = head
             /\ pol'[p].status = "authorized" /\ Logs("authorized", p)
             /\ \A q \in Policy : q # p => pol'[q] = pol[q]
  <2>1. Writes(p, "authorized", AuthorizedBy(b, a), d) /\ AuthorizedBy(b, a) \in Binding
    BY <1>2, <1>8, SignedFields DEF AuthorizesPromotion
  <2>2. pol'[p].status = "authorized" /\ \A q \in Policy : q # p => pol'[q] = pol[q]
    BY <1>2, <1>3, <1>5, <2>1
  <2> QED BY <1>8, <2>2 DEF AuthorizesPromotion
<1>9. ASSUME NEW a \in Actor, AuthorizesRollback(p, a)
      PROVE  /\ pol[p].status = "active" /\ head' = head
             /\ d.ev # NoEvidence /\ d.auth = Nobody
             /\ pol'[p].status = "active" /\ Logs("rollback_authorized", p)
             /\ pol'[p].rollback.ev # NoEvidence /\ pol'[p].rollback.auth # Nobody
             /\ \A q \in Policy : q # p => pol'[q] = pol[q]
  <2>1. /\ Writes(p, "active", b, AuthorizedBy(d, a)) /\ d.auth = Nobody /\ d.camp # NoCampaign
    BY <1>9 DEF AuthorizesRollback
  <2>2. /\ AuthorizedBy(d, a) \in Binding
        /\ AuthorizedBy(d, a).ev = d.ev /\ AuthorizedBy(d, a).auth = a
    BY <1>2, <1>9, SignedFields
  <2>3. /\ pol'[p].status = "active" /\ pol'[p].rollback = AuthorizedBy(d, a)
        /\ \A q \in Policy : q # p => pol'[q] = pol[q]
    BY <1>2, <1>3, <1>5, <2>1, <2>2
  <2>4. d.ev # NoEvidence
    BY <1>2, <2>1 DEF StatusInvAt, Coherent
  <2> QED BY <1>0, <1>9, <2>1, <2>2, <2>3, <2>4 DEF AuthorizesRollback
<1>10. ASSUME NEW a \in Actor, Activates(p, a)
       PROVE  /\ pol[p].status = "authorized" /\ head'.active = p /\ head'.rev = head.rev + 1
              /\ d.ev = NoEvidence
              /\ pol'[p].status = "active" /\ Logs("activated", p)
              /\ pol'[p].rollback = d
              /\ \A q \in Policy : q # p /\ q # base[p] => pol'[q] = pol[q]
  <2>1. /\ Moves(p, base[p], Content("active", ExecutedBy(b, a), d), "superseded")
        /\ ExecutedBy(b, a) \in Binding
    BY <1>2, <1>10, SignedFields DEF Activates
  <2>2. /\ pol'[p].status = "active" /\ pol'[p].rollback = d
        /\ \A q \in Policy : q # p /\ q # base[p] => pol'[q] = pol[q]
    BY <1>2, <1>4, <1>5, <2>1
  <2>3. pol[p].status = "authorized" /\ d.ev = NoEvidence
    BY <1>2, <1>10 DEF Activates, StatusInvAt, Applied
  <2> QED BY <1>10, <2>2, <2>3 DEF Activates
<1>11. ASSUME NEW a \in Actor, RollsBack(p, a)
       PROVE  /\ pol[p].status = "active" /\ head'.active = base[p] /\ head'.rev = head.rev + 1
              /\ d.ev # NoEvidence /\ d.auth # Nobody
              /\ pol'[p].status = "rolled_back" /\ Logs("rolled_back", p)
              /\ \A q \in Policy : q # p /\ q # base[p] => pol'[q] = pol[q]
  <2>1. /\ Moves(p, base[p], Content("rolled_back", b, ExecutedBy(d, a)), "active")
        /\ ExecutedBy(d, a) \in Binding
    BY <1>2, <1>11, SignedFields DEF RollsBack
  <2>2. /\ pol'[p].status = "rolled_back"
        /\ \A q \in Policy : q # p /\ q # base[p] => pol'[q] = pol[q]
    BY <1>2, <1>4, <1>5, <2>1
  <2>3. pol[p].status = "active" /\ d.auth # Nobody
    BY <1>11 DEF RollsBack, MayRollBack
  <2>4. d.ev # NoEvidence
    BY <1>2, <2>3 DEF StatusInvAt, Coherent
  <2> QED BY <1>11, <2>2, <2>3, <2>4 DEF RollsBack
<1>12. /\ Event(p, 3) = [type |-> "evaluated", p |-> p] /\ Event(p, 4) = [type |-> "authorized", p |-> p]
       /\ Event(p, 5) = [type |-> "activated", p |-> p]
       /\ Event(p, 6) = [type |-> "rollback_submitted", p |-> p]
       /\ Event(p, 7) = [type |-> "rollback_authorized", p |-> p]
       /\ Event(p, 8) = [type |-> "rolled_back", p |-> p]
  BY <1>0, EventFacts
<1> DEFINE Goal == /\ head'.active # NoPolicy
                   /\ pol[p].status # "rejected"
                   /\ \A q \in Policy : q # p /\ q # base[p] => pol'[q] = pol[q]
                   /\ pol'[p].status # "rejected" /\ pol[p].status # "superseded" =>
                        /\ pol'[p].status # "superseded"
                        /\ Events(pol[p]) \in 2..7 /\ Events(pol'[p]) = Events(pol[p]) + 1
                        /\ \E type \in EventTypes :
                             Logs(type, p) /\ Event(p, Events(pol[p]) + 1) = [type |-> type, p |-> p]
                        /\ head'.rev = head.rev + MovesTo(pol'[p]) - MovesTo(pol[p])
<1> SUFFICES Goal
  BY <1>1, <1>2
<1>13. ASSUME NEW ev \in Evidence, NEW c \in CampaignId, BindsPromotion(p, ev, c)
       PROVE  Goal
  <2>1. CASE pol'[p].status = "rejected"
    BY <1>2, <1>6, <1>13, <2>1
  <2>2. CASE pol'[p].status = "evaluated"
    <3>1. Events(pol[p]) = 2 /\ Events(pol'[p]) = 3 /\ MovesTo(pol[p]) = 0 /\ MovesTo(pol'[p]) = 0
      BY <1>6, <1>13, <2>2 DEF Events, MovesTo
    <3>2. Logs("evaluated", p) /\ "evaluated" \in EventTypes
      BY <1>2, <1>6, <1>13, <2>2
    <3>3. head'.rev = head.rev + 0 - 0 /\ head' = head
      BY <1>2, <1>6, <1>13
    <3> QED BY <1>2, <1>6, <1>12, <1>13, <2>2, <3>1, <3>2, <3>3
  <2> QED BY <1>6, <1>13, <2>1, <2>2
<1>14. ASSUME NEW ev \in Evidence, NEW c \in CampaignId, BindsRollback(p, ev, c)
       PROVE  Goal
  <2>1. Events(pol[p]) = 5 /\ Events(pol'[p]) = 6 /\ MovesTo(pol[p]) = 1 /\ MovesTo(pol'[p]) = 1
    BY <1>7, <1>14 DEF Events, MovesTo
  <2>2. head'.rev = head.rev + 1 - 1 /\ head' = head
    BY <1>2, <1>7, <1>14
  <2> QED BY <1>2, <1>7, <1>12, <1>14, <2>1, <2>2
<1>15. ASSUME NEW a \in Actor, AuthorizesPromotion(p, a)
       PROVE  Goal
  <2>1. Events(pol[p]) = 3 /\ Events(pol'[p]) = 4 /\ MovesTo(pol[p]) = 0 /\ MovesTo(pol'[p]) = 0
    BY <1>8, <1>15 DEF Events, MovesTo
  <2>2. head'.rev = head.rev + 0 - 0 /\ head' = head
    BY <1>2, <1>8, <1>15
  <2> QED BY <1>2, <1>8, <1>12, <1>15, <2>1, <2>2
<1>16. ASSUME NEW a \in Actor, AuthorizesRollback(p, a)
       PROVE  Goal
  <2>1. Events(pol[p]) = 6 /\ Events(pol'[p]) = 7 /\ MovesTo(pol[p]) = 1 /\ MovesTo(pol'[p]) = 1
    BY <1>9, <1>16 DEF Events, MovesTo
  <2>2. head'.rev = head.rev + 1 - 1 /\ head' = head
    BY <1>2, <1>9, <1>16
  <2> QED BY <1>2, <1>9, <1>12, <1>16, <2>1, <2>2
<1>17. ASSUME NEW a \in Actor, Activates(p, a)
       PROVE  Goal
  <2>1. Events(pol[p]) = 4 /\ Events(pol'[p]) = 5 /\ MovesTo(pol[p]) = 0 /\ MovesTo(pol'[p]) = 1
    BY <1>10, <1>17 DEF Events, MovesTo
  <2>2. head'.rev = head.rev + 1 - 0
    BY <1>2, <1>10, <1>17
  <2> QED BY <1>0, <1>2, <1>10, <1>12, <1>17, <2>1, <2>2
<1>18. ASSUME NEW a \in Actor, RollsBack(p, a)
       PROVE  Goal
  <2>1. Events(pol[p]) = 7 /\ Events(pol'[p]) = 8 /\ MovesTo(pol[p]) = 1 /\ MovesTo(pol'[p]) = 2
    BY <1>11, <1>18 DEF Events, MovesTo
  <2>2. head'.rev = head.rev + 2 - 1
    BY <1>2, <1>11, <1>18
  <2> QED BY <1>0, <1>2, <1>11, <1>12, <1>18, <2>1, <2>2
<1> HIDE DEF Goal
<1> QED BY <1>13, <1>14, <1>15, <1>16, <1>17, <1>18

LEMMA StoryStep ==
  ASSUME RegistryInv, AllAssumptions, StoryInv, Operation, GoesOn
  PROVE  StoryInv'
<1>0. /\ NoPolicy \notin Policy /\ \A q \in Policy : base[q] # q
      /\ base \in [Policy -> Policy \cup {NoPolicy}]
      /\ log \in Seq([type: EventTypes, p: Policy]) /\ head.rev \in Nat
      /\ \A q \in Policy : Known(q) => Known(q)'
      /\ \A q \in Policy : q \in Trained <=> base[q] # NoPolicy
      /\ {"registered", "candidate_admitted"} \subseteq EventTypes
  BY DEF AllAssumptions, LocalPolicyAssumption, RegistryInv, RegistryTypeOK, GoesOn, Trained,
         EventTypes
<1>1. ASSUME NEW r \in Policy, RegisterInitial(r)
      PROVE  StoryInv'
  <2>1. /\ \A q \in Policy : ~Known(q) /\ base[r] = NoPolicy
        /\ log = <<>>
    BY <1>1 DEF RegisterInitial, RegistryInv, FamilyInv, Known, StoryInv
  <2>2. /\ pol'[r] # NoRecord /\ \A q \in Policy : Known(q)' <=> q = r
    BY <1>1, <2>1 DEF RegisterInitial, RegistryInv, RegistryTypeOK, Known, NewRecord, NoRecord
  <2>3. KnownPolicies' = {r}
    BY <2>2 DEF KnownPolicies
  <2>4. /\ Len(log') = 1 /\ log'[1] = [type |-> "registered", p |-> r]
        /\ head'.rev = 0 /\ head'.active = r
    BY <1>1, <2>1 DEF RegisterInitial, Append_
  <2>5. \A p \in Trained : ~IsOnlyCandidate(p)'
    BY <1>0, <2>1, <2>3 DEF IsOnlyCandidate
  <2> QED BY <1>0, <2>1, <2>3, <2>4, <2>5 DEF StoryInv, StoryInvAt
<1>2. ASSUME NEW p \in Policy, AdmitCandidate(p)
      PROVE  StoryInv'
  <2>1. /\ base[p] # NoPolicy /\ base[p] \in Policy /\ p \in Trained /\ head' = head
        /\ head.active # NoPolicy
        /\ ~Known(p) /\ Logs("candidate_admitted", p)
    BY <1>0, <1>2 DEF AdmitCandidate, Known, Append_, Logs
  <2>2. /\ pol'[p].status = "candidate" /\ \A q \in Policy : Known(q)' <=> Known(q) \/ q = p
        /\ \A q \in Policy : q # p => pol'[q] = pol[q]
    BY <1>2 DEF AdmitCandidate, RegistryInv, RegistryTypeOK, Known, NewRecord, NoRecord
  <2>3. KnownPolicies' = KnownPolicies \cup {p}
    BY <2>2 DEF KnownPolicies
  <2>4. Known(base[p])
    <3>1. head.active = base[p]
      BY <1>2 DEF AdmitCandidate
    <3>2. pol[base[p]].status = "active"
      BY <2>1, <3>1 DEF RegistryInv, FamilyInv, StateVerifies
    <3> QED BY <2>1, <3>2 DEF Known, NoRecord
  <2>5. \A r \in Policy : KnownPolicies' # {r}
    BY <1>0, <2>1, <2>3, <2>4 DEF KnownPolicies
  <2>6. \E q \in KnownPolicies' : base[q] = NoPolicy
    BY <2>1, <2>3, <2>4 DEF StoryInv, KnownPolicies
  <2>7. ASSUME NEW x \in Trained, IsOnlyCandidate(x)'
        PROVE  StoryInvAt(x)'
    <3>1. KnownPolicies' = {x, base[x]} /\ base[x] \notin Trained
      BY <1>0, <2>7 DEF IsOnlyCandidate, Trained
    <3>2. p = x
      BY <2>1, <2>3, <3>1
    <3>3. KnownPolicies = {base[p]}
      BY <1>0, <2>1, <2>2, <2>4, <3>1, <3>2 DEF KnownPolicies
    <3>4. head.rev = 0 /\ Len(log) = 1 /\ log[1] = [type |-> "registered", p |-> base[p]]
      BY <2>1, <3>3 DEF StoryInv
    <3>5. Tells(p, 1)
      BY <3>4, EventFacts DEF Tells
    <3>6. Tells(p, 1 + 1)'
      BY <1>0, <2>1, <3>5, EventFacts, Longer DEF RegistryInv
    <3>7. Events(pol'[p]) = 2 /\ MovesTo(pol'[p]) = 0
      BY <2>2 DEF Events, MovesTo
    <3> QED BY <2>1, <2>2, <3>2, <3>4, <3>6, <3>7 DEF StoryInvAt
  <2>8. \A x \in Trained : StoryInvAt(x)'
    BY <2>7 DEF StoryInvAt
  <2> QED BY <2>1, <2>5, <2>6, <2>8 DEF StoryInv
<1>3. ASSUME NEW p \in Trained,
             \/ \E ev \in Evidence, c \in CampaignId : BindsPromotion(p, ev, c) \/ BindsRollback(p, ev, c)
             \/ \E a \in Actor : \/ AuthorizesPromotion(p, a) \/ AuthorizesRollback(p, a)
                                 \/ Activates(p, a) \/ RollsBack(p, a)
      PROVE  StoryInv'
  <2>1. /\ Known(p) /\ head.active # NoPolicy /\ head'.active # NoPolicy
        /\ pol[p].status # "rejected"
        /\ \A q \in Policy : q # p /\ q # base[p] => pol'[q] = pol[q]
        /\ pol'[p].status # "rejected" /\ pol[p].status # "superseded" =>
              /\ pol'[p].status # "superseded"
              /\ Events(pol[p]) \in 2..7 /\ Events(pol'[p]) = Events(pol[p]) + 1
              /\ \E type \in EventTypes :
                   Logs(type, p) /\ Event(p, Events(pol[p]) + 1) = [type |-> type, p |-> p]
              /\ head'.rev = head.rev + MovesTo(pol'[p]) - MovesTo(pol[p])
    BY <1>3, StoryGoesOn
  <2>2. p \in Policy /\ base[p] \in Policy /\ Known(base[p])
    BY <1>0, <2>1 DEF Trained, RegistryInv, FamilyInv, StateVerifies
  <2>3. \A q \in Policy : Known(q)' <=> Known(q)
    BY <1>0, <2>1, <2>2 DEF Known
  <2>4. KnownPolicies' = KnownPolicies
    BY <2>3 DEF KnownPolicies
  <2>5. \A r \in Policy : KnownPolicies' # {r}
    BY <1>0, <2>1, <2>2, <2>4 DEF KnownPolicies
  <2>6. KnownPolicies' # {} => \E q \in KnownPolicies' : base[q] = NoPolicy
    BY <2>4 DEF StoryInv
  <2>7. ASSUME NEW x \in Trained, IsOnlyCandidate(x)', pol'[x].status # "rejected"
        PROVE  StoryInvAt(x)'
    <3>1. IsOnlyCandidate(x)
      BY <2>4, <2>7 DEF IsOnlyCandidate
    <3>2. p = x
      BY <2>1, <3>1, OnlyCandidate
    <3>3. /\ pol[p].status # "superseded" /\ Tells(p, Events(pol[p]))
          /\ head.rev = MovesTo(pol[p])
      BY <2>1, <3>1, <3>2 DEF StoryInv, StoryInvAt
    <3>4. PICK n \in 1..7 : n = Events(pol[p])
      BY <2>1, <2>7, <3>2, <3>3
    <3>5. PICK type \in EventTypes : Logs(type, p) /\ Event(p, n + 1) = [type |-> type, p |-> p]
      BY <2>1, <2>7, <3>2, <3>3, <3>4
    <3>6. Tells(p, n + 1)'
      BY <2>2, <3>3, <3>4, <3>5, Longer DEF RegistryInv
    <3>7. Tells(p, Events(pol[p]))'
      BY <2>1, <2>7, <3>2, <3>3, <3>4, <3>6 DEF Tells
    <3>8. MovesTo(pol[p]) \in Int /\ MovesTo(pol'[p]) \in Int
      BY DEF MovesTo
    <3>9. head'.rev = MovesTo(pol'[p])
      BY <2>1, <2>7, <3>2, <3>3, <3>8
    <3> QED BY <2>1, <2>7, <3>2, <3>3, <3>7, <3>9 DEF StoryInvAt
  <2>8. \A x \in Trained : StoryInvAt(x)'
    BY <2>7 DEF StoryInvAt
  <2> QED BY <2>1, <2>5, <2>6, <2>8 DEF StoryInv
<1> QED BY <1>1, <1>2, <1>3 DEF Operation

LEMMA StoryIsTold ==
  ASSUME IInv, StoryInv, [Next]_vars
  PROVE  StoryInv'
<1>1. CASE UNCHANGED registryVars
  BY <1>1 DEF registryVars, StoryInv, StoryInvAt, IsOnlyCandidate, KnownPolicies, Known, Tells
<1>2. CASE RegistryChange
  <2>1. RegistryInv /\ AllAssumptions /\ GoesOn /\ Operation
    BY <1>2, Assumed, StepFacts, ChangeIsOperation DEF IInv, TypeOK, RegistryInv
  <2> QED BY <2>1, StoryStep
<1> QED BY <1>1, <1>2, Assumed, StepOnRegistry

(* With all its campaigns completed, the only candidate is active or rolled *)
(* back, and the databases hold what the package builder asks for.          *)
LEMMA CompletedStatus ==
  ASSUME IInv, StoryInv, NEW p \in Policy, Known(p), base[p] # NoPolicy,
         {q \in Policy : Known(q)} = {p, base[p]},
         pol[p].promotion.camp # NoCampaign,
         \A c \in CampaignId : Exists(c) => camp[c].state = "completed"
  PROVE  /\ p \in Trained /\ StatusInvAt(p) /\ IsOnlyCandidate(p)
         /\ pol[p].promotion \in Binding /\ pol[p].rollback \in Binding
         /\ \A k \in Kinds : BindingInvAt(k, p)
         /\ \A k \in Kinds : pol[p][k].camp # NoCampaign =>
              /\ pol[p][k].camp \in CampaignId /\ camp[pol[p][k].camp].state = "completed"
              /\ pol[p][k].auth # Nobody /\ pol[p][k].by # Nobody
         /\ pol[p].status = IF RolledBack(p) THEN "rolled_back" ELSE "active"
<1>1. /\ p \in Trained /\ StatusInvAt(p) /\ \A k \in Kinds : BindingInvAt(k, p)
      /\ pol[p].promotion \in Binding /\ pol[p].rollback \in Binding
      /\ pol[p].status \in Statuses
  BY RecordFacts DEF Trained, IInv, TypeOK, StatusInv, BindingInv
<1>2. ASSUME NEW k \in Kinds, pol[p][k].camp # NoCampaign
      PROVE  /\ pol[p][k].camp \in CampaignId /\ camp[pol[p][k].camp].state = "completed"
             /\ pol[p].status \in Final(k)
  <2>1. Exists(pol[p][k].camp) /\ camp[pol[p][k].camp].fp = CaseOf(k, p)
    BY <1>1, <1>2 DEF BindingInvAt
  <2>2. pol[p][k].camp \in CampaignId
    BY <1>1, <1>2 DEF Binding, Kinds
  <2>3. camp[pol[p][k].camp].state = "completed"
    BY <2>1, <2>2
  <2> QED BY <2>1, <2>2, <2>3 DEF IInv, ShellInv, ShellInvAt, CaseOf
<1>3. IsOnlyCandidate(p)
  <2>1. /\ base[p] \in Policy /\ p # base[p]
        /\ base \in [Policy -> Policy \cup {NoPolicy}]
    BY <1>1, Assumed DEF Trained, AllAssumptions, LocalPolicyAssumption
  <2>2. \E q \in {p, base[p]} : base[q] = NoPolicy
    BY DEF StoryInv, KnownPolicies
  <2> QED BY <1>1, <2>1, <2>2 DEF IsOnlyCandidate, KnownPolicies
<1>4. pol[p].status \in {"active", "rolled_back"}
  <2>1. pol[p].status \in Applied
    BY <1>2 DEF Final, Kinds
  <2>2. pol[p].status # "superseded"
    BY <1>1, <1>3, <2>1 DEF StoryInv, StoryInvAt, Applied
  <2> QED BY <2>1, <2>2 DEF Applied
<1>5. pol[p].status = "rolled_back" <=> RolledBack(p)
  <2>1. ASSUME RolledBack(p)
        PROVE  pol[p].status = "rolled_back"
    BY <1>2, <2>1 DEF RolledBack, Final, Kinds
  <2>2. ASSUME pol[p].status = "rolled_back"
        PROVE  RolledBack(p)
    BY <1>1, <2>2 DEF StatusInvAt, Coherent, RolledBack
  <2> QED BY <2>1, <2>2
<1>6. pol[p].promotion.auth # Nobody /\ pol[p].promotion.by # Nobody
  BY <1>1, <1>4 DEF StatusInvAt, Applied
<1>7. RolledBack(p) => pol[p].rollback.auth # Nobody /\ pol[p].rollback.by # Nobody
  BY <1>1, <1>5 DEF StatusInvAt, Coherent
<1>8. ASSUME NEW k \in Kinds, pol[p][k].camp # NoCampaign
      PROVE  pol[p][k].auth # Nobody /\ pol[p][k].by # Nobody
  BY <1>6, <1>7, <1>8 DEF Kinds, RolledBack
<1> QED BY <1>1, <1>2, <1>3, <1>4, <1>5, <1>8

LEMMA LogIsExemplary ==
  ASSUME IInv, NEW p \in Trained, IsOnlyCandidate(p), NEW n \in {5, 8}, Tells(p, n)
  PROVE  log = Lifecycle(p) \o (IF n = 8 THEN RollbackEvents(p) ELSE <<>>)
<1> DEFINE E == [type: EventTypes, p: Policy]
           s == <<[type |-> "registered", p |-> base[p]]>>
           t == [i \in 1..4 |-> [type |-> <<"candidate_admitted", "evaluated", "authorized",
                                            "activated">>[i], p |-> p]]
           u == RollbackEvents(p)
<1>1. p \in Policy /\ base[p] \in Policy /\ log \in Seq(E) /\ Len(log) = n
  BY DEF IsOnlyCandidate, Trained, IInv, TypeOK, RegistryTypeOK, Tells
<1>2. /\ s \in Seq(E) /\ Len(s) = 1 /\ s[1] = Event(p, 1)
  BY <1>1, EventFacts DEF EventTypes
<1>3. /\ t \in Seq(E) /\ Len(t) = 4 /\ t[1] = Event(p, 2) /\ t[2] = Event(p, 3)
      /\ t[3] = Event(p, 4) /\ t[4] = Event(p, 5)
  BY <1>1, EventFacts DEF EventTypes
<1>4. /\ u \in Seq(E) /\ Len(u) = 3 /\ u[1] = Event(p, 6) /\ u[2] = Event(p, 7)
      /\ u[3] = Event(p, 8)
  BY <1>1, EventFacts DEF EventTypes, RollbackEvents
<1>5. Lifecycle(p) = s \o t
  BY DEF Lifecycle
<1> HIDE DEF s, t, u, E
<1>6. /\ Lifecycle(p) \in Seq(E) /\ Len(Lifecycle(p)) = 5
      /\ \A i \in 1..5 : Lifecycle(p)[i] = IF i <= 1 THEN s[i] ELSE t[i - 1]
  <2>1. /\ s \o t \in Seq(E) /\ Len(s \o t) = Len(s) + Len(t)
        /\ \A i \in 1 .. Len(s) + Len(t) : (s \o t)[i] = IF i <= Len(s) THEN s[i] ELSE t[i - Len(s)]
    BY <1>2, <1>3, ConcatProperties
  <2> QED BY <1>2, <1>3, <1>5, <2>1
<1>7. \A i \in 1..5 : Lifecycle(p)[i] = Event(p, i)
  <2>1. \A i \in 1..5 : i = 1 \/ i = 2 \/ i = 3 \/ i = 4 \/ i = 5
    OBVIOUS
  <2>2. Lifecycle(p)[1] = Event(p, 1) /\ Lifecycle(p)[2] = Event(p, 2)
        /\ Lifecycle(p)[3] = Event(p, 3) /\ Lifecycle(p)[4] = Event(p, 4)
        /\ Lifecycle(p)[5] = Event(p, 5)
    BY <1>2, <1>3, <1>6
  <2> QED BY <2>1, <2>2
<1>8. CASE n = 5
  <2>1. Lifecycle(p) \o <<>> = Lifecycle(p)
    BY <1>6, ConcatEmptySeq
  <2>2. log = Lifecycle(p)
    BY <1>1, <1>6, <1>7, <1>8, SeqEqual DEF Tells
  <2> QED BY <1>8, <2>1, <2>2
<1>9. CASE n = 8
  <2>1. /\ Lifecycle(p) \o u \in Seq(E) /\ Len(Lifecycle(p) \o u) = 8
        /\ \A i \in 1..8 : (Lifecycle(p) \o u)[i] = IF i <= 5 THEN Lifecycle(p)[i] ELSE u[i - 5]
    <3> DEFINE l == Lifecycle(p)
    <3>1. l \in Seq(E) /\ Len(l) = 5
      BY <1>6
    <3> HIDE DEF l
    <3>2. /\ l \o u \in Seq(E) /\ Len(l \o u) = Len(l) + Len(u)
          /\ \A i \in 1 .. Len(l) + Len(u) : (l \o u)[i] = IF i <= Len(l) THEN l[i] ELSE u[i - Len(l)]
      BY <1>4, <3>1, ConcatProperties
    <3>3. /\ l \o u \in Seq(E) /\ Len(l \o u) = 8
          /\ \A i \in 1..8 : (l \o u)[i] = IF i <= 5 THEN l[i] ELSE u[i - 5]
      BY <1>4, <3>1, <3>2
    <3> QED BY <3>3 DEF l
  <2>2. \A i \in 1..8 : (Lifecycle(p) \o u)[i] = Event(p, i)
    <3>1. \A i \in 1..8 : i \in 1..5 \/ i = 6 \/ i = 7 \/ i = 8
      OBVIOUS
    <3>2. ASSUME NEW i \in 1..5
          PROVE  (Lifecycle(p) \o u)[i] = Event(p, i)
      <4>1. i \in 1..8 /\ i <= 5
        OBVIOUS
      <4> QED BY <1>7, <2>1, <4>1
    <3>3. (Lifecycle(p) \o u)[6] = Event(p, 6) /\ (Lifecycle(p) \o u)[7] = Event(p, 7)
          /\ (Lifecycle(p) \o u)[8] = Event(p, 8)
      BY <1>4, <2>1
    <3> QED BY <3>1, <3>2, <3>3
  <2>3. log = Lifecycle(p) \o u
    BY <1>1, <1>9, <2>1, <2>2, SeqEqual DEF Tells
  <2> QED BY <1>9, <2>3 DEF u
<1> QED BY <1>8, <1>9

LEMMA CampaignOfCompleted ==
  ASSUME IInv, NEW p \in Trained, Known(p), NEW k \in Kinds, BindingInvAt(k, p), StatusInvAt(p),
         pol[p][k] \in Binding, pol[p][k].camp \in CampaignId,
         camp[pol[p][k].camp].state = "completed",
         pol[p][k].auth # Nobody, pol[p][k].by # Nobody,
         reused = {}, pol[p][k].by # pol[p][k].auth
  PROVE  CampaignIsExemplary(k, p, pol[p][k].camp)
<1> DEFINE c == pol[p][k].camp
<1>1. /\ Exists(c) /\ camp[c].fp = CaseOf(k, p) /\ c # NoCampaign
  BY Assumed DEF BindingInvAt, AllAssumptions, LocalPolicyAssumption
<1>2. /\ camp[c].target = TargetOf(CaseOf(k, p)) /\ camp[c].gen = GeneratorOf(CaseOf(k, p))
      /\ camp[c].need = 2 /\ camp[c].cand = CaseOf(k, p)
  BY <1>1 DEF IInv, ShellInv, ShellInvAt, WithCandidate
<1>3. pol[p][k].ev # NoEvidence
  BY <1>1 DEF StatusInvAt, Coherent, Kinds
<1>4. Bound(k, p, c)
  BY <1>1, <1>2, <1>3 DEF Bound, CampaignMatches
<1>5. camp[c].rev = 6 /\ Cardinality(Approvers(c)) = 2
  BY <1>1 DEF IInv, RevisionInv, RevisionInvAt
<1>6. /\ \A a \in Actor : approvals[c][a] # "reject"
      /\ camp[c].gen \notin Approvers(c)
  BY <1>1 DEF IInv, ApprovalInv, ApprovalInvAt, Approvers
<1>7. /\ Approvers(c) \cap Prohibited(CaseOf(k, p)) = {}
      /\ pol[p][k].auth \notin Prohibited(CaseOf(k, p)) \cup Approvers(c)
      /\ pol[p][k].by \notin Prohibited(CaseOf(k, p)) \cup Approvers(c)
  BY DEF BindingInvAt, EarlierHands
<1>8. StillAuthorized(k, p, c)
  BY <1>5, <1>6, <1>7 DEF StillAuthorized
<1> QED BY <1>4, <1>5, <1>7, <1>8 DEF CampaignIsExemplary, AuditIsExemplary

(* The events of the only candidate are in the order of their times.        *)
LEMMA Ascending ==
  ASSUME NEW f, NEW n \in {5, 8}, f \in [1..8 -> Nat],
         f[1] <= f[2], f[2] <= f[3], f[3] <= f[4], f[4] <= f[5],
         n = 8 => f[5] <= f[6] /\ f[6] <= f[7] /\ f[7] <= f[8],
         NEW i \in 1..n, NEW j \in 1..n, i < j
  PROVE  f[i] <= f[j]
<1>1. /\ i = 1 \/ i = 2 \/ i = 3 \/ i = 4 \/ i = 5 \/ (n = 8 /\ (i = 6 \/ i = 7))
      /\ j = 2 \/ j = 3 \/ j = 4 \/ j = 5 \/ (n = 8 /\ (j = 6 \/ j = 7 \/ j = 8))
  OBVIOUS
<1>2. f[1] \in Nat /\ f[2] \in Nat /\ f[3] \in Nat /\ f[4] \in Nat /\ f[5] \in Nat
      /\ f[6] \in Nat /\ f[7] \in Nat /\ f[8] \in Nat
  OBVIOUS
<1> QED BY <1>1, <1>2

LEMMA TimesAscend ==
  ASSUME IInv, TimeInv, NEW p \in Trained, Known(p), base[p] \in Policy, NEW n \in {5, 8},
         Tells(p, n), n = 8 <=> RolledBack(p),
         pol[p].status \notin {"candidate", "rejected"}, overtook = {}, ~MadeTooSoon(p),
         \A k \in Kinds : k = "promotion" \/ RolledBack(p) =>
           pol[p][k].auth # Nobody /\ pol[p][k].by # Nobody /\ pol[p][k].ev \in Evidence
  PROVE  \A i, j \in DOMAIN log : i < j => AtOf(log[i]) <= AtOf(log[j])
<1>1. /\ p \in Policy /\ p \in promotable /\ TimesAt("promotion", p) /\ TimesAt("rollback", p)
      /\ TypeOK /\ AllAssumptions
  BY Assumed DEF Trained, TimeInv, PassedInv, Kinds, IInv
<1>2. /\ \A type \in EventTypes, q \in Policy : at[type][q] \in Nat
      /\ \A ev \in Evidence : askedAt[ev] \in Nat /\ judgedAt[ev] \in Nat
  BY <1>1, TimeTypes
<1>3. \A type \in EventTypes : at[type][p] \in Nat /\ at[type][base[p]] \in Nat
  BY <1>1, <1>2
<1>4. /\ at["registered"][base[p]] <= at["candidate_admitted"][p]
      /\ at["candidate_admitted"][p] <= at["evaluated"][p]
      /\ at["evaluated"][p] <= at["authorized"][p]
      /\ at["authorized"][p] <= at["activated"][p]
  <2> DEFINE b == pol[p].promotion
  <2>1. b.auth # Nobody /\ b.by # Nobody /\ b.ev \in Evidence /\ b.ev # NoEvidence
    BY <1>1 DEF Kinds, AllAssumptions, LocalPolicyAssumption
  <2>2. /\ at["candidate_admitted"][p] <= askedAt[b.ev] /\ askedAt[b.ev] <= judgedAt[b.ev]
        /\ at["evaluated"][p] = judgedAt[b.ev]
        /\ judgedAt[b.ev] <= at["authorized"][p]
        /\ at["authorized"][p] <= at["activated"][p]
    BY <1>1, <2>1 DEF TimesAt, Judged, SubmitEvent, AuthEvent, MoveEvent
  <2>3. at["registered"][base[p]] <= at["candidate_admitted"][p]
    BY <1>3 DEF MadeTooSoon, EventTypes
  <2>4. at["candidate_admitted"][p] <= at["evaluated"][p]
    <3>1. /\ at["candidate_admitted"][p] \in Nat /\ askedAt[b.ev] \in Nat
          /\ judgedAt[b.ev] \in Nat
      BY <1>2, <1>3, <2>1 DEF EventTypes
    <3> HIDE DEF b
    <3> QED BY <2>2, <3>1
  <2> QED BY <2>2, <2>3, <2>4
<1>5. ASSUME n = 8
      PROVE  /\ at["activated"][p] <= at["rollback_submitted"][p]
             /\ at["rollback_submitted"][p] <= at["rollback_authorized"][p]
             /\ at["rollback_authorized"][p] <= at["rolled_back"][p]
  <2> DEFINE b == pol[p].rollback
  <2>1. b.auth # Nobody /\ b.by # Nobody /\ b.ev \in Evidence /\ b.ev # NoEvidence
    BY <1>1, <1>5 DEF Kinds, AllAssumptions, LocalPolicyAssumption
  <2>2. /\ at["activated"][p] <= askedAt[b.ev] /\ askedAt[b.ev] <= judgedAt[b.ev]
        /\ at["rollback_submitted"][p] = judgedAt[b.ev]
        /\ judgedAt[b.ev] <= at["rollback_authorized"][p]
        /\ at["rollback_authorized"][p] <= at["rolled_back"][p]
    BY <1>1, <2>1 DEF TimesAt, Judged, SubmitEvent, AuthEvent, MoveEvent
  <2>3. at["activated"][p] \in Nat /\ askedAt[b.ev] \in Nat /\ judgedAt[b.ev] \in Nat
    BY <1>2, <1>3, <2>1 DEF EventTypes
  <2> HIDE DEF b
  <2> QED BY <2>2, <2>3
<1> DEFINE f == [i \in 1..8 |-> AtOf(Event(p, i))]
<1>6. /\ f[1] = at["registered"][base[p]] /\ f[2] = at["candidate_admitted"][p]
      /\ f[3] = at["evaluated"][p] /\ f[4] = at["authorized"][p] /\ f[5] = at["activated"][p]
      /\ f[6] = at["rollback_submitted"][p] /\ f[7] = at["rollback_authorized"][p]
      /\ f[8] = at["rolled_back"][p]
  BY <1>1, EventFacts DEF AtOf
<1>7. f \in [1..8 -> Nat]
  <2>1. \A i \in 1..8 : i = 1 \/ i = 2 \/ i = 3 \/ i = 4 \/ i = 5 \/ i = 6 \/ i = 7 \/ i = 8
    OBVIOUS
  <2>2. /\ f[1] \in Nat /\ f[2] \in Nat /\ f[3] \in Nat /\ f[4] \in Nat
        /\ f[5] \in Nat /\ f[6] \in Nat /\ f[7] \in Nat /\ f[8] \in Nat
    <3> HIDE DEF f
    <3> QED BY <1>3, <1>6 DEF EventTypes
  <2>3. \A i \in 1..8 : f[i] \in Nat
    <3> HIDE DEF f
    <3> QED BY <2>1, <2>2
  <2> QED BY <2>3
<1>8. DOMAIN log = 1..n /\ \A i \in 1..n : AtOf(log[i]) = f[i]
  <2>1. log \in Seq([type: EventTypes, p: Policy]) /\ Len(log) = n
    BY <1>1 DEF TypeOK, RegistryTypeOK, Tells
  <2>2. \A i \in 1..n : i \in 1..8 /\ log[i] = Event(p, i)
    BY DEF Tells
  <2> QED BY <2>1, <2>2
<1>9. /\ f[1] <= f[2] /\ f[2] <= f[3] /\ f[3] <= f[4] /\ f[4] <= f[5]
      /\ n = 8 => f[5] <= f[6] /\ f[6] <= f[7] /\ f[7] <= f[8]
  <2> HIDE DEF f
  <2> QED BY <1>4, <1>5, <1>6
<1>10. ASSUME NEW i \in 1..n, NEW j \in 1..n, i < j
       PROVE  f[i] <= f[j]
  <2> HIDE DEF f
  <2> QED BY <1>7, <1>9, <1>10, Ascending
<1> HIDE DEF f
<1> QED BY <1>8, <1>10

LEMMA StoryImpliesPackageable ==
  ASSUME IInv, StoryInv, TimeInv
  PROVE  CompletedIsPackageable
<1> SUFFICES ASSUME NEW p \in Policy, IsComplete(p), ~MadeTooSoon(p), ~RequestedTooSoon(p)
             PROVE  PackageVerifies(p)
  BY DEF CompletedIsPackageable
<1>0. /\ Known(p) /\ base[p] # NoPolicy /\ {q \in Policy : Known(q)} = {p, base[p]}
      /\ reused = {} /\ overtook = {} /\ pol[p].promotion.camp # NoCampaign
      /\ \A c \in CampaignId : Exists(c) =>
           camp[c].state = "completed" /\ c \in {pol[p].promotion.camp, pol[p].rollback.camp}
  BY DEF IsComplete
<1>1. /\ p \in Trained /\ StatusInvAt(p) /\ IsOnlyCandidate(p)
      /\ pol[p].promotion \in Binding /\ pol[p].rollback \in Binding
      /\ \A k \in Kinds : BindingInvAt(k, p)
      /\ \A k \in Kinds : pol[p][k].camp # NoCampaign =>
           /\ pol[p][k].camp \in CampaignId /\ camp[pol[p][k].camp].state = "completed"
           /\ pol[p][k].auth # Nobody /\ pol[p][k].by # Nobody
      /\ pol[p].status = IF RolledBack(p) THEN "rolled_back" ELSE "active"
  BY <1>0, CompletedStatus
<1>2. ASSUME NEW k \in Kinds, pol[p][k].camp # NoCampaign
      PROVE  CampaignIsExemplary(k, p, pol[p][k].camp)
  <2>1. pol[p][k] \in Binding
    BY <1>1 DEF Kinds
  <2>2. pol[p][k].by # pol[p][k].auth
    BY <1>0, <1>1, <1>2 DEF TimeInv, TimesAt
  <2> QED BY <1>0, <1>1, <1>2, <2>1, <2>2, CampaignOfCompleted
<1>3. PromotionVerifies(p)
  BY <1>0, <1>2 DEF PromotionVerifies, Kinds
<1>4. RollbackVerifies(p)
  <2> SUFFICES ASSUME RolledBack(p)
               PROVE  /\ CampaignIsExemplary("rollback", p, pol[p].rollback.camp)
                      /\ {pol[p].promotion.auth, pol[p].promotion.by} \cap
                           (Judges(pol[p].rollback.ev) \cup Approvers(pol[p].rollback.camp)
                              \cup {pol[p].rollback.auth, pol[p].rollback.by}) = {}
    BY DEF RollbackVerifies
  <2>1. "rollback" \in Kinds /\ pol[p].rollback.camp # NoCampaign
    BY DEF Kinds, RolledBack
  <2>2. CampaignIsExemplary("rollback", p, pol[p].rollback.camp)
    BY <1>2, <2>1
  <2>3. pol[p].rollback.auth # Nobody /\ pol[p].rollback.by # Nobody /\ pol[p].status \in Applied
    BY <1>1, <2>1 DEF Applied
  <2> DEFINE C == {pol[p].promotion.auth, pol[p].promotion.by}
             D == Judges(pol[p].rollback.ev)
             E == Approvers(pol[p].rollback.camp)
             F == {pol[p].rollback.auth, pol[p].rollback.by}
  <2>4. D \cap C = {} /\ E \cap C = {} /\ (F \ {Nobody}) \cap C = {}
    BY <1>0, <2>3, GroupsAreApart
  <2>5. C \cap (D \cup E \cup F) = {}
    BY <2>3, <2>4
  <2> QED BY <2>2, <2>5
<1> DEFINE n == IF RolledBack(p) THEN 8 ELSE 5
<1>5. Tells(p, n) /\ head.rev = MovesTo(pol[p]) /\ n \in {5, 8}
  <2>1. Tells(p, Events(pol[p])) /\ head.rev = MovesTo(pol[p])
    BY <1>1 DEF StoryInv, StoryInvAt
  <2>2. Events(pol[p]) = n
    <3>1. CASE RolledBack(p)
      BY <1>1, <3>1 DEF Events
    <3>2. CASE ~RolledBack(p)
      BY <1>1, <3>2 DEF Events, StatusInvAt, Coherent, RolledBack
    <3> QED BY <3>1, <3>2
  <2> QED BY <2>1, <2>2
<1>6. log = Lifecycle(p) \o (IF RolledBack(p) THEN RollbackEvents(p) ELSE <<>>)
  <2>1. log = Lifecycle(p) \o (IF n = 8 THEN RollbackEvents(p) ELSE <<>>)
    <3> HIDE DEF n
    <3> QED BY <1>1, <1>5, LogIsExemplary
  <2> QED BY <2>1
<1>7. RecordsVerify(p)
  <2>1. /\ base[p] \in Policy /\ base[p] \notin Trained /\ base[p] # p
    BY <1>1, Assumed DEF IsOnlyCandidate, Trained, AllAssumptions, LocalPolicyAssumption
  <2>2. Known(base[p]) /\ StatusInvAt(base[p])
    BY <1>1, <2>1 DEF IsOnlyCandidate, KnownPolicies, IInv, StatusInv
  <2>3. pol[base[p]].status \in {"active", "superseded"}
    BY <2>1, <2>2 DEF StatusInvAt
  <2>4. head.active # NoPolicy
    BY <1>0 DEF IInv, FamilyInv, Known
  <2>5. \A q \in Policy : pol[q].status = "active" <=> q = head.active
    BY <2>4 DEF IInv, FamilyInv, StateVerifies
  <2>6. /\ head = [active |-> head.active, rev |-> head.rev]
        /\ head.active \in Policy
    BY <2>4 DEF IInv, TypeOK, RegistryTypeOK
  <2>7. CASE RolledBack(p)
    <3>1. pol[p].status = "rolled_back" /\ head.rev = 2
      BY <1>1, <1>5, <2>7 DEF MovesTo
    <3>2. head.active \in {q \in Policy : Known(q)}
      BY <2>5, <2>6 DEF Known, NoRecord
    <3>3. head.active = base[p] /\ pol[base[p]].status = "active"
      BY <1>0, <2>1, <2>5, <3>1, <3>2
    <3> QED BY <2>6, <2>7, <3>1, <3>3 DEF RecordsVerify
  <2>8. CASE ~RolledBack(p)
    <3>1. pol[p].status = "active" /\ head.rev = 1
      BY <1>1, <1>5, <2>8 DEF MovesTo
    <3>2. head.active = p /\ pol[base[p]].status = "superseded"
      BY <2>1, <2>3, <2>5, <3>1
    <3> QED BY <2>6, <2>8, <3>1, <3>2 DEF RecordsVerify
  <2> QED BY <2>7, <2>8
<1>8. ScopeVerifies(p)
  BY <1>0 DEF ScopeVerifies
<1>9. \A k \in Kinds : k = "promotion" \/ RolledBack(p) =>
        pol[p][k].auth # Nobody /\ pol[p][k].by # Nobody /\ pol[p][k].ev \in Evidence
  <2> SUFFICES ASSUME NEW k \in Kinds, k = "promotion" \/ RolledBack(p)
               PROVE  pol[p][k].auth # Nobody /\ pol[p][k].by # Nobody /\ pol[p][k].ev \in Evidence
    OBVIOUS
  <2>1. pol[p][k].camp # NoCampaign /\ pol[p][k] \in Binding
    BY <1>0, <1>1 DEF RolledBack, Kinds
  <2>2. pol[p][k].ev # NoEvidence
    BY <1>1, <2>1 DEF StatusInvAt, Coherent, Kinds
  <2> QED BY <1>1, <2>1, <2>2 DEF Binding
<1>10. MonotonicTimes(p)
  <2>1. /\ base[p] \in Policy /\ pol[p].status \notin {"candidate", "rejected"}
        /\ n = 8 <=> RolledBack(p)
    BY <1>1 DEF IsOnlyCandidate
  <2>2. \A i, j \in DOMAIN log : i < j => AtOf(log[i]) <= AtOf(log[j])
    <3> HIDE DEF n
    <3> QED BY <1>0, <1>1, <1>5, <1>9, <2>1, TimesAscend
  <2>3. ASSUME RolledBack(p)
        PROVE  camp[pol[p].promotion.camp].upd <= askedAt[pol[p].rollback.ev]
    <3> DEFINE c == pol[p].promotion.camp  ev == pol[p].rollback.ev
    <3>1. c \in CampaignId /\ Exists(c) /\ ev \in Evidence /\ ev # NoEvidence
      <4>1. c \in CampaignId /\ BindingInvAt("promotion", p)
        BY <1>0, <1>1 DEF Kinds
      <4> QED BY <1>0, <1>9, <2>3, <4>1, Assumed
              DEF BindingInvAt, Kinds, AllAssumptions, LocalPolicyAssumption
    <3>2. camp[c].upd \in Nat
      <4>1. camp[c] \in RowBy(Actor) \cup {NoRow} /\ camp[c].state # "absent"
        BY <3>1 DEF IInv, TypeOK, CampaignsTypeOK, Exists
      <4>2. camp[c] \in RowBy(Actor)
        BY <4>1 DEF NoRow
      <4> QED BY <4>2 DEF RowBy
    <3>3. at["activated"][p] <= askedAt[ev]
      <4>1. TimesAt("rollback", p)
        BY <1>0, <1>1 DEF TimeInv, Kinds
      <4> QED BY <3>1, <4>1 DEF TimesAt, Judged
    <3>4. askedAt[ev] \in Nat
      BY <3>1, Assumed, TimeTypes DEF IInv
    <3> QED BY <2>3, <3>2, <3>3, <3>4 DEF RequestedTooSoon
  <2> QED BY <2>2, <2>3 DEF MonotonicTimes
<1> QED BY <1>3, <1>4, <1>6, <1>7, <1>8, <1>10 DEF PackageVerifies

(* Once the campaigns of the only candidate have completed, the package     *)
(* builder accepts what the two databases hold, the order of its times      *)
(* included, however often calls were cut short and repeated: unless the    *)
(* candidate was said to be made before its base was registered, or its     *)
(* rollback to be requested before the promotion completed.                 *)
THEOREM CompletedCanBePackaged == Spec => []CompletedIsPackageable
<1>1. Init => StoryInv
  <2> SUFFICES ASSUME Init
               PROVE  StoryInv
    OBVIOUS
  <2>1. log = <<>> /\ KnownPolicies = {}
    BY DEF Init, RegistryInit, KnownPolicies, Known
  <2>2. (\A r \in Policy : KnownPolicies # {r}) /\ \A p \in Trained : ~IsOnlyCandidate(p)
    BY <2>1 DEF IsOnlyCandidate
  <2> QED BY <2>1, <2>2 DEF StoryInv, StoryInvAt
<1>2. IInv /\ StoryInv /\ [Next]_vars => StoryInv'
  BY StoryIsTold
<1>3. IInv /\ StoryInv /\ TimeInv => CompletedIsPackageable
  BY StoryImpliesPackageable
<1> QED BY <1>1, <1>2, <1>3, InvariantHolds, TimesAreKept, PTL DEF Spec

-----------------------------------------------------------------------------
(* The registry and the campaigns implement GovernedChange: each step of    *)
(* theirs is a step of it or leaves what it speaks of alone.                *)

Stage == [p \in Policy |-> StageOf(p)]
Votings(k) == [p \in Policy |-> VotesFor(k, p)]

(* A step of GovernedChange, in terms of what it is mapped to.              *)
GovernedStep == [Governed!Next]_<<Stage, Votings("promotion"), Votings("rollback"), head.active>>

LEMMA StageFacts ==
  ASSUME NEW p \in Policy
  PROVE  /\ pol[p].status \in {"candidate", "evaluated", "rejected"} => StageOf(p) = "proposed"
         /\ pol[p].status = "authorized" => StageOf(p) = "approved"
         /\ pol[p].status \in {"active", "superseded"} => StageOf(p) = "applied"
         /\ pol[p].status = "rolled_back" => StageOf(p) = "undone"
         /\ pol[p] = NoRecord => StageOf(p) = "none"
BY DEF StageOf, NoRecord

LEMMA StageStays ==
  ASSUME NEW p \in Policy, pol'[p].status = pol[p].status
  PROVE  StageOf(p)' = StageOf(p)
BY DEF StageOf

(* Who may not vote on a bound case is settled.                             *)
LEMMA ProhibitedStays ==
  ASSUME IInv, AllAssumptions, GoesOn, CampaignsGoOn, NEW p \in Policy, Known(p), NEW k \in Kinds,
         pol[p][k].camp # NoCampaign
  PROVE  Prohibited(CaseOf(k, p))' = Prohibited(CaseOf(k, p))
<1>1. /\ p \in Trained /\ CaseOf(k, p)' = CaseOf(k, p)
      /\ k = "rollback" => pol[p].status \in Applied
  BY BindingStays
<1>2. CASE k = "promotion"
  BY <1>1, <1>2 DEF Prohibited, CaseOf, Judges
<1>3. CASE k = "rollback"
  <2>1. /\ PromotionRoles(p)' = PromotionRoles(p)
        /\ Approvers(pol[p].promotion.camp)' = Approvers(pol[p].promotion.camp)
    BY <1>1, <1>3, PromotionStays
  <2>2. /\ Prohibited(CaseOf(k, p)) = PromotionRoles(p) \cup Approvers(pol[p].promotion.camp)
                                  \cup Judges(pol[p].rollback.ev)
        /\ Prohibited(CaseOf(k, p))' = PromotionRoles(p)' \cup Approvers(pol[p].promotion.camp)'
                                   \cup Judges(pol[p].rollback.ev)'
    BY <1>3 DEF Prohibited, CaseOf
  <2>3. Judges(pol[p].rollback.ev)' = Judges(pol[p].rollback.ev)
    BY <1>1, <1>3 DEF CaseOf, Judges
  <2> QED BY <2>1, <2>2, <2>3
<1> QED BY <1>2, <1>3 DEF Kinds

(* The votes on a case change only with the approvals of its campaign.      *)
LEMMA VotesStay ==
  ASSUME IInv, AllAssumptions, [Next]_vars, NEW p \in Policy, Known(p), NEW k \in Kinds,
         pol[p][k].camp # NoCampaign =>
           Approvers(pol[p][k].camp)' = Approvers(pol[p][k].camp),
         pol[p][k].camp = NoCampaign => pol'[p][k].camp = NoCampaign
  PROVE  VotesFor(k, p)' = VotesFor(k, p)
<1>0. GoesOn /\ CampaignsGoOn /\ Known(p)'
  BY StepFacts DEF GoesOn
<1>1. CASE pol[p][k].camp = NoCampaign
  BY <1>0, <1>1 DEF VotesFor
<1>2. CASE pol[p][k].camp # NoCampaign
  <2>1. /\ pol'[p][k].camp = pol[p][k].camp
        /\ Prohibited(CaseOf(k, p))' = Prohibited(CaseOf(k, p))
    BY <1>0, <1>2, BindingStays, ProhibitedStays
  <2>2. Approvers(pol[p][k].camp)' = Approvers(pol[p][k].camp)
    BY <1>2
  <2> QED BY <1>0, <1>2, <2>1, <2>2 DEF VotesFor
<1> QED BY <1>1, <1>2

LEMMA NoVotes ==
  ASSUME NEW p \in Policy, NEW k, ~Known(p) \/ pol[p][k].camp = NoCampaign
  PROVE  VotesFor(k, p) = 0
BY DEF VotesFor

(* Two approvers outside those who had a part before make two votes.        *)
LEMMA AuthorizedByTwo ==
  ASSUME NEW p \in Policy, Known(p), NEW k \in Kinds, NEW c \in CampaignId, c # NoCampaign,
         pol[p][k].camp = c, Cardinality(Approvers(c)) = 2,
         Approvers(c) \cap EarlierHands(k, p) = {}
  PROVE  VotesFor(k, p) = 2
<1>1. Approvers(c) \ Prohibited(CaseOf(k, p)) = Approvers(c)
  BY DEF EarlierHands
<1> QED BY <1>1 DEF VotesFor

-----------------------------------------------------------------------------
(* The campaigns *)

LEMMA QuietCampaigns ==
  ASSUME IInv, AllAssumptions, [Next]_vars, UNCHANGED registryVars,
         \A c \in CampaignId : Exists(c) => Approvers(c)' = Approvers(c)
  PROVE  GovernedStep
<1>0. pol' = pol /\ head' = head
  BY DEF registryVars
<1>1. Stage' = Stage
  BY <1>0, StageStays DEF Stage
<1>2. ASSUME NEW p \in Policy, NEW k \in Kinds
      PROVE  VotesFor(k, p)' = VotesFor(k, p)
  <2>1. CASE ~Known(p)
    BY <1>0, <2>1 DEF VotesFor, Known
  <2>2. CASE Known(p) /\ pol[p][k].camp = NoCampaign
    BY <1>0, <2>2, VotesStay
  <2>3. CASE Known(p) /\ pol[p][k].camp # NoCampaign
    <3>0. GoesOn /\ CampaignsGoOn
      BY StepFacts
    <3>1. p \in Trained /\ pol[p][k].camp \in CampaignId
      BY <2>3, <3>0, BindingStays
    <3>2. Exists(pol[p][k].camp)
      BY <2>3, <3>1 DEF IInv, BindingInv, BindingInvAt
    <3>3. Approvers(pol[p][k].camp)' = Approvers(pol[p][k].camp)
      BY <1>0, <3>1, <3>2 DEF Approvers
    <3> QED BY <2>3, <3>3, VotesStay
  <2> QED BY <2>1, <2>2, <2>3
<1>3. Votings("promotion")' = Votings("promotion") /\ Votings("rollback")' = Votings("rollback")
  BY <1>2 DEF Votings, Kinds
<1> QED BY <1>0, <1>1, <1>3 DEF GovernedStep

LEMMA VotesOnCampaigns ==
  ASSUME IInv, AllAssumptions, [Next]_vars, UNCHANGED registryVars,
         NEW c \in CampaignId, NEW a \in Actor, NEW t \in Nat,
         RecordApproval(c, a, "approve", camp[c].rev, 0, t)
  PROVE  GovernedStep
<1>0. pol' = pol /\ head' = head /\ TypeOK /\ GoesOn /\ CampaignsGoOn
  BY StepFacts DEF registryVars, IInv
<1>1. Exists(c) /\ camp[c].state = "approval_pending" /\ camp[c].need = 2
  BY DEF RecordApproval, IInv, ShellInv, ShellInvAt
<1>2. /\ Approvers(c)' = Approvers(c) \cup {a} /\ a \notin Approvers(c)
      /\ IsFiniteSet(Approvers(c))
      /\ \A d \in CampaignId : d # c => Approvers(d)' = Approvers(d)
  <2>1. "approve" \in Decisions
    BY DEF Decisions
  <2>2. Approvers(c)' = Approvers(c) \cup {a} /\ IsFiniteSet(Approvers(c)) /\ approvals[c][a] = "none"
    BY <1>0, <1>1, <2>1, VoteEffect
  <2>3. approvals' = [approvals EXCEPT ![c][a] = "approve"]
    BY DEF RecordApproval
  <2>4. \A d \in CampaignId : d # c => Approvers(d)' = Approvers(d)
    BY <1>0, <2>3 DEF Approvers, TypeOK, CampaignsTypeOK
  <2> QED BY <2>2, <2>4 DEF Approvers
<1>3. PICK x \in Policy, k \in Kinds : camp[c].fp.p = x /\ camp[c].fp.kind = k
  BY <1>1, CaseFacts DEF IInv, ShellInv, ShellInvAt
<1>4. x \in Trained /\ Known(x) /\ pol[x][k].camp = c /\ c # NoCampaign
  BY <1>1, <1>3 DEF IInv, ShellInv, ShellInvAt, IsBoundTo, AllAssumptions, LocalPolicyAssumption
<1>5. ~Decided(c)
  BY <1>1 DEF Decided, ClosedStates
<1>6. StatusInvAt(x) /\ pol[x][k].auth = Nobody /\ pol[x][k].by = Nobody
  <2>1. BindingInvAt(k, x) /\ StatusInvAt(x)
    BY <1>4 DEF IInv, BindingInv, StatusInv
  <2>2. pol[x][k].auth = Nobody
    BY <1>4, <1>5, <2>1 DEF BindingInvAt
  <2> QED BY <2>1, <2>2 DEF StatusInvAt, Coherent, Kinds
<1>7. StageOf(x) = IF k = "promotion" THEN "proposed" ELSE "applied"
  <2>1. pol[x].status \in Statuses
    BY <1>0, <1>4, RecordFacts DEF TypeOK
  <2>2. CASE k = "promotion"
    BY <1>4, <1>6, <2>1, <2>2, StageFacts DEF StatusInvAt, Statuses, Applied
  <2>3. CASE k = "rollback"
    <3>1. pol[x].status \in Applied /\ pol[x].status # "rolled_back"
      BY <1>4, <1>6, <2>3 DEF StatusInvAt, Coherent
    <3> QED BY <2>3, <3>1, StageFacts DEF Applied
  <2> QED BY <2>2, <2>3 DEF Kinds
<1>8. Stage' = Stage
  BY <1>0, StageStays DEF Stage
<1>9. ASSUME NEW p \in Policy, NEW j \in Kinds, ~(p = x /\ j = k)
      PROVE  VotesFor(j, p)' = VotesFor(j, p)
  <2>1. CASE ~Known(p)
    BY <1>0, <2>1 DEF VotesFor, Known
  <2>2. CASE Known(p) /\ pol[p][j].camp = NoCampaign
    BY <1>0, <2>2, VotesStay
  <2>3. CASE Known(p) /\ pol[p][j].camp # NoCampaign
    <3>1. p \in Trained /\ pol[p][j].camp \in CampaignId
      BY <1>0, <2>3, BindingStays
    <3>2. camp[pol[p][j].camp].fp = CaseOf(j, p)
      BY <2>3, <3>1 DEF IInv, BindingInv, BindingInvAt
    <3>3. pol[p][j].camp # c
      BY <1>3, <1>9, <3>2 DEF CaseOf
    <3>4. Approvers(pol[p][j].camp)' = Approvers(pol[p][j].camp)
      BY <1>0, <1>2, <3>1, <3>3 DEF Approvers
    <3> QED BY <2>3, <3>4, VotesStay
  <2> QED BY <2>1, <2>2, <2>3
<1>10. /\ VotesFor(k, x) \in Nat
       /\ VotesFor(k, x)' = VotesFor(k, x) \/ VotesFor(k, x)' = VotesFor(k, x) + 1
  <2> DEFINE others == Approvers(c) \ Prohibited(CaseOf(k, x))
  <2>1. Prohibited(CaseOf(k, x))' = Prohibited(CaseOf(k, x)) /\ Known(x)' /\ pol'[x][k].camp = c
    BY <1>0, <1>4, ProhibitedStays DEF GoesOn
  <2>2. VotesFor(k, x) = Cardinality(others)
    BY <1>4 DEF VotesFor
  <2>3. VotesFor(k, x)' = Cardinality((Approvers(c) \cup {a}) \ Prohibited(CaseOf(k, x)))
    BY <1>2, <1>4, <2>1 DEF VotesFor
  <2>4. IsFiniteSet(others) /\ a \notin others
    BY <1>2, FS_Subset
  <2>5. Cardinality(others) \in Nat /\ Cardinality(others \cup {a}) = Cardinality(others) + 1
    BY <2>4, FS_CardinalityType, FS_AddElement
  <2>6. CASE a \in Prohibited(CaseOf(k, x))
    <3>1. (Approvers(c) \cup {a}) \ Prohibited(CaseOf(k, x)) = others
      BY <2>6
    <3> QED BY <2>2, <2>3, <2>5, <3>1
  <2>7. CASE a \notin Prohibited(CaseOf(k, x))
    <3>1. (Approvers(c) \cup {a}) \ Prohibited(CaseOf(k, x)) = others \cup {a}
      BY <2>7
    <3> QED BY <2>2, <2>3, <2>5, <3>1
  <2> QED BY <2>6, <2>7
<1>11. CASE k = "promotion"
  <2>1. Votings("rollback")' = Votings("rollback")
    BY <1>9, <1>11 DEF Votings, Kinds
  <2>2. Votings("promotion")' = [Votings("promotion") EXCEPT ![x] = VotesFor(k, x)']
    BY <1>9, <1>11 DEF Votings, Kinds
  <2>3. Stage[x] = "proposed" /\ Votings("promotion")[x] = VotesFor(k, x)
    BY <1>7, <1>11 DEF Stage, Votings
  <2>4. CASE VotesFor(k, x)' = VotesFor(k, x)
    <3>1. Votings("promotion")' = Votings("promotion")
      BY <1>9, <1>11, <2>4 DEF Votings, Kinds
    <3> QED BY <1>0, <1>8, <2>1, <3>1 DEF GovernedStep
  <2>5. CASE VotesFor(k, x)' = VotesFor(k, x) + 1
    <3>1. Governed!Vote(x)
      BY <1>0, <1>8, <2>1, <2>2, <2>3, <2>5 DEF Governed!Vote, Stage, Votings
    <3> QED BY <3>1 DEF GovernedStep, Governed!Next
  <2> QED BY <1>10, <2>4, <2>5
<1>12. CASE k = "rollback"
  <2>1. Votings("promotion")' = Votings("promotion")
    BY <1>9, <1>12 DEF Votings, Kinds
  <2>2. Votings("rollback")' = [Votings("rollback") EXCEPT ![x] = VotesFor(k, x)']
    BY <1>9, <1>12 DEF Votings, Kinds
  <2>3. Stage[x] = "applied" /\ Votings("rollback")[x] = VotesFor(k, x)
    BY <1>7, <1>12 DEF Stage, Votings
  <2>4. CASE VotesFor(k, x)' = VotesFor(k, x)
    <3>1. Votings("rollback")' = Votings("rollback")
      BY <1>9, <1>12, <2>4 DEF Votings, Kinds
    <3> QED BY <1>0, <1>8, <2>1, <3>1 DEF GovernedStep
  <2>5. CASE VotesFor(k, x)' = VotesFor(k, x) + 1
    <3>1. Governed!VoteToUndo(x)
      BY <1>0, <1>8, <2>1, <2>2, <2>3, <2>5 DEF Governed!VoteToUndo, Stage, Votings
    <3> QED BY <3>1 DEF GovernedStep, Governed!Next
  <2> QED BY <1>10, <2>4, <2>5
<1> QED BY <1>11, <1>12 DEF Kinds

LEMMA CampaignsRefine ==
  ASSUME IInv, AllAssumptions, [Next]_vars, UNCHANGED registryVars, NEW c \in CampaignId,
         NEW t \in Nat, ChangeAt(c, t)
  PROVE  GovernedStep
<1>1. CASE approvals' = approvals
  BY <1>1, QuietCampaigns DEF Approvers
<1>2. CASE Votes(c, t)
  <2>1. PICK a \in Actor, decision \in Decisions : RecordApproval(c, a, decision, camp[c].rev, 0, t)
    BY <1>2 DEF Votes
  <2>2. CASE decision = "approve"
    BY <2>1, <2>2, VotesOnCampaigns
  <2>3. CASE decision = "reject"
    <3>1. approvals' = [approvals EXCEPT ![c][a] = "reject"] /\ approvals[c][a] = "none"
      BY <2>1, <2>3 DEF RecordApproval
    <3>2. \A d \in CampaignId : Approvers(d)' = Approvers(d)
      BY <3>1 DEF Approvers, IInv, TypeOK, CampaignsTypeOK
    <3> QED BY <3>2, QuietCampaigns
  <2> QED BY <2>2, <2>3 DEF Decisions
<1>3. (\E case \in Case : Inserts(c, case, t)) \/ Attaches(c, t) \/ Passes(c, t) \/ Finishes(c, t)
        => approvals' = approvals
  BY DEF Inserts, InsertCampaign, Attaches, AttachCandidate, Passes, Finishes, Transition
<1> QED BY <1>1, <1>2, <1>3 DEF ChangeAt

-----------------------------------------------------------------------------
(* The registry *)

LEMMA FreshRefines ==
  ASSUME IInv, AllAssumptions, [Next]_vars, UNCHANGED campaignVars,
         NEW x \in Policy, RegisterInitial(x) \/ AdmitCandidate(x)
  PROVE  GovernedStep
<1>1. pol[x] = NoRecord
  BY DEF RegisterInitial, AdmitCandidate, IInv, FamilyInv
<1>2. PICK status \in {"active", "candidate"} :
        /\ pol' = [pol EXCEPT ![x] = NewRecord(status)]
        /\ status = "active" <=> RegisterInitial(x)
  BY DEF RegisterInitial, AdmitCandidate, AllAssumptions, LocalPolicyAssumption
<1>3. /\ pol'[x] = NewRecord(status) /\ pol'[x].status = status
      /\ pol'[x].promotion.camp = NoCampaign /\ pol'[x].rollback.camp = NoCampaign
      /\ \A q \in Policy : q # x => pol'[q] = pol[q]
  BY <1>2 DEF NewRecord, Unbound, IInv, TypeOK, RegistryTypeOK
<1>4. ASSUME NEW p \in Policy, NEW k \in Kinds
      PROVE  VotesFor(k, p)' = VotesFor(k, p)
  <2>1. CASE p = x
    <3>1. VotesFor(k, p) = 0
      BY <1>1, <2>1, NoVotes DEF Known
    <3>2. pol'[p][k].camp = NoCampaign
      BY <1>3, <2>1 DEF Kinds
    <3> QED BY <3>1, <3>2 DEF VotesFor
  <2>2. CASE p # x /\ ~Known(p)
    BY <1>3, <2>2 DEF VotesFor, Known
  <2>3. CASE p # x /\ Known(p)
    <3>1. pol'[p] = pol[p] /\ approvals' = approvals
      BY <1>3, <2>3 DEF campaignVars
    <3> QED BY <2>3, <3>1, VotesStay DEF Approvers
  <2> QED BY <2>1, <2>2, <2>3
<1>5. Votings("promotion")' = Votings("promotion") /\ Votings("rollback")' = Votings("rollback")
  BY <1>4 DEF Votings, Kinds
<1>6. ASSUME NEW p \in Policy, p # x
      PROVE  StageOf(p)' = StageOf(p)
  BY <1>3, <1>6 DEF StageOf
<1>7. Stage[x] = "none"
  BY <1>1, StageFacts DEF Stage
<1>8. CASE status = "active"
  <2>1. StageOf(x)' = "applied"
    BY <1>3, <1>8 DEF StageOf
  <2>2. Stage' = [Stage EXCEPT ![x] = "applied"]
    BY <1>6, <2>1 DEF Stage
  <2>3. head.active = NoPolicy /\ head'.active = x
    BY <1>2, <1>8 DEF RegisterInitial
  <2>4. Governed!Found(x)
    BY <1>5, <1>7, <2>2, <2>3 DEF Governed!Found, Stage, Votings
  <2> QED BY <2>4 DEF GovernedStep, Governed!Next
<1>9. CASE status = "candidate"
  <2>1. StageOf(x)' = "proposed"
    BY <1>3, <1>9 DEF StageOf
  <2>2. Stage' = [Stage EXCEPT ![x] = "proposed"]
    BY <1>6, <2>1 DEF Stage
  <2>3. head.active # NoPolicy /\ head.active = base[x] /\ head' = head
    BY <1>2, <1>9 DEF AdmitCandidate
  <2>4. Governed!Propose(x)
    BY <1>5, <1>7, <2>2, <2>3 DEF Governed!Propose, Stage, Votings
  <2> QED BY <2>4 DEF GovernedStep, Governed!Next
<1> QED BY <1>8, <1>9

(* A change of a known policy that binds nothing leaves the votes alone.    *)
LEMMA VotesStayOnRegistry ==
  ASSUME IInv, AllAssumptions, [Next]_vars, UNCHANGED campaignVars,
         \A p \in Policy : Known(p)' <=> Known(p),
         \A p \in Policy, k \in Kinds : Known(p) => pol'[p][k].camp = pol[p][k].camp
  PROVE  Votings("promotion")' = Votings("promotion") /\ Votings("rollback")' = Votings("rollback")
<1>1. ASSUME NEW p \in Policy, NEW k \in Kinds
      PROVE  VotesFor(k, p)' = VotesFor(k, p)
  <2>1. CASE ~Known(p)
    BY <2>1 DEF VotesFor
  <2>2. CASE Known(p)
    <3>1. approvals' = approvals /\ pol'[p][k].camp = pol[p][k].camp
      BY <2>2 DEF campaignVars
    <3> QED BY <2>2, <3>1, VotesStay DEF Approvers
  <2> QED BY <2>1, <2>2
<1> QED BY <1>1 DEF Votings, Kinds

LEMMA RecordRefines ==
  ASSUME IInv, AllAssumptions, [Next]_vars, UNCHANGED campaignVars, NEW w \in Worker, Records(w)
  PROVE  GovernedStep
<1>1. PICK case \in Case, c \in CampaignId, x \in Policy, k \in Kinds, ev \in Evidence :
        /\ case = job[w].case /\ c = job[w].c
        /\ x = case.p /\ k = case.kind /\ ev = case.ev
  BY JobFacts, CaseFacts DEF Records, HoldingPcs, SubmitPcs, IInv
<1>2. /\ RegistryTypeOK /\ x \in Trained /\ Known(x) /\ Exists(c) /\ camp[c].fp = case
      /\ GoesOn /\ CampaignsGoOn
  BY <1>1, StepFacts DEF Records, HoldingPcs, SubmitPcs, IInv, TypeOK, JobInv, Sound
<1>3. IF k = "promotion" THEN BindsPromotion(x, ev, c) ELSE BindsRollback(x, ev, c)
  BY <1>1 DEF Records
<1>4. pol[x].promotion \in Binding /\ pol[x].rollback \in Binding /\ pol[x][k] \in Binding
      /\ StatusInvAt(x)
  BY <1>2, RecordFacts DEF IInv, StatusInv
<1>5. /\ pol[x][k].camp = NoCampaign /\ head' = head /\ StageOf(x)' = StageOf(x)
      /\ pol'[x][k].camp = c
      /\ \A j \in Kinds : j # k => pol'[x][j] = pol[x][j]
      /\ \A q \in Policy : q # x => pol'[q] = pol[q]
      /\ \A q \in Policy : Known(q)' <=> Known(q)
  <2>1. CASE k = "promotion"
    <3>1. PICK status \in {"evaluated", "rejected"} :
            Writes(x, status, With(pol[x].promotion, ev, c), pol[x].rollback)
            /\ pol[x].status = "candidate" /\ head' = head
      BY <1>3, <2>1 DEF BindsPromotion
    <3>2. status \in Statuses /\ With(pol[x].promotion, ev, c) \in Binding
          /\ With(pol[x].promotion, ev, c).camp = c
      BY <1>4, BoundFields DEF Statuses
    <3>3. pol[x].promotion.camp = NoCampaign
      BY <1>2, <1>4, <3>1 DEF StatusInvAt, Coherent
    <3>4. /\ pol'[x].status = status /\ pol'[x].promotion.camp = c /\ pol'[x].rollback = pol[x].rollback
          /\ \A q \in Policy : q # x => pol'[q] = pol[q]
          /\ \A q \in Policy : Known(q)' <=> Known(q)
      BY <1>2, <1>4, <3>1, <3>2, Written
    <3>5. StageOf(x)' = StageOf(x)
      BY <3>1, <3>4 DEF StageOf
    <3> QED BY <2>1, <3>1, <3>3, <3>4, <3>5 DEF Kinds
  <2>2. CASE k = "rollback"
    <3>1. /\ Writes(x, "active", pol[x].promotion, With(pol[x].rollback, ev, c))
          /\ pol[x].rollback.ev = NoEvidence /\ pol[x].status = "active" /\ head' = head
      BY <1>3, <2>2 DEF BindsRollback
    <3>2. "active" \in Statuses /\ With(pol[x].rollback, ev, c) \in Binding
          /\ With(pol[x].rollback, ev, c).camp = c
      BY <1>4, BoundFields DEF Statuses
    <3>3. pol[x].rollback.camp = NoCampaign
      BY <1>4, <3>1 DEF StatusInvAt, Coherent
    <3>4. /\ pol'[x].status = "active" /\ pol'[x].promotion = pol[x].promotion
          /\ pol'[x].rollback.camp = c
          /\ \A q \in Policy : q # x => pol'[q] = pol[q]
          /\ \A q \in Policy : Known(q)' <=> Known(q)
      BY <1>2, <1>4, <3>1, <3>2, Written
    <3>5. StageOf(x)' = StageOf(x)
      BY <3>1, <3>4 DEF StageOf
    <3> QED BY <2>2, <3>1, <3>3, <3>4, <3>5 DEF Kinds
  <2> QED BY <2>1, <2>2 DEF Kinds
<1>6. ASSUME NEW p \in Policy, NEW j \in Kinds
      PROVE  VotesFor(j, p)' = VotesFor(j, p)
  <2>1. CASE p = x /\ j = k
    <3>1. ~IsBoundTo(c, camp[c].fp)
      BY <1>1, <1>2, <1>5 DEF IsBoundTo, AllAssumptions, LocalPolicyAssumption
    <3>2. Approvers(c) = {} /\ approvals' = approvals
      BY <1>2, <3>1 DEF IInv, ShellInv, ShellInvAt, campaignVars
    <3>3. Approvers(c)' = {}
      BY <3>2 DEF Approvers
    <3>4. VotesFor(k, x)' = 0
      <4>1. (Approvers(c) \ Prohibited(CaseOf(k, x)))' = {}
        BY <3>3
      <4> QED BY <1>5, <4>1, FS_EmptySet DEF VotesFor
    <3> QED BY <1>5, <2>1, <3>4, NoVotes
  <2>2. CASE ~Known(p)
    BY <1>5, <2>2 DEF VotesFor
  <2>3. CASE Known(p) /\ ~(p = x /\ j = k)
    <3>1. pol'[p][j].camp = pol[p][j].camp /\ approvals' = approvals
      BY <1>5, <2>3 DEF campaignVars
    <3> QED BY <2>3, <3>1, VotesStay DEF Approvers
  <2> QED BY <2>1, <2>2, <2>3
<1>7. Votings("promotion")' = Votings("promotion") /\ Votings("rollback")' = Votings("rollback")
  BY <1>6 DEF Votings, Kinds
<1>8. Stage' = Stage
  <2>1. \A p \in Policy : StageOf(p)' = StageOf(p)
    BY <1>5, StageStays
  <2> QED BY <2>1 DEF Stage
<1> QED BY <1>5, <1>7, <1>8 DEF GovernedStep

LEMMA MarkRefines ==
  ASSUME IInv, AllAssumptions, [Next]_vars, UNCHANGED campaignVars, NEW w \in Worker, Marks(w)
  PROVE  GovernedStep
<1>1. PICK x \in Policy, k \in Kinds, c \in CampaignId, a \in Actor :
        /\ x = job[w].p /\ k = job[w].k /\ c = job[w].c /\ a = job[w].a
  BY JobFacts DEF Marks, GovernPcs, IInv
<1>2. /\ RegistryTypeOK /\ x \in Trained /\ Known(x) /\ pol[x][k].camp = c
      /\ Cardinality(Approvers(c)) = 2 /\ Approvers(c) \cap EarlierHands(k, x) = {}
      /\ c # NoCampaign
  BY <1>1 DEF Marks, GovernPcs, IInv, TypeOK, JobInv, Sound, Operates, AllAssumptions,
              LocalPolicyAssumption
<1>3. IF k = "promotion" THEN AuthorizesPromotion(x, a) ELSE AuthorizesRollback(x, a)
  BY <1>1 DEF Marks
<1>4. /\ pol[x].promotion \in Binding /\ pol[x].rollback \in Binding
      /\ {"authorized", "active"} \subseteq Statuses
  BY <1>2, RecordFacts DEF Statuses
<1>5. CASE k = "promotion"
  <2>1. /\ Writes(x, "authorized", AuthorizedBy(pol[x].promotion, a), pol[x].rollback)
        /\ pol[x].status = "evaluated" /\ head' = head
    BY <1>3, <1>5 DEF AuthorizesPromotion
  <2>2. AuthorizedBy(pol[x].promotion, a) \in Binding
        /\ AuthorizedBy(pol[x].promotion, a).camp = pol[x].promotion.camp
    BY <1>4, SignedFields
  <2>3. /\ pol'[x].status = "authorized" /\ pol'[x].promotion.camp = pol[x].promotion.camp
        /\ pol'[x].rollback = pol[x].rollback
        /\ \A q \in Policy : q # x => pol'[q] = pol[q]
        /\ \A q \in Policy : Known(q)' <=> Known(q)
    BY <1>2, <1>4, <2>1, <2>2, Written
  <2>4. Votings("promotion")' = Votings("promotion") /\ Votings("rollback")' = Votings("rollback")
    <3>1. \A p \in Policy, j \in Kinds : pol'[p][j].camp = pol[p][j].camp
      BY <2>3 DEF Kinds
    <3> QED BY <2>3, <3>1, VotesStayOnRegistry
  <2>5. Stage' = [Stage EXCEPT ![x] = "approved"]
    <3>1. StageOf(x)' = "approved"
      BY <2>3 DEF StageOf
    <3>2. \A q \in Policy : q # x => StageOf(q)' = StageOf(q)
      BY <2>3, StageStays
    <3> QED BY <3>1, <3>2 DEF Stage
  <2>6. Stage[x] = "proposed" /\ Votings("promotion")[x] = 2
    BY <1>2, <1>5, <2>1, StageFacts, AuthorizedByTwo DEF Stage, Votings
  <2>7. Governed!Approve(x)
    BY <2>1, <2>4, <2>5, <2>6 DEF Governed!Approve, Stage, Votings
  <2> QED BY <2>7 DEF GovernedStep, Governed!Next
<1>6. CASE k = "rollback"
  <2>1. /\ Writes(x, "active", pol[x].promotion, AuthorizedBy(pol[x].rollback, a))
        /\ pol[x].status = "active" /\ head' = head
    BY <1>3, <1>6 DEF AuthorizesRollback
  <2>2. AuthorizedBy(pol[x].rollback, a) \in Binding
        /\ AuthorizedBy(pol[x].rollback, a).camp = pol[x].rollback.camp
    BY <1>4, SignedFields
  <2>3. /\ pol'[x].status = pol[x].status /\ pol'[x].rollback.camp = pol[x].rollback.camp
        /\ pol'[x].promotion = pol[x].promotion
        /\ \A q \in Policy : q # x => pol'[q] = pol[q]
        /\ \A q \in Policy : Known(q)' <=> Known(q)
    BY <1>2, <1>4, <2>1, <2>2, Written
  <2>4. Votings("promotion")' = Votings("promotion") /\ Votings("rollback")' = Votings("rollback")
    <3>1. \A p \in Policy, j \in Kinds : pol'[p][j].camp = pol[p][j].camp
      BY <2>3 DEF Kinds
    <3> QED BY <2>3, <3>1, VotesStayOnRegistry
  <2>5. Stage' = Stage
    <3>1. \A q \in Policy : StageOf(q)' = StageOf(q)
      BY <2>3, StageStays
    <3> QED BY <3>1 DEF Stage
  <2> QED BY <2>1, <2>4, <2>5 DEF GovernedStep
<1> QED BY <1>5, <1>6 DEF Kinds

LEMMA MoveRefines ==
  ASSUME IInv, AllAssumptions, [Next]_vars, UNCHANGED campaignVars, NEW w \in Worker, MovesHead(w)
  PROVE  GovernedStep
<1>1. PICK x \in Policy, k \in Kinds, a \in Actor : x = job[w].p /\ k = job[w].k /\ a = job[w].a
  BY JobFacts DEF MovesHead, GovernPcs, IInv
<1>2. RegistryTypeOK /\ x \in Trained /\ Known(x) /\ base[x] \in Policy /\ base[x] # x
  BY <1>1 DEF MovesHead, GovernPcs, IInv, TypeOK, JobInv, Sound, Operates, Trained, AllAssumptions,
              LocalPolicyAssumption
<1>3. IF k = "promotion" THEN Activates(x, a) ELSE RollsBack(x, a)
  BY <1>1 DEF MovesHead
<1>4. /\ pol[x].promotion \in Binding /\ pol[x].rollback \in Binding
      /\ {"superseded", "rolled_back", "active"} \subseteq Statuses
  BY <1>2, RecordFacts DEF Statuses
<1>5. CASE k = "promotion"
  <2>1. /\ Moves(x, base[x], Content("active", ExecutedBy(pol[x].promotion, a), pol[x].rollback),
                 "superseded")
        /\ Known(base[x]) /\ pol[x].status = "authorized" /\ pol[base[x]].status = "active"
        /\ head.active = base[x] /\ head'.active = x
    BY <1>3, <1>5 DEF Activates
  <2>2. ExecutedBy(pol[x].promotion, a) \in Binding
        /\ ExecutedBy(pol[x].promotion, a).camp = pol[x].promotion.camp
    BY <1>4, SignedFields
  <2>3. /\ pol'[x].status = "active" /\ pol'[x].promotion.camp = pol[x].promotion.camp
        /\ pol'[x].rollback = pol[x].rollback /\ pol'[base[x]].status = "superseded"
        /\ \A q \in Policy : q # x => pol'[q].promotion = pol[q].promotion
                                      /\ pol'[q].rollback = pol[q].rollback
        /\ \A q \in Policy : q # x /\ q # base[x] => pol'[q] = pol[q]
        /\ \A q \in Policy : Known(q)' <=> Known(q)
    BY <1>2, <1>4, <2>1, <2>2, Moved
  <2>4. Votings("promotion")' = Votings("promotion") /\ Votings("rollback")' = Votings("rollback")
    <3>1. \A p \in Policy, j \in Kinds : pol'[p][j].camp = pol[p][j].camp
      BY <2>3 DEF Kinds
    <3> QED BY <2>3, <3>1, VotesStayOnRegistry
  <2>5. Stage' = [Stage EXCEPT ![x] = "applied"]
    <3>1. StageOf(x)' = "applied" /\ StageOf(base[x])' = "applied"
      BY <2>3 DEF StageOf
    <3>2. StageOf(base[x]) = "applied"
      BY <1>2, <2>1, StageFacts
    <3>3. \A q \in Policy : q # x /\ q # base[x] => StageOf(q)' = StageOf(q)
      BY <2>3, StageStays
    <3> QED BY <3>1, <3>2, <3>3 DEF Stage
  <2>6. Stage[x] = "approved"
    BY <2>1, StageFacts DEF Stage
  <2>7. Governed!Apply(x)
    BY <2>1, <2>4, <2>5, <2>6 DEF Governed!Apply, Stage, Votings
  <2> QED BY <2>7 DEF GovernedStep, Governed!Next
<1>6. CASE k = "rollback"
  <2>1. /\ Moves(x, base[x], Content("rolled_back", pol[x].promotion, ExecutedBy(pol[x].rollback, a)),
                 "active")
        /\ Known(base[x]) /\ pol[x].status = "active" /\ pol[base[x]].status = "superseded"
        /\ head.active = x /\ head'.active = base[x] /\ pol[x].rollback.auth # Nobody
    BY <1>3, <1>6 DEF RollsBack, MayRollBack
  <2>2. ExecutedBy(pol[x].rollback, a) \in Binding
        /\ ExecutedBy(pol[x].rollback, a).camp = pol[x].rollback.camp
    BY <1>4, SignedFields
  <2>3. /\ pol'[x].status = "rolled_back" /\ pol'[x].promotion = pol[x].promotion
        /\ pol'[x].rollback.camp = pol[x].rollback.camp /\ pol'[base[x]].status = "active"
        /\ \A q \in Policy : q # x => pol'[q].promotion = pol[q].promotion
                                      /\ pol'[q].rollback = pol[q].rollback
        /\ \A q \in Policy : q # x /\ q # base[x] => pol'[q] = pol[q]
        /\ \A q \in Policy : Known(q)' <=> Known(q)
    BY <1>2, <1>4, <2>1, <2>2, Moved
  <2>4. Votings("promotion")' = Votings("promotion") /\ Votings("rollback")' = Votings("rollback")
    <3>1. \A p \in Policy, j \in Kinds : pol'[p][j].camp = pol[p][j].camp
      BY <2>3 DEF Kinds
    <3> QED BY <2>3, <3>1, VotesStayOnRegistry
  <2>5. Stage' = [Stage EXCEPT ![x] = "undone"]
    <3>1. StageOf(x)' = "undone" /\ StageOf(base[x])' = "applied"
      BY <2>3 DEF StageOf
    <3>2. StageOf(base[x]) = "applied"
      BY <1>2, <2>1, StageFacts
    <3>3. \A q \in Policy : q # x /\ q # base[x] => StageOf(q)' = StageOf(q)
      BY <2>3, StageStays
    <3> QED BY <3>1, <3>2, <3>3 DEF Stage
  <2>6. Stage[x] = "applied" /\ Votings("rollback")[x] = 2
    <3>1. BindingInvAt("rollback", x) /\ StatusInvAt(x)
      BY <1>2 DEF IInv, BindingInv, StatusInv, Kinds
    <3>2. pol[x].rollback.camp # NoCampaign /\ pol[x].rollback.camp \in CampaignId
      BY <1>4, <2>1, <3>1 DEF StatusInvAt, Coherent, Binding
    <3>3. VotesFor("rollback", x) = 2
      BY <1>2, <2>1, <3>1, <3>2, AuthorizedByTwo DEF BindingInvAt, Kinds
    <3> QED BY <2>1, <3>3, StageFacts DEF Stage, Votings
  <2>7. Governed!Undo(x)
    BY <1>2, <2>1, <2>4, <2>5, <2>6 DEF Governed!Undo, Stage, Votings, Trained
  <2> QED BY <2>7 DEF GovernedStep, Governed!Next
<1> QED BY <1>5, <1>6 DEF Kinds

-----------------------------------------------------------------------------

LEMMA StepRefines ==
  ASSUME IInv, [Next]_vars
  PROVE  GovernedStep
<1>1. AllAssumptions
  BY Assumed
<1>2. CASE UNCHANGED registryVars
  <2>1. CASE UNCHANGED campaignVars
    BY <1>1, <1>2, <2>1, QuietCampaigns DEF campaignVars, Approvers
  <2>2. CASE \E c \in CampaignId : Change(c)
    BY <1>1, <1>2, <2>2, CampaignsRefine DEF Change
  <2> QED BY <1>1, <2>1, <2>2, StepOnCampaigns
<1>3. CASE UNCHANGED campaignVars /\ RegistryChange
  BY <1>1, <1>3, FreshRefines, RecordRefines, MarkRefines, MoveRefines DEF RegistryChange, Fresh
<1> QED BY <1>1, <1>2, <1>3, StepOnRegistry

LEMMA StartRefines ==
  ASSUME Init
  PROVE  Governed!Init
<1>1. \A p \in Policy : pol[p] = NoRecord /\ StageOf(p) = "none"
  BY StageFacts DEF Init, RegistryInit
<1>2. \A p \in Policy, k \in Kinds : VotesFor(k, p) = 0
  BY <1>1, NoVotes DEF Known
<1> QED BY <1>1, <1>2 DEF Governed!Init, Kinds, Init, RegistryInit

(* A candidate is active only after its promotion, and undone only after    *)
(* its rollback, was approved by two people outside its team, one change at *)
(* a time and along the line of base policies.                              *)
THEOREM GovernedChangeIsImplemented == Spec => ImplementsGovernedChange
<1>1. Init => Governed!Init
  BY StartRefines
<1>2. IInv /\ [Next]_vars => [Governed!Next]_(Governed!vars)
  BY StepRefines DEF GovernedStep, Governed!vars, Stage, Votings
<1> QED BY <1>1, <1>2, InvariantHolds, PTL DEF Spec, ImplementsGovernedChange, Governed!Spec

-----------------------------------------------------------------------------
(***************************************************************************)
(* The local training (LocalTraining): what a small policy does in every   *)
(* state, concluded from a few held-out tasks, and the one process of many *)
(* that may train, store and pack.                                         *)
(***************************************************************************)
CONSTANTS Process, Task, kindOf, Manifests, Learnable, None
VARIABLES learned, manifest, row, events, package, running, bundle, stage

Lab == INSTANCE LocalTraining WITH job <- stage

(* The finite sets of the evaluator are those of this module.              *)
LEMMA SameTrainingSets ==
  ASSUME NEW S
  PROVE  /\ Lab!Cardinality(S) = Cardinality(S)
         /\ Lab!IsFiniteSet(S) <=> IsFiniteSet(S)
BY DEF Lab!Cardinality, Lab!IsFiniteSet, Cardinality, IsFiniteSet

(* What a policy does with a document that it has not inspected, and with  *)
(* one that it has.                                                        *)
First(policy, t) == Lab!Greedy(policy, kindOf[t], FALSE)
Second(policy, t) == Lab!Greedy(policy, kindOf[t], TRUE)

(* What a first action makes of a document, and a second if the first      *)
(* inspected it.                                                           *)
Once(t, a) ==
  [kind |-> kindOf[t], inspected |-> a = "inspect", done |-> a # "inspect", success |-> FALSE,
   unsafe |-> IF a = "write" THEN 1 ELSE 0]
Twice(t, a, i, h) ==
  [kind |-> kindOf[t], inspected |-> TRUE, done |-> a # "inspect" \/ i >= h,
   success |-> a = Lab!Fitting(kindOf[t]),
   unsafe |-> IF a = "write" /\ kindOf[t] = "protected" THEN 1 ELSE 0]
(* The state of the environment after some steps of a policy.              *)
After(policy, t, i, horizon) ==
  LET first == First(policy, t)  second == Second(policy, t)
  IN IF i = 0 THEN Lab!Reset(t)
     ELSE IF first # "inspect" \/ i = 1 THEN Once(t, first)
     ELSE Twice(t, second, i, horizon)
Continued(policy, s, i, horizon) ==
  IF s.done THEN s ELSE Lab!Step(s, Lab!Greedy(policy, s.kind, s.inspected), i, horizon)

(* environment.py, step: the first one.                                    *)
LEMMA FirstStep ==
  ASSUME NEW t, NEW h \in 2..8, NEW a
  PROVE  Lab!Step(Lab!Reset(t), a, 1, h) = Once(t, a)
<1> DEFINE s == Lab!Reset(t)
<1>1. s.kind = kindOf[t] /\ s.unsafe = 0 /\ s.inspected = FALSE
  BY DEF Lab!Reset
<1>2. (s.inspected \/ a = "inspect") = (a = "inspect")
  BY <1>1
<1>3. (a # "inspect" \/ 1 >= h) = (a # "inspect")
  OBVIOUS
<1>4. (s.inspected /\ a = Lab!Fitting(s.kind)) = FALSE
  BY <1>1
<1>5. s.unsafe + (IF Lab!IsUnsafe(s, a) THEN 1 ELSE 0) = IF a = "write" THEN 1 ELSE 0
  <2>1. ~s.inspected
    BY <1>1
  <2> QED BY <1>1, <2>1 DEF Lab!IsUnsafe
<1> HIDE DEF s
<1>6. Lab!Step(s, a, 1, h) = Once(t, a)
  BY <1>1, <1>2, <1>3, <1>4, <1>5 DEF Lab!Step, Once
<1> QED BY <1>6 DEF s

(* A later one: the document is inspected and nothing bad has happened yet. *)
LEMMA NextStep ==
  ASSUME NEW t, kindOf[t] \in Lab!Kind, NEW h \in 2..8, NEW i \in 2..h, NEW a, NEW s,
         s.kind = kindOf[t], s.inspected = TRUE, s.unsafe = 0
  PROVE  Lab!Step(s, a, i, h) = Twice(t, a, i, h)
<1>1. (s.inspected \/ a = "inspect") = TRUE
  BY Zenon
<1>2. (s.inspected /\ a = Lab!Fitting(s.kind)) = (a = Lab!Fitting(kindOf[t]))
  BY Zenon
<1>3. s.unsafe + (IF Lab!IsUnsafe(s, a) THEN 1 ELSE 0)
      = IF a = "write" /\ kindOf[t] = "protected" THEN 1 ELSE 0
  <2>1. Lab!IsUnsafe(s, a) <=> a = "write" /\ kindOf[t] = "protected"
    BY Zenon DEF Lab!IsUnsafe
  <2> QED BY <2>1
<1> QED BY <1>1, <1>2, <1>3 DEF Lab!Step, Twice

(* These are the states of the loop: a document that is done stays as it   *)
(* is.                                                                     *)
LEMMA StatesFollow ==
  ASSUME NEW policy, NEW t, kindOf[t] \in Lab!Kind, NEW h \in 2..8, NEW i \in 1..h
  PROVE  After(policy, t, i, h) = Continued(policy, After(policy, t, i - 1, h), i, h)
<1> DEFINE first == First(policy, t)
           second == Second(policy, t)
           state(n) == After(policy, t, n, h)
<1>1. ASSUME NEW s, s.kind = kindOf[t]
      PROVE  /\ s.inspected = TRUE => Lab!Greedy(policy, s.kind, s.inspected) = second
             /\ s.inspected = FALSE => Lab!Greedy(policy, s.kind, s.inspected) = first
  BY <1>1, Zenon DEF First, Second
<1>2. CASE i = 1
  <2>1. state(1) = Once(t, first) /\ state(0) = Lab!Reset(t)
    BY DEF After
  <2>2. Lab!Reset(t).kind = kindOf[t] /\ Lab!Reset(t).inspected = FALSE /\ ~Lab!Reset(t).done
    BY DEF Lab!Reset
  <2>3. Continued(policy, Lab!Reset(t), 1, h) = Once(t, first)
    BY <1>1, <2>2, FirstStep DEF Continued
  <2> QED BY <1>2, <2>1, <2>3
<1>3. CASE i # 1 /\ first # "inspect"
  <2>1. state(i) = Once(t, first) /\ state(i - 1) = Once(t, first)
    BY <1>3 DEF After
  <2>2. Once(t, first).done
    BY <1>3 DEF Once
  <2> QED BY <2>1, <2>2 DEF Continued
<1>4. CASE i # 1 /\ first = "inspect"
  <2>1. state(i) = Twice(t, second, i, h)
    BY <1>4 DEF After
  <2>2. PICK s : s = state(i - 1)
    OBVIOUS
  <2>3. CASE i = 2
    <3>1. s = Once(t, first)
      BY <1>4, <2>2, <2>3 DEF After
    <3>2. s.kind = kindOf[t] /\ s.inspected = TRUE
      BY <1>4, <3>1 DEF Once
    <3>3. ~s.done
      BY <1>4, <3>1 DEF Once
    <3>4. s.unsafe = 0
      BY <1>4, <3>1 DEF Once
    <3>5. i \in 2..h
      BY <2>3
    <3>6. Continued(policy, s, i, h) = Twice(t, second, i, h)
      BY <1>1, <3>2, <3>3, <3>4, <3>5, NextStep DEF Continued
    <3> QED BY <2>1, <2>2, <3>6
  <2>4. CASE i # 2
    <3>1. s = Twice(t, second, i - 1, h)
      BY <1>4, <2>2, <2>4 DEF After
    <3>2. CASE second # "inspect"
      <4>1. s = Twice(t, second, i, h)
        BY <3>1, <3>2 DEF Twice
      <4>2. s.done
        BY <3>1, <3>2 DEF Twice
      <4> QED BY <2>1, <2>2, <4>1, <4>2 DEF Continued
    <3>3. CASE second = "inspect"
      <4>1. ~(i - 1 >= h) /\ i \in 2..h
        BY <1>4
      <4>2. s.kind = kindOf[t] /\ s.inspected = TRUE
        BY <3>1 DEF Twice
      <4>3. ~s.done
        BY <3>1, <3>3, <4>1 DEF Twice
      <4>4. s.unsafe = 0
        BY <3>1, <3>3 DEF Twice
      <4>5. Continued(policy, s, i, h) = Twice(t, second, i, h)
        BY <1>1, <4>1, <4>2, <4>3, <4>4, NextStep DEF Continued
      <4> QED BY <2>1, <2>2, <4>5
    <3> QED BY <3>2, <3>3
  <2> QED BY <2>3, <2>4
<1> QED BY <1>2, <1>3, <1>4

(* So the loop ends in the last of them. The recursion over the steps is   *)
(* solved by these states, and a function that solves it has no first step *)
(* in which it is another.                                                 *)
LEMMA EpisodeEnds ==
  ASSUME NEW policy, NEW t, kindOf[t] \in Lab!Kind, NEW h \in 2..8
  PROVE  Lab!Episode(policy, t, h) = After(policy, t, h, h)
<1> DEFINE Def(f) == [i \in 0..h |->
             IF i = 0 THEN Lab!Reset(t)
             ELSE LET s == f[i - 1]
                  IN IF s.done THEN s ELSE Lab!Step(s, Lab!Greedy(policy, s.kind, s.inspected), i, h)]
           after == CHOOSE f : f = Def(f)
           closed == [i \in 0..h |-> After(policy, t, i, h)]
<1>1. closed = Def(closed)
  <2> DEFINE next(i) == LET s == closed[i - 1]
                        IN IF s.done THEN s ELSE Lab!Step(s, Lab!Greedy(policy, s.kind, s.inspected), i, h)
  <2>1. ASSUME NEW i \in 1..h PROVE closed[i] = next(i)
    <3>1. closed[i] = After(policy, t, i, h) /\ closed[i - 1] = After(policy, t, i - 1, h)
      OBVIOUS
    <3> QED BY <3>1, StatesFollow DEF Continued
  <2>2. closed[0] = Lab!Reset(t)
    BY DEF After
  <2> HIDE DEF next
  <2>3. \A i \in 0..h : closed[i] = IF i = 0 THEN Lab!Reset(t) ELSE next(i)
    BY <2>1, <2>2
  <2>4. closed = [i \in 0..h |-> IF i = 0 THEN Lab!Reset(t) ELSE next(i)]
    <3>1. closed = [i \in 0..h |-> closed[i]]
      OBVIOUS
    <3> HIDE DEF closed
    <3> QED BY <2>3, <3>1
  <2> QED BY <2>4 DEF next
<1>2. after = Def(after)
  <2> HIDE DEF closed, Def
  <2> QED BY <1>1
<1> HIDE DEF after
<1>3. after[0] = Lab!Reset(t) /\ closed[0] = Lab!Reset(t)
  BY <1>2 DEF After
<1>4. ASSUME NEW i \in 1..h, after[i - 1] = closed[i - 1] PROVE after[i] = closed[i]
  <2>1. after[i] = Def(after)[i] /\ closed[i] = Def(closed)[i]
    BY <1>1, <1>2
  <2>2. Def(after)[i] = LET s == after[i - 1]
                        IN IF s.done THEN s ELSE Lab!Step(s, Lab!Greedy(policy, s.kind, s.inspected), i, h)
    OBVIOUS
  <2>3. Def(closed)[i] = LET s == closed[i - 1]
                         IN IF s.done THEN s ELSE Lab!Step(s, Lab!Greedy(policy, s.kind, s.inspected), i, h)
    <3> HIDE DEF closed
    <3> QED OBVIOUS
  <2> HIDE DEF Def, closed
  <2> QED BY <1>4, <2>1, <2>2, <2>3
<1>5. after[h] = closed[h]
  <2> HIDE DEF closed, Def
  <2> DEFINE S == {i \in 0..h : after[i] # closed[i]}
  <2> SUFFICES ASSUME S # {} PROVE FALSE
    OBVIOUS
  <2>1. PICK n \in S : \A m \in S : n <= m
    BY LeastNatural
  <2>2. n \in 1..h /\ n - 1 \in 0..h /\ n - 1 \notin S
    BY <1>3, <2>1
  <2> QED BY <1>4, <2>2
<1>6. Lab!Episode(policy, t, h) = after[h]
  BY DEF Lab!Episode, after
<1> QED BY <1>5, <1>6

(* A policy solves a kind if it inspects and then does what fits; it spares *)
(* a kind if it neither writes what it did not inspect nor a protected     *)
(* document.                                                               *)
Solves(policy, k) ==
  Lab!Greedy(policy, k, FALSE) = "inspect" /\ Lab!Greedy(policy, k, TRUE) = Lab!Fitting(k)
Spares(policy, k) ==
  /\ Lab!Greedy(policy, k, FALSE) # "write"
  /\ ~(Lab!Greedy(policy, k, FALSE) = "inspect" /\ Lab!Greedy(policy, k, TRUE) = "write"
       /\ k = "protected")

(* Success and harm of an episode depend on the kind of the document only. *)
LEMMA EpisodeResult ==
  ASSUME NEW policy, NEW t, kindOf[t] \in Lab!Kind, NEW h \in 2..8
  PROVE  /\ Lab!Episode(policy, t, h).success <=> Solves(policy, kindOf[t])
         /\ Lab!Episode(policy, t, h).unsafe = 0 <=> Spares(policy, kindOf[t])
<1> DEFINE first == First(policy, t)
           second == Second(policy, t)
<1>1. PICK s : s = Lab!Episode(policy, t, h)
  OBVIOUS
<1>2. CASE first # "inspect"
  <2>1. s = Once(t, first)
    BY <1>1, <1>2, EpisodeEnds DEF After
  <2> HIDE DEF first
  <2>2. ~s.success
    BY <2>1 DEF Once
  <2>3. s.unsafe = 0 <=> first # "write"
    BY <2>1 DEF Once
  <2> QED BY <1>1, <1>2, <2>2, <2>3, Zenon DEF first, First, Solves, Spares
<1>3. CASE first = "inspect"
  <2>1. s = Twice(t, second, h, h)
    BY <1>1, <1>3, EpisodeEnds DEF After
  <2>2. first # "write"
    BY <1>3
  <2> HIDE DEF first, second
  <2>3. s.success <=> second = Lab!Fitting(kindOf[t])
    BY <2>1 DEF Twice
  <2>4. s.unsafe = 0 <=> ~(second = "write" /\ kindOf[t] = "protected")
    BY <2>1 DEF Twice
  <2> QED BY <1>1, <1>3, <2>2, <2>3, <2>4, Zenon
             DEF first, second, First, Second, Solves, Spares
<1> QED BY <1>2, <1>3

(* The held-out tasks have all kinds, and few checkpoints are retained.    *)
LEMMA ManifestFacts ==
  ASSUME Lab!TrainingAssumption, NEW m \in Manifests
  PROVE  /\ m.horizon \in 2..8 /\ m.heldOut \subseteq Task /\ IsFiniteSet(m.heldOut)
         /\ \A t \in Task : kindOf[t] \in Lab!Kind
         /\ \A k \in Lab!Kind : \E t \in m.heldOut : kindOf[t] = k
         /\ Lab!Retained(m) \subseteq Nat \ {0} /\ IsFiniteSet(Lab!Retained(m))
<1>1. /\ m.horizon \in 2..8 /\ m.heldOut \subseteq Task /\ Lab!CoversKinds(m.heldOut)
      /\ m.iterations \in Nat /\ IsFiniteSet(Task) /\ kindOf \in [Task -> Lab!Kind]
  BY SameTrainingSets DEF Lab!TrainingAssumption
<1>2. IsFiniteSet(m.heldOut)
  BY <1>1, FS_Subset
<1>3. \A k \in Lab!Kind : \E t \in m.heldOut : kindOf[t] = k
  BY <1>1 DEF Lab!CoversKinds
<1>4. Lab!Retained(m) \subseteq 1..m.iterations
  BY DEF Lab!Retained
<1>5. IsFiniteSet(Lab!Retained(m))
  <2>1. IsFiniteSet(1..m.iterations)
    BY <1>1, FS_Interval
  <2> QED BY <1>4, <2>1, FS_Subset
<1>6. Lab!Retained(m) \subseteq Nat \ {0}
  BY <1>1, <1>4
<1> QED BY <1>1, <1>2, <1>3, <1>5, <1>6

(* evaluation.py: what the report says of a checkpoint is so of its policy. *)
LEMMA ReportSays ==
  ASSUME Lab!TrainingAssumption, NEW m \in Manifests, NEW i
  PROVE  /\ Lab!Solved(i, m) = {t \in m.heldOut : Solves(Lab!PolicyAt(i), kindOf[t])}
         /\ Lab!NeverUnsafe(i, m) <=> \A k \in Lab!Kind : Spares(Lab!PolicyAt(i), k)
         /\ \A t \in Task : Lab!Episode(Lab!PolicyAt(i), t, m.horizon).success
                              <=> Solves(Lab!PolicyAt(i), kindOf[t])
         /\ \A t \in Task : Lab!Episode(Lab!PolicyAt(i), t, m.horizon).unsafe = 0
                              <=> Spares(Lab!PolicyAt(i), kindOf[t])
<1>1. ASSUME NEW t \in Task
      PROVE  /\ Lab!Episode(Lab!PolicyAt(i), t, m.horizon).success <=> Solves(Lab!PolicyAt(i), kindOf[t])
             /\ Lab!Episode(Lab!PolicyAt(i), t, m.horizon).unsafe = 0 <=> Spares(Lab!PolicyAt(i), kindOf[t])
  BY ManifestFacts, EpisodeResult
<1>2. Lab!Solved(i, m) = {t \in m.heldOut : Solves(Lab!PolicyAt(i), kindOf[t])}
  BY <1>1, ManifestFacts, Zenon DEF Lab!Solved
<1>3. Lab!NeverUnsafe(i, m) <=> \A k \in Lab!Kind : Spares(Lab!PolicyAt(i), k)
  <2>1. Lab!NeverUnsafe(i, m) <=> \A t \in m.heldOut : Spares(Lab!PolicyAt(i), kindOf[t])
    BY <1>1, ManifestFacts, Zenon DEF Lab!NeverUnsafe
  <2> QED BY <2>1, ManifestFacts
<1> QED BY <1>1, <1>2, <1>3

(* select_checkpoint: the best score among the candidates, and the earliest *)
(* that has it.                                                            *)
LEMMA SelectedIsBest ==
  ASSUME Lab!TrainingAssumption, NEW m \in Manifests, Lab!Candidates(m) # {}
  PROVE  /\ Lab!Selected(m) \in Lab!Candidates(m)
         /\ \A i \in Lab!Candidates(m) :
              /\ Lab!Cardinality(Lab!Solved(i, m)) <=
                 Lab!Cardinality(Lab!Solved(Lab!Selected(m), m))
              /\ i < Lab!Selected(m) =>
                   Lab!Cardinality(Lab!Solved(i, m)) # Lab!Cardinality(Lab!Solved(Lab!Selected(m), m))
<1> DEFINE D == Lab!Candidates(m)
           u == [i \in D |-> Lab!Cardinality(Lab!Solved(i, m))]
           scores == {Lab!Cardinality(Lab!Solved(i, m)) : i \in D}
           best == Lab!Max(scores)
           A == {i \in D : Lab!Cardinality(Lab!Solved(i, m)) = best}
<1>1. D \subseteq Nat /\ IsFiniteSet(D)
  BY ManifestFacts, FS_Subset DEF Lab!Candidates
<1>2. \A i \in D : u[i] \in Nat
  BY ManifestFacts, Counts, SameTrainingSets DEF Lab!Solved
<1>3. PICK j \in D : \A i \in D : u[i] <= u[j]
  <2> HIDE DEF D, u
  <2> QED BY <1>1, <1>2, GreatestValue DEF D
<1>4. \A i \in D : u[i] = Lab!Cardinality(Lab!Solved(i, m))
  OBVIOUS
<1> HIDE DEF u
<1>5. \E x \in scores : \A y \in scores : x >= y
  <2>1. u[j] \in scores /\ \A y \in scores : u[j] >= y
    BY <1>2, <1>3, <1>4
  <2> QED BY <2>1
<1> HIDE DEF scores
<1>6. best \in scores /\ \A y \in scores : best >= y
  BY <1>5 DEF Lab!Max
<1> HIDE DEF best
<1>7. A # {} /\ A \subseteq Nat
  BY <1>1, <1>6 DEF scores
<1>8. PICK n \in A : \A i \in A : n <= i
  <2> HIDE DEF A
  <2> QED BY <1>7, LeastNatural
<1> DEFINE chosen == Lab!Min(A)
<1>9. chosen \in A /\ \A i \in A : chosen <= i
  <2> HIDE DEF A
  <2> QED BY <1>8 DEF Lab!Min
<1>10. Lab!Selected(m) = chosen
  BY DEF Lab!Selected, best, scores
<1> HIDE DEF chosen
<1>11. \A i \in D : Lab!Cardinality(Lab!Solved(i, m)) <= best
  <2>1. \A i \in D : Lab!Cardinality(Lab!Solved(i, m)) \in scores
        /\ Lab!Cardinality(Lab!Solved(i, m)) \in Nat
    BY <1>2, <1>4 DEF scores
  <2>2. best \in Nat
    BY <1>6, <2>1 DEF scores
  <2> QED BY <1>6, <2>1, <2>2
<1>12. chosen \in Nat /\ \A i \in D : i \in Nat
  BY <1>1, <1>9
<1> QED BY <1>9, <1>10, <1>11, <1>12

(* What is selected does no harm; an earlier checkpoint that does none     *)
(* either fails on some kind that it solves.                               *)
LEMMA SelectionIsJust ==
  ASSUME Lab!TrainingAssumption, NEW m \in Manifests, Lab!Candidates(m) # {}
  PROVE  LET chosen == Lab!Selected(m)
         IN /\ \A k \in Lab!Kind : Spares(Lab!PolicyAt(chosen), k)
            /\ \A i \in Lab!Retained(m) :
                 /\ i < chosen
                 /\ \A k \in Lab!Kind : Spares(Lab!PolicyAt(i), k)
                 => \E k \in Lab!Kind : Solves(Lab!PolicyAt(chosen), k)
                 /\ ~Solves(Lab!PolicyAt(i), k)
<1> DEFINE chosen == Lab!Selected(m)
           score(i) == Lab!Cardinality(Lab!Solved(i, m))
<1>1. /\ chosen \in Lab!Candidates(m)
      /\ \A i \in Lab!Candidates(m) : score(i) <= score(chosen)
                                  /\ (i < chosen => score(i) # score(chosen))
  BY SelectedIsBest
<1>2. Lab!Eligible(chosen, m)
  BY <1>1 DEF Lab!Candidates
<1>3. Lab!NeverUnsafe(chosen, m) /\ score(chosen) > score(0)
      /\ Lab!Solved(0, m) \subseteq Lab!Solved(chosen, m)
  BY <1>2 DEF Lab!Eligible
<1> HIDE DEF chosen
<1>4. ASSUME NEW i \in Lab!Retained(m), i < chosen, \A k \in Lab!Kind : Spares(Lab!PolicyAt(i), k),
             ~\E k \in Lab!Kind : Solves(Lab!PolicyAt(chosen), k) /\ ~Solves(Lab!PolicyAt(i), k)
      PROVE  FALSE
  <2>1. Lab!NeverUnsafe(i, m)
    BY <1>4, ReportSays
  <2>2. Lab!Solved(chosen, m) \subseteq Lab!Solved(i, m)
    BY <1>4, ReportSays, ManifestFacts
  <2>3. Lab!Solved(i, m) \in SUBSET m.heldOut /\ Lab!Solved(0, m) \in SUBSET m.heldOut
    BY DEF Lab!Solved
  <2>4. score(chosen) <= score(i) /\ score(i) \in Nat /\ score(chosen) \in Nat
    BY <2>2, <2>3, ManifestFacts, Counts, SameTrainingSets
  <2>5. score(0) \in Nat
    BY <2>3, ManifestFacts, Counts, SameTrainingSets
  <2>6. Lab!Eligible(i, m)
    BY <1>3, <2>1, <2>2, <2>4, <2>5 DEF Lab!Eligible
  <2>7. i \in Lab!Candidates(m)
    BY <2>6 DEF Lab!Candidates
  <2> HIDE DEF score
  <2> QED BY <1>1, <1>4, <2>4, <2>7
<1>5. \A k \in Lab!Kind : Spares(Lab!PolicyAt(chosen), k)
  BY <1>3, ReportSays
<1> QED BY <1>4, <1>5 DEF chosen

(* Between the registration of the row and the end of its package.         *)
Working == {"train", "evaluate", "select", "pack", "packed"}
Works(p) == stage[p] \in Working
Before(pc) ==
  CASE pc = "train" -> {}
    [] pc = "evaluate" -> {"training"}
    [] pc = "select" -> {"training", "reports"}
    [] OTHER -> Lab!Columns

(* The row belongs to one of the manifests.                                *)
RowInv ==
  IF row = None THEN package = None
  ELSE row.manifest \in Manifests /\ row = [manifest |-> row.manifest, columns |-> row.columns]
(* One process works at most, it has the manifest of the row, and the row  *)
(* has the columns that it has stored.                                     *)
WorkInv ==
  /\ manifest \in [Process -> Manifests] /\ DOMAIN stage = Process
  /\ \A p \in Process : Works(p) =>
       /\ row # None /\ row.manifest = manifest[p] /\ row.columns = Before(stage[p])
       /\ \A q \in Process : Works(q) => q = p
       /\ package # None => stage[p] = "packed"
  /\ \A p \in Process : stage[p] # "idle" => running
  /\ row # None => running
(* The files are those of the row: a package is only written when the row  *)
(* is complete, and nobody changes either afterwards.                      *)
FileInv ==
  /\ package # None =>
       /\ row # None /\ row.columns = Lab!Columns
       /\ package.manifest = row.manifest /\ package.events = events
  /\ bundle # None => bundle = package
(* There was something to select, and what was packed is what was selected. *)
ChoiceInv ==
  \A m \in Manifests : row # None /\ row.manifest = m =>
    /\ "decision" \in row.columns => Lab!Candidates(m) # {}
    /\ package # None => package.selected = Lab!Selected(m)
       /\ Lab!ReachesTarget(Lab!Selected(m), m)
TrainInv == RowInv /\ WorkInv /\ FileInv /\ ChoiceInv

(* Training is deterministic: what may be selected stays the same.         *)
LEMMA LearnedStays ==
  ASSUME learned' = learned, NEW m
  PROVE  /\ Lab!Candidates(m)' = Lab!Candidates(m) /\ Lab!Selected(m)' = Lab!Selected(m)
         /\ \A i : Lab!ReachesTarget(i, m)' <=> Lab!ReachesTarget(i, m)
<1>1. \A i : Lab!PolicyAt(i)' = Lab!PolicyAt(i)
  BY DEF Lab!PolicyAt
<1>2. \A i : Lab!Solved(i, m)' = Lab!Solved(i, m)
  BY <1>1 DEF Lab!Solved
<1>3. \A i : Lab!NeverUnsafe(i, m)' <=> Lab!NeverUnsafe(i, m)
  BY <1>1 DEF Lab!NeverUnsafe
<1>4. \A i : Lab!Eligible(i, m)' <=> Lab!Eligible(i, m)
  BY <1>2, <1>3 DEF Lab!Eligible
<1>5. Lab!Candidates(m)' = Lab!Candidates(m)
  BY <1>4 DEF Lab!Candidates
<1>6. Lab!Selected(m)' = Lab!Selected(m)
  <2> DEFINE scores == {Lab!Cardinality(Lab!Solved(i, m)) : i \in Lab!Candidates(m)}
             best == Lab!Max(scores)
             A == {i \in Lab!Candidates(m) : Lab!Cardinality(Lab!Solved(i, m)) = best}
  <2>1. scores' = scores
    BY <1>2, <1>5
  <2> HIDE DEF scores
  <2>2. best' = best
    BY <2>1
  <2> HIDE DEF best
  <2>3. A' = A
    BY <1>2, <1>5, <2>2
  <2>4. Lab!Selected(m) = Lab!Min(A) /\ Lab!Selected(m)' = Lab!Min(A)'
    BY DEF Lab!Selected, best, scores
  <2> HIDE DEF A
  <2>5. Lab!Min(A)' = Lab!Min(A)
    BY <2>3
  <2> QED BY <2>4, <2>5
<1>7. \A i : Lab!ReachesTarget(i, m)' <=> Lab!ReachesTarget(i, m)
  BY <1>2, <1>3 DEF Lab!ReachesTarget
<1> QED BY <1>5, <1>6, <1>7

(* One process moves.                                                      *)
LEMMA JobsMove ==
  ASSUME WorkInv, NEW p \in Process, NEW pc, Lab!Go(p, pc)
  PROVE  /\ DOMAIN stage' = Process /\ stage'[p] = pc
         /\ \A q \in Process : q # p => stage'[q] = stage[q]
         /\ \A q \in Process : q # p => (Works(q)' <=> Works(q))
         /\ Works(p)' <=> pc \in Working
BY DEF Lab!Go, WorkInv, Works

(* A process that only leaves, or goes where it holds nothing, changes     *)
(* nothing of this.                                                        *)
LEMMA NothingIsStored ==
  ASSUME TrainInv, NEW p \in Process, NEW pc, Lab!Go(p, pc), pc \notin Working,
         UNCHANGED <<learned, manifest, row, events, package>>,
         pc # "idle" => running', running => running', bundle' = bundle \/ bundle' = package
  PROVE  TrainInv'
<1>1. /\ DOMAIN stage' = Process /\ stage'[p] = pc
      /\ \A q \in Process : q # p => stage'[q] = stage[q]
      /\ \A q \in Process : Works(q)' => Works(q) /\ q # p
  BY JobsMove DEF TrainInv
<1>2. RowInv'
  BY DEF TrainInv, RowInv
<1>3. WorkInv'
  BY <1>1 DEF TrainInv, WorkInv
<1>4. FileInv'
  BY DEF TrainInv, FileInv
<1>5. ChoiceInv'
  BY LearnedStays DEF TrainInv, ChoiceInv
<1> QED BY <1>2, <1>3, <1>4, <1>5 DEF TrainInv

(* The one that works stores the next stage and goes on.                   *)
LEMMA AStageIsStored ==
  ASSUME Lab!TrainingAssumption, TrainInv, NEW p \in Process, NEW pc, Lab!Go(p, pc),
         NEW column,
         \/ stage[p] = "train" /\ pc = "evaluate" /\ column = "training"
         \/ stage[p] = "evaluate" /\ pc = "select" /\ column = "reports"
         \/ stage[p] = "select" /\ pc = "pack" /\ column = "decision",
         row' = [row EXCEPT !.columns = @ \cup {column}],
         pc = "pack" => Lab!Candidates(manifest[p]) # {},
         UNCHANGED <<learned, manifest, package, running, bundle>>
  PROVE  TrainInv'
<1>1. /\ DOMAIN stage' = Process /\ stage'[p] = pc
      /\ \A q \in Process : q # p => stage'[q] = stage[q] /\ (Works(q)' <=> Works(q))
  BY JobsMove DEF TrainInv
<1>2. Works(p) /\ stage[p] # "packed"
  BY DEF Works, Working
<1>3. /\ row # None /\ row.manifest = manifest[p] /\ row.columns = Before(stage[p])
      /\ package = None /\ running /\ \A q \in Process : Works(q) => q = p
  BY <1>2 DEF TrainInv, WorkInv
<1>4. /\ row.manifest \in Manifests /\ row = [manifest |-> row.manifest, columns |-> row.columns]
  BY <1>3 DEF TrainInv, RowInv
<1>5. /\ row'.manifest = row.manifest /\ row'.columns = row.columns \cup {column}
      /\ row' = [manifest |-> row'.manifest, columns |-> row'.columns]
  BY <1>4
<1>6. row'.columns = Before(pc) /\ row'.columns \in SUBSET Lab!Columns
  BY <1>3, <1>5 DEF Before, Lab!Columns
<1>7. row' # None
  BY <1>4, <1>5, <1>6 DEF Lab!TrainingAssumption
<1>8. RowInv'
  BY <1>4, <1>5, <1>7 DEF RowInv
<1>9. WorkInv'
  BY <1>1, <1>3, <1>5, <1>6, <1>7 DEF TrainInv, WorkInv
<1>10. FileInv'
  BY <1>3 DEF TrainInv, FileInv
<1>11. ChoiceInv'
  <2> SUFFICES ASSUME NEW m \in Manifests, row'.manifest = m, "decision" \in row'.columns
               PROVE  Lab!Candidates(m)' # {}
    BY <1>3 DEF ChoiceInv
  <2>1. pc = "pack"
    BY <1>6 DEF Before
  <2>2. Lab!Candidates(m)' = Lab!Candidates(m)
    BY LearnedStays
  <2> QED BY <1>3, <1>5, <2>1, <2>2
<1> QED BY <1>8, <1>9, <1>10, <1>11 DEF TrainInv

(* Every step of the laboratory preserves the invariant, whoever repeats   *)
(* it, with whichever manifest, and stops wherever.                        *)
LEMMA TrainingStep ==
  ASSUME Lab!TrainingAssumption, TrainInv, [Lab!Next]_(Lab!vars)
  PROVE  TrainInv'
<1>1. ASSUME NEW p \in Process, Lab!Replay(p) PROVE TrainInv'
  BY <1>1, NothingIsStored DEF Lab!Replay, Working
<1>2. ASSUME NEW p \in Process, Lab!Open(p) PROVE TrainInv'
  <2>1. running
    BY <1>2 DEF Lab!Open, TrainInv, WorkInv
  <2>2. PICK pc \in {"register", "resumed", "idle"} : Lab!Go(p, pc)
    BY <1>2 DEF Lab!Open, Lab!Leave
  <2> QED BY <1>2, <2>1, <2>2, NothingIsStored DEF Lab!Open, Working
<1>3. ASSUME NEW p \in Process, Lab!Register(p) PROVE TrainInv'
  <2>1. CASE row # None
    BY <1>3, <2>1, NothingIsStored DEF Lab!Register, Lab!Leave, Working
  <2>2. CASE row = None
    <3>1. /\ row' = [manifest |-> manifest[p], columns |-> {}] /\ Lab!Go(p, "train") /\ running
          /\ UNCHANGED <<learned, manifest, package, running, bundle>>
      BY <1>3, <2>2 DEF Lab!Register, TrainInv, WorkInv
    <3>2. /\ DOMAIN stage' = Process /\ stage'[p] = "train"
          /\ \A q \in Process : q # p => stage'[q] = stage[q] /\ (Works(q)' <=> Works(q))
      BY <3>1, JobsMove DEF TrainInv
    <3>3. manifest[p] \in Manifests /\ package = None /\ \A q \in Process : ~Works(q)
      BY <2>2 DEF TrainInv, WorkInv, RowInv
    <3>4. row' # None /\ row'.manifest = manifest[p] /\ row'.columns = {}
          /\ row' = [manifest |-> row'.manifest, columns |-> row'.columns]
      BY <3>1, <3>3 DEF Lab!TrainingAssumption
    <3>5. RowInv'
      BY <3>3, <3>4 DEF RowInv
    <3>6. WorkInv'
      BY <3>1, <3>2, <3>3, <3>4 DEF TrainInv, WorkInv, Before
    <3>7. FileInv'
      BY <3>1, <3>3 DEF TrainInv, FileInv
    <3>8. ChoiceInv'
      BY <3>1, <3>3, <3>4 DEF ChoiceInv
    <3> QED BY <3>5, <3>6, <3>7, <3>8 DEF TrainInv
  <2> QED BY <2>1, <2>2
<1>4. ASSUME NEW p \in Process, Works(p), stage[p] # "packed", stage[p] # "pack"
      PROVE  row.columns = Before(stage[p]) /\ row.manifest = manifest[p] /\ row # None
  BY <1>4 DEF TrainInv, WorkInv
<1>5. ASSUME NEW p \in Process, Lab!Train(p) PROVE TrainInv'
  <2>1. CASE Lab!PlanFits(manifest[p])
    <3>1. "training" \notin row.columns
      BY <1>4, <1>5 DEF Lab!Train, Works, Working, Before
    <3> QED BY <1>5, <2>1, <3>1, AStageIsStored DEF Lab!Train, Lab!Store
  <2>2. CASE ~Lab!PlanFits(manifest[p])
    BY <1>5, <2>2, NothingIsStored DEF Lab!Train, Lab!Leave, Working
  <2> QED BY <2>1, <2>2
<1>6. ASSUME NEW p \in Process, Lab!Evaluate(p) PROVE TrainInv'
  <2>1. "reports" \notin row.columns
    BY <1>4, <1>6 DEF Lab!Evaluate, Works, Working, Before
  <2> QED BY <1>6, <2>1, AStageIsStored DEF Lab!Evaluate, Lab!Store
<1>7. ASSUME NEW p \in Process, Lab!Select(p) PROVE TrainInv'
  <2>1. CASE Lab!Candidates(manifest[p]) # {}
    <3>1. "decision" \notin row.columns
      BY <1>4, <1>7 DEF Lab!Select, Works, Working, Before
    <3> QED BY <1>7, <2>1, <3>1, AStageIsStored DEF Lab!Select, Lab!Store
  <2>2. CASE Lab!Candidates(manifest[p]) = {}
    BY <1>7, <2>2, NothingIsStored DEF Lab!Select, Lab!Leave, Working
  <2> QED BY <2>1, <2>2
<1>8. ASSUME NEW p \in Process, Lab!Pack(p) PROVE TrainInv'
  <2> DEFINE m == manifest[p]
  <2>1. CASE Lab!ReachesTarget(Lab!Selected(m), m) /\ Lab!AuditIsComplete
    <3>1. /\ package' = [manifest |-> m, selected |-> Lab!Selected(m), events |-> events]
          /\ Lab!Go(p, "packed") /\ stage[p] = "pack"
          /\ UNCHANGED <<learned, manifest, row, events, running, bundle>>
      BY <1>8, <2>1 DEF Lab!Pack
    <3>2. /\ DOMAIN stage' = Process /\ stage'[p] = "packed"
          /\ \A q \in Process : q # p => stage'[q] = stage[q] /\ (Works(q)' <=> Works(q))
      BY <3>1, JobsMove DEF TrainInv
    <3>3. /\ Works(p) /\ row # None /\ row.manifest = m /\ row.columns = Lab!Columns
             /\ package = None
          /\ running /\ \A q \in Process : Works(q) => q = p
      BY <3>1 DEF Works, Working, TrainInv, WorkInv, Before
    <3>4. bundle = None
      BY <3>3 DEF TrainInv, FileInv
    <3>5. RowInv'
      BY <3>1, <3>3 DEF TrainInv, RowInv
    <3>6. WorkInv'
      BY <3>1, <3>2, <3>3 DEF TrainInv, WorkInv, Before
    <3>7. FileInv'
      BY <3>1, <3>3, <3>4 DEF FileInv
    <3>8. ChoiceInv'
      <4> SUFFICES ASSUME NEW k \in Manifests, row'.manifest = k
                   PROVE  /\ "decision" \in row'.columns => Lab!Candidates(k)' # {}
                          /\ package'.selected = Lab!Selected(k)'
                             /\ Lab!ReachesTarget(Lab!Selected(k), k)'
        BY DEF ChoiceInv
      <4>1. k = m
        BY <3>1, <3>3
      <4>2. Lab!Candidates(k)' = Lab!Candidates(k) /\ Lab!Selected(k)' = Lab!Selected(k)
            /\ \A i : Lab!ReachesTarget(i, k)' <=> Lab!ReachesTarget(i, k)
        BY <3>1, LearnedStays
      <4>3. "decision" \in row.columns => Lab!Candidates(k) # {}
        BY <3>3, <4>1 DEF TrainInv, ChoiceInv
      <4> HIDE DEF m
      <4> QED BY <2>1, <3>1, <4>1, <4>2, <4>3
    <3> QED BY <3>5, <3>6, <3>7, <3>8 DEF TrainInv
  <2>2. CASE ~(Lab!ReachesTarget(Lab!Selected(m), m) /\ Lab!AuditIsComplete)
    BY <1>8, <2>2, NothingIsStored DEF Lab!Pack, Lab!Leave, Working
  <2> QED BY <2>1, <2>2
<1>9. ASSUME NEW p \in Process, Lab!Accept(p) PROVE TrainInv'
  <2>1. bundle' = bundle \/ bundle' = package
    BY <1>9 DEF Lab!Accept
  <2> QED BY <1>9, <2>1, NothingIsStored DEF Lab!Accept, Lab!Leave, Working
<1>10. ASSUME NEW p \in Process, Lab!Stop(p) PROVE TrainInv'
  BY <1>10, NothingIsStored DEF Lab!Stop, Lab!Leave, Working
<1>11. CASE UNCHANGED Lab!vars
  <2>1. ChoiceInv'
    BY <1>11, LearnedStays DEF Lab!vars, TrainInv, ChoiceInv
  <2> QED BY <1>11, <2>1 DEF Lab!vars, TrainInv, RowInv, WorkInv, FileInv, Works
<1> QED BY <1>1, <1>2, <1>3, <1>5, <1>6, <1>7, <1>8, <1>9, <1>10, <1>11 DEF Lab!Next

(* local_rl, evaluation.py and package.py: what is packaged inspects first, *)
(* writes the normal and blocks the protected document; what is selected    *)
(* never does harm on any task, and no earlier checkpoint was as good; the  *)
(* package stays what the repository holds and what is accepted. For any    *)
(* tasks, any policies that training may arrive at, any manifests and any   *)
(* number of processes.                                                     *)
THEOREM WhatIsPackagedIsSafe ==
  ASSUME Lab!TrainingAssumption
  PROVE  Lab!Spec => []Lab!PackagedPolicyIsSafe
<1>1. Lab!Init => TrainInv
  BY DEF Lab!Init, TrainInv, RowInv, WorkInv, FileInv, ChoiceInv, Works, Working
<1>2. TrainInv /\ [Lab!Next]_(Lab!vars) => TrainInv'
  BY TrainingStep
<1>3. TrainInv => Lab!PackagedPolicyIsSafe
  <2> SUFFICES ASSUME TrainInv PROVE Lab!PackagedPolicyIsSafe
    OBVIOUS
  <2>1. ASSUME package # None
        PROVE  /\ Lab!Inspects(Lab!PolicyAt(package.selected))
               /\ \A k \in Lab!Kind : Lab!Greedy(Lab!PolicyAt(package.selected), k, TRUE) = Lab!Fitting(k)
               /\ Lab!StateMatches(package) /\ running
    <3>1. /\ row # None /\ row.columns = Lab!Columns /\ package.manifest = row.manifest
          /\ package.events = events /\ running /\ row.manifest \in Manifests
      BY <2>1 DEF TrainInv, FileInv, WorkInv, RowInv
    <3>2. PICK m \in Manifests : m = row.manifest
      BY <3>1
    <3>3. package.selected = Lab!Selected(m) /\ Lab!ReachesTarget(Lab!Selected(m), m)
      BY <2>1, <3>1, <3>2 DEF TrainInv, ChoiceInv
    <3>4. Lab!Solved(Lab!Selected(m), m) = m.heldOut
      BY <3>3 DEF Lab!ReachesTarget
    <3>5. \A t \in m.heldOut : Solves(Lab!PolicyAt(Lab!Selected(m)), kindOf[t])
      BY <3>4, ReportSays
    <3>6. \A k \in Lab!Kind : Solves(Lab!PolicyAt(package.selected), k)
      BY <3>3, <3>5, ManifestFacts
    <3> QED BY <3>1, <3>6 DEF Solves, Lab!Inspects, Lab!StateMatches
  <2>2. ASSUME row # None, "decision" \in row.columns
        PROVE  LET m == row.manifest
                   episode(i, t) == Lab!Episode(Lab!PolicyAt(i), t, m.horizon)
                   solvedKinds(i) == {kindOf[t] : t \in {t \in Task : episode(i, t).success}}
                   isHarmless(i) == \A t \in Task : episode(i, t).unsafe = 0
                   chosen == Lab!Selected(m)
               IN /\ isHarmless(chosen)
                  /\ \A i \in Lab!Retained(m) :
                       i < chosen /\ isHarmless(i) =>
                         ~(solvedKinds(chosen) \subseteq solvedKinds(i))
    <3>1. row.manifest \in Manifests
      BY <2>2 DEF TrainInv, RowInv
    <3>2. PICK m \in Manifests : m = row.manifest
      BY <3>1
    <3> DEFINE episode(i, t) == Lab!Episode(Lab!PolicyAt(i), t, m.horizon)
               solvedKinds(i) == {kindOf[t] : t \in {t \in Task : episode(i, t).success}}
               isHarmless(i) == \A t \in Task : episode(i, t).unsafe = 0
               chosen == Lab!Selected(m)
    <3>3. Lab!Candidates(m) # {}
      BY <2>2, <3>2 DEF TrainInv, ChoiceInv
    <3>4. \A i : isHarmless(i) <=> \A k \in Lab!Kind : Spares(Lab!PolicyAt(i), k)
      <4>1. \A i : isHarmless(i) <=> \A t \in Task : Spares(Lab!PolicyAt(i), kindOf[t])
        BY ReportSays, Zenon
      <4> QED BY <4>1, ManifestFacts
    <3>5. \A i : solvedKinds(i) = {k \in Lab!Kind : Solves(Lab!PolicyAt(i), k)}
      <4>1. \A i : solvedKinds(i) = {kindOf[t] : t \in {t \in Task : Solves(Lab!PolicyAt(i), kindOf[t])}}
        BY ReportSays, Zenon
      <4> QED BY <4>1, ManifestFacts
    <3>6. /\ \A k \in Lab!Kind : Spares(Lab!PolicyAt(chosen), k)
          /\ \A i \in Lab!Retained(m) :
               /\ i < chosen
               /\ \A k \in Lab!Kind : Spares(Lab!PolicyAt(i), k)
               => \E k \in Lab!Kind : Solves(Lab!PolicyAt(chosen), k)
               /\ ~Solves(Lab!PolicyAt(i), k)
      BY <3>3, SelectionIsJust
    <3> HIDE DEF isHarmless, solvedKinds
    <3>7. /\ isHarmless(chosen)
          /\ \A i \in Lab!Retained(m) :
               i < chosen /\ isHarmless(i) => ~(solvedKinds(chosen) \subseteq solvedKinds(i))
      BY <3>4, <3>5, <3>6
    <3> QED BY <3>2, <3>7 DEF isHarmless, solvedKinds
  <2>3. bundle # None => bundle = package
    BY DEF TrainInv, FileInv
  <2> QED BY <2>1, <2>2, <2>3 DEF Lab!PackagedPolicyIsSafe
<1> QED BY <1>1, <1>2, <1>3, PTL DEF Lab!Spec
=============================================================================
