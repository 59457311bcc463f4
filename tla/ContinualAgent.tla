--------------------------- MODULE ContinualAgent ---------------------------
(***************************************************************************)
(* The lineage of a continually evolving agent (src/evoagent/continual/,   *)
(* lab/unified_continual.py): complete snapshots of skills, router, memory *)
(* and action policy, of which a candidate changes one component of its    *)
(* parent; a gate that compares the reports of both; and the registry that *)
(* activates a candidate in the place of its parent.                       *)
(*                                                                         *)
(* A snapshot is frozen and its evaluation deterministic: what it passes,  *)
(* where it is unsafe and how many tools it calls is a function of it.     *)
(* Two callers may still decide on a candidate with other target roles.    *)
(* A step is one read or one transaction; callers stop anywhere.           *)
(***************************************************************************)
EXTENDS Integers, FiniteSets, FiniteSetsExt

CONSTANTS
  Snapshot, Initial,    \* the snapshots; the one of round zero
  parent,               \* the parent each one names, Initial its own
  Role, Task, roleOf, Retention,
  Process,
  Results,              \* what evaluation can find of a snapshot
  MinGain, MaxDrop,     \* of the gate, in the units of RoleScore
  MaxRegressions, SafetyIsRequired, MaxSafetyGrowth, MaxToolGrowth,
  NoRecord

ContinualAssumption ==
  /\ IsFiniteSet(Snapshot) /\ Initial \in Snapshot
  /\ parent \in [Snapshot -> Snapshot] /\ parent[Initial] = Initial
  /\ \A s \in Snapshot \ {Initial} : parent[s] # s
  /\ IsFiniteSet(Task) /\ roleOf \in [Task -> Role] /\ Retention \in Role
  /\ \A r \in Role : \E t \in Task : roleOf[t] = r
  /\ Results \subseteq [passes: SUBSET Task, unsafe: Nat, tools: Nat]
  /\ {MinGain, MaxDrop, MaxRegressions, MaxSafetyGrowth, MaxToolGrowth} \subseteq Nat
  /\ SafetyIsRequired \in BOOLEAN
  /\ NoRecord \notin {"candidate", "active", "rejected", "superseded"}
  /\ NoRecord \notin [active : Snapshot, rev : Nat]

VARIABLES result,    \* what evaluation finds of each snapshot; it never changes
          record,    \* the rows of snapshots
          head,      \* the row of heads
          activated, \* the candidate_activated events, in their order
          job
vars == <<result, record, head, activated, job>>

Idle == [pc |-> "idle"]
Registered(s) == record[s] # NoRecord
Candidates == Snapshot \ {Initial}

Init ==
  /\ result \in [Snapshot -> Results]
  /\ record = [s \in Snapshot |-> NoRecord]
  /\ head = NoRecord
  /\ activated = {}
  /\ job = [p \in Process |-> Idle]

Continue(p, new) == job' = [job EXCEPT ![p] = new]
Leave(p) == Continue(p, Idle)
At(p, pc) == job[p].pc = pc

-----------------------------------------------------------------------------
(* The gate: decide_promotion, with the role scores as integers             *)

Size(r) == Cardinality({t \in Task : roleOf[t] = r})
Units == FoldSet(LAMBDA r, y : Size(r) * y, 1, Role)
RoleScore(s, r) ==
  Cardinality({t \in result[s].passes : roleOf[t] = r}) * (Units \div Size(r))
TargetScore(s, roles) == LET score(r) == RoleScore(s, r) IN MapThenSumSet(score, roles)

Regressions(s) == result[parent[s]].passes \ result[s].passes

(* Why s is not eligible in the place of its parent, roles being the target.*)
GainIsMissed(s, roles) ==
  TargetScore(s, roles) - TargetScore(parent[s], roles) < MinGain * Cardinality(roles)
RetentionDrops(s) == RoleScore(parent[s], Retention) - RoleScore(s, Retention) > MaxDrop
TasksRegress(s) == Cardinality(Regressions(s)) > MaxRegressions
SafetyIsViolated(s) ==
  \/ SafetyIsRequired /\ result[s].unsafe > 0
  \/ result[s].unsafe - result[parent[s]].unsafe > MaxSafetyGrowth
ToolsGrow(s) ==
  LET before == result[parent[s]].tools
  IN result[s].tools - before > MaxToolGrowth * (IF before > 1 THEN before ELSE 1)

Eligible(s, roles) ==
  /\ ~GainIsMissed(s, roles)
  /\ ~RetentionDrops(s) /\ ~TasksRegress(s)
  /\ ~SafetyIsViolated(s) /\ ~ToolsGrow(s)

-----------------------------------------------------------------------------
(* register_initial; again it changes nothing, or raises.                   *)

RegisterInitial ==
  /\ record[Initial] = NoRecord /\ head = NoRecord
  /\ record' = [record EXCEPT ![Initial] = "active"]
  /\ head' = [active |-> Initial, rev |-> 0]
  /\ UNCHANGED <<result, activated, job>>

(* register_candidate: the head and the parent, the row of the candidate,   *)
(* the transaction, and the head once more.                                 *)

ReadParent(p, s) ==
  /\ job[p] = Idle
  /\ head # NoRecord /\ head.active = parent[s]
  /\ Continue(p, [pc |-> "register", s |-> s, saw |-> head])
  /\ UNCHANGED <<result, record, head, activated>>

RegisterCandidate(p) ==
  /\ At(p, "register")
  /\ LET s == job[p].s
     IN IF Registered(s)
        THEN /\ IF record[s] \in {"candidate", "active"}
                THEN Continue(p, [pc |-> "decide", s |-> s]) ELSE Leave(p)
             /\ UNCHANGED record
        ELSE /\ record' = [record EXCEPT ![s] = "candidate"]
             /\ Continue(p, [job[p] EXCEPT !.pc = "check"])
  /\ UNCHANGED <<result, head, activated>>

CheckHead(p) ==
  /\ At(p, "check")
  /\ IF head = job[p].saw THEN Continue(p, [pc |-> "decide", s |-> job[p].s]) ELSE Leave(p)
  /\ UNCHANGED <<result, record, head, activated>>

(* The evaluation and the decision change nothing; the lab reads the        *)
(* revision when it is about to activate.                                   *)
Decide(p) ==
  /\ At(p, "decide")
  /\ \E roles \in SUBSET Role \ {{}} :
       LET ok == Eligible(job[p].s, roles)
       IN Continue(p, [pc |-> IF ok THEN "activate" ELSE "reject", s |-> job[p].s,
                       ok |-> ok, rev |-> head.rev])
  /\ UNCHANGED <<result, record, head, activated>>

(* activate: what it reads and checks, with ready the state of the row; the *)
(* second read is that of the active row.                                   *)
MayActivate_AnyParent(p) ==
  LET j == job[p] IN head.rev = j.rev /\ record[j.s] = "candidate" /\ j.ok
MayActivate(p) ==
  LET j == job[p]
  IN /\ head.rev = j.rev
     /\ record[j.s] = "candidate"
     /\ j.ok
     /\ parent[j.s] = head.active

ReadCandidate(p) ==
  /\ At(p, "activate")
  /\ LET j == job[p]
     IN IF MayActivate(p)
        THEN Continue(p, [pc |-> "commit", s |-> j.s, ok |-> j.ok, rev |-> j.rev,
                          from |-> head.active])
        ELSE Leave(p)
  /\ UNCHANGED <<result, record, head, activated>>

(* The rows are replaced as they were read; the revision decides whether    *)
(* the transaction is committed.                                            *)
Activate(p) ==
  /\ At(p, "commit")
  /\ LET j == job[p]
     IN IF head.rev = j.rev
        THEN /\ record' = [record EXCEPT ![j.from] = "superseded", ![j.s] = "active"]
             /\ head' = [active |-> j.s, rev |-> head.rev + 1]
             /\ activated' = activated \cup {[s |-> j.s, at |-> head.rev + 1]}
        ELSE UNCHANGED <<record, head, activated>>
  /\ Leave(p)
  /\ UNCHANGED result

(* reject: the row is read, and replaced whatever it is by then.            *)
ReadRejected(p) ==
  /\ At(p, "reject")
  /\ IF record[job[p].s] = "candidate" THEN Continue(p, [job[p] EXCEPT !.pc = "replace"])
     ELSE Leave(p)
  /\ UNCHANGED <<result, record, head, activated>>
Reject(p) ==
  /\ At(p, "replace")
  /\ record' = [record EXCEPT ![job[p].s] = "rejected"]
  /\ Leave(p)
  /\ UNCHANGED <<result, head, activated>>

Stop(p) ==
  /\ job[p] # Idle
  /\ Leave(p)
  /\ UNCHANGED <<result, record, head, activated>>

Next ==
  \/ RegisterInitial
  \/ \E p \in Process :
       \/ \E s \in Candidates : ReadParent(p, s)
       \/ RegisterCandidate(p) \/ CheckHead(p) \/ Decide(p)
       \/ ReadCandidate(p) \/ Activate(p) \/ ReadRejected(p) \/ Reject(p)
       \/ Stop(p)

Spec == Init /\ [][Next]_vars

-----------------------------------------------------------------------------
(* Properties *)

Previous(a) ==
  IF a.at = 1 THEN Initial ELSE CHOOSE s \in Snapshot : [s |-> s, at |-> a.at - 1] \in activated

(* Callers who decide with different target roles may disagree: one rejects *)
(* what the other activates, at whichever time.                             *)
Disputable(s) ==
  \E r, q \in SUBSET Role \ {{}} : Eligible(s, r) /\ ~Eligible(s, q)

(* docs/28, registry: a candidate takes the place of the very snapshot it   *)
(* was compared with, one activation after the other and without a gap,     *)
(* whatever other callers register, activate and reject meanwhile; and      *)
(* verify_state goes on to hold, except of a head that callers disagree on. *)
LineageIsSound ==
  head # NoRecord =>
    /\ {a.at : a \in activated} = 1..head.rev /\ Cardinality(activated) = head.rev
    /\ \A a \in activated : parent[a.s] = Previous(a) /\ \E roles \in SUBSET Role : Eligible(a.s, roles)
    /\ head.rev > 0 => [s |-> head.active, at |-> head.rev] \in activated
    /\ ~Disputable(head.active) => record[head.active] = "active"
    /\ \A s \in Snapshot : record[s] = "active" => s = head.active

(* A gate without regressions compares a candidate with its parent only;    *)
(* yet what any snapshot of the lineage passed, the active one passes.      *)
NothingIsForgotten ==
  MaxRegressions = 0 /\ head # NoRecord =>
    \A a \in activated : result[Previous(a)].passes \cup result[a.s].passes
                             \subseteq result[head.active].passes
=============================================================================
