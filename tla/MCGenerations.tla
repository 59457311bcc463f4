----------------------------- MODULE MCGenerations -----------------------------
(* The program of MCProgramController and, beside it, the ledger of approved *)
(* executions, the lineage of a continual agent, the local training of a     *)
(* policy and its binding to a generation.  They share nothing, so TLC       *)
(* starts in any of them (which) and stays there.  Each has the variables of *)
(* its module, and the others' are Absent; a program has no generation then. *)
EXTENDS MCProgramController

VARIABLES which,
          now, given, ledger, dirty, begun,  \* the executions, with task
          result, record, tip, activated,    \* the agent, with task
          learned, manifest, row, events, package, running, bundle,  \* training, with task
          generation, governed, doc,   \* the binding
          task
executionVars == <<now, given, ledger, dirty, begun>>
agentVars == <<result, record, tip, activated>>
trainingVars == <<learned, manifest, row, events, package, running, bundle>>
bindingVars == <<generation, governed, doc>>
allVars == <<which, vars, executionVars, agentVars, trainingVars, bindingVars, task>>

CONSTANTS Absent, t1, t2

Processes == {t1, t2}

-----------------------------------------------------------------------------
(* Executions: a request of high risk whose workspace must be empty and one  *)
(* that needs a single approval, both made by x1; at most three approvals,   *)
(* of times in the window, are given and two authorizations used.  The one   *)
(* approval of the second request says when it was given.                    *)

CONSTANTS train, try
Requests == {train, try}
People == {x1, x3, x4}
MadeBy == [r \in Requests |-> x1]
Risky == {train}
IssuedAt == [r \in Requests |-> IF r = try THEN 1 ELSE 0]
ExpiresAt == [r \in Requests |-> IF r = try THEN 3 ELSE 2]
InTime(v) == IssuedAt[v.req] <= v.at /\ v.at < ExpiresAt[v.req]
Executions == INSTANCE ExecutionLedger WITH
  job <- task,
  Request <- Requests, Person <- People, Process <- Processes,
  requester <- MadeBy, highRisk <- Risky, issued <- IssuedAt, expires <- ExpiresAt,
  emptyWorkspace <- Risky, Freshness <- 1, MaxTime <- 2
ExecutionBounds ==
  /\ Cardinality(given') <= 3 /\ Cardinality(ledger') <= 2
  /\ \A v \in given' \ given :
       /\ InTime(v)
       /\ v.req = try => v.at = v.cast /\ {w \in given : w.req = try} = {}

(* The agent: a chain s0 -> v1 -> v2 and a rival s0 -> v3, two tasks whose   *)
(* results must be retained and one of another role.                         *)

CONSTANTS v0, v1, v2, v3, kept1, kept2, extra
Snapshots == {v0, v1, v2, v3}
ParentOf == [s \in Snapshots |-> IF s = v2 THEN v1 ELSE v0]
Tasks == {kept1, kept2, extra}
RoleOf == [t \in Tasks |-> IF t = extra THEN "transfer" ELSE "retention"]
Roles == {"retention", "transfer"}
Findings == [passes : {{kept1}, {kept2}, {kept1, kept2}, Tasks}, unsafe : {0}, tools : {1}]
              \cup {[passes |-> Tasks, unsafe |-> 1, tools |-> 1],
                    [passes |-> Tasks, unsafe |-> 0, tools |-> 4]}
Agent == INSTANCE ContinualAgent WITH
  head <- tip, job <- task,
  Snapshot <- Snapshots, Initial <- v0, parent <- ParentOf,
  Role <- Roles, Task <- Tasks, roleOf <- RoleOf, Retention <- "retention",
  Process <- Processes, Results <- Findings,
  MinGain <- 1, MaxDrop <- 0, MaxRegressions <- 0, SafetyIsRequired <- FALSE,
  MaxSafetyGrowth <- 0, MaxToolGrowth <- 2, NoRecord <- Absent

(* Training: two kinds of documents, three held-out tasks, three iterations *)
(* of which the second and the last are kept, and six policies to arrive    *)
(* at; versions of the laboratory with another horizon or no budget.        *)
Kinds == [normal1 |-> "normal", normal2 |-> "normal", normal3 |-> "normal",
          locked1 |-> "protected", locked2 |-> "protected"]
Version == [training |-> {"normal1", "locked1"}, heldOut |-> {"normal2", "normal3", "locked2"},
            horizon |-> 2, iterations |-> 3, interval |-> 2, epochs |-> 1, group |-> 4,
            maxRollouts |-> 24, maxSteps |-> 48, maxUpdates |-> 3]
Versions == {Version, [Version EXCEPT !.maxSteps = 47],
             [Version EXCEPT !.horizon = 3, !.maxSteps = 72]}
Policy(n0, n1, p0, p1) ==
  [s \in {"normal", "protected"} \X BOOLEAN |->
    IF s[1] = "normal" THEN IF s[2] THEN n1 ELSE n0 ELSE IF s[2] THEN p1 ELSE p0]
Learned == {Policy("write", "write", "write", "write"), Policy("inspect", "write", "inspect", "block"),
            Policy("inspect", "write", "inspect", "write"), Policy("inspect", "block", "inspect", "block"),
            Policy("inspect", "inspect", "inspect", "block"), Policy("inspect", "write", "block", "block")}
Training == INSTANCE LocalTraining WITH
  job <- task, Process <- Processes, Task <- DOMAIN Kinds, kindOf <- Kinds,
  Manifests <- Versions, Learnable <- Learned, None <- Absent

(* The binding: every role has a person of its own who may play one other   *)
(* role too, or documents state times around the start of the generation.   *)
Crew == {"attestor", "author", "authorizer", "trainer", "specAuthor", "reviewer", "verifier",
         "executor", "binder", "runtimeAcceptor", "acceptor", "anchorer", "receiver"}
Binding == INSTANCE ProgramTraining WITH
  Person <- Crew \cup {"planner", "evaluator", "approver", "starter"},
  Reviewers <- {"planner", "evaluator"}, Governors <- {"approver", "starter"},
  Origins <- {"planner"}, PlanApprovers <- {"approver"},
  Time <- 0..2, Started <- 1
OwnRole(r) ==
  CASE r \in {"registrar", "ticketer"} -> "author" [] r = "completer" -> "binder" [] OTHER -> r
Guests == {r \in DOMAIN doc' : doc'[r].by # OwnRole(r)}
BindingBounds ==
  /\ Cardinality(Guests) <= 1
  /\ Guests # {} => \A r \in DOMAIN doc' : doc'[r].at = 1
  /\ governed' \cap {"evaluator", "approver"} \in {{}, {"evaluator", "approver"}}
  /\ ~({"ticketer", "attestor"} \subseteq DOMAIN doc')

ASSUME ExecutionAssumption == Executions!ExecutionAssumption
ASSUME ContinualAssumption == Agent!ContinualAssumption
ASSUME TrainingAssumption == Training!TrainingAssumption
ASSUME BindingAssumption == Binding!BindingAssumption

-----------------------------------------------------------------------------
NoProgram ==
  /\ gens = [i \in Index |-> NoGeneration]
  /\ camp = Absent /\ approvals = Absent /\ audit = Absent /\ job = Absent /\ trail = Absent
  /\ head = NoHead /\ signals = Absent /\ receipts = Absent /\ decisions = Absent
NoExecutions == now = Absent /\ given = Absent /\ ledger = Absent /\ dirty = Absent /\ begun = Absent
NoAgent == result = Absent /\ record = Absent /\ tip = Absent /\ activated = Absent
NoTraining ==
  /\ learned = Absent /\ manifest = Absent /\ row = Absent /\ events = Absent
  /\ package = Absent /\ running = Absent /\ bundle = Absent
NoBinding == generation = Absent /\ governed = Absent /\ doc = Absent

SumInit ==
  \/ /\ which = "program" /\ Init
     /\ NoExecutions /\ NoAgent /\ NoTraining /\ NoBinding /\ task = Absent
  \/ /\ which = "executions" /\ Executions!Init
     /\ NoProgram /\ NoAgent /\ NoTraining /\ NoBinding
  \/ /\ which = "agent" /\ Agent!Init /\ result[v0].passes = {kept1}
     /\ NoProgram /\ NoExecutions /\ NoTraining /\ NoBinding
  \/ /\ which = "training" /\ Training!Init
     /\ NoProgram /\ NoExecutions /\ NoAgent /\ NoBinding
  \/ /\ which = "binding" /\ Binding!Init
     /\ NoProgram /\ NoExecutions /\ NoAgent /\ NoTraining /\ task = Absent

SumNext ==
  /\ UNCHANGED which
  /\ \/ /\ which = "program" /\ (Next \/ Stops)
        /\ UNCHANGED <<executionVars, agentVars, trainingVars, bindingVars, task>>
     \/ /\ which = "executions" /\ Executions!Next /\ ExecutionBounds
        /\ UNCHANGED <<vars, agentVars, trainingVars, bindingVars>>
     \/ /\ which = "agent" /\ Agent!Next
        /\ UNCHANGED <<vars, executionVars, trainingVars, bindingVars>>
     \/ /\ which = "training" /\ Training!Next
        /\ UNCHANGED <<vars, executionVars, agentVars, bindingVars>>
     \/ /\ which = "binding" /\ Binding!Next /\ BindingBounds
        /\ UNCHANGED <<vars, executionVars, agentVars, trainingVars, task>>

SumSpec == SumInit /\ [][SumNext]_allVars
BindingSpec == SumInit /\ which = "binding" /\ [][SumNext]_allVars

SumSymmetry == Symmetry \cup Permutations(Processes)

-----------------------------------------------------------------------------
(* ExecutionLedger: what an authorization allows begins once.               *)
ExecutionsAreAuthorized == which = "executions" => Executions!ExecutionsAreAuthorized
(* ContinualAgent: the lineage has no gap and forgets nothing.              *)
LineageIsSound == which = "agent" => Agent!LineageIsSound /\ Agent!NothingIsForgotten
(* LocalTraining: whoever repeats the laboratory, what is packaged is safe. *)
PackagedPolicyIsSafe == which = "training" => Training!PackagedPolicyIsSafe
(* ProgramTraining: no hand takes part twice, in the order of the times.    *)
TrainingIsGoverned == which = "binding" => Binding!TrainingIsGoverned
(* ProgramTraining: no completed package is converted into an intent.       *)
TrainingFollowsIntent == which = "binding" => Binding!TrainingFollowsIntent
=============================================================================
