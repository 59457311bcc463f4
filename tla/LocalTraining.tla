--------------------------- MODULE LocalTraining ---------------------------
(***************************************************************************)
(* The local training of a small policy (src/evoagent/local_rl/,           *)
(* lab/local_agentic_rl.py): an environment of safe documents, a run whose *)
(* manifest is frozen, checkpoints that are evaluated on held-out tasks,   *)
(* the selection of one, a repository that keeps each stage once, and a    *)
(* package.  Around it the acceptance laboratory                           *)
(* (lab/program_local_rl_acceptance*.py) binds the package to a generation *)
(* that runs.                                                              *)
(*                                                                         *)
(* Training is deterministic: what is learned by an iteration is a fixed   *)
(* function, of which the greedy actions matter here.  Processes repeat    *)
(* the laboratory at any time, two of them at once, and stop anywhere; one *)
(* may be of another version and have another manifest.                    *)
(***************************************************************************)
EXTENDS Integers, Sequences, FiniteSets, FiniteSetsExt

CONSTANTS
  Process,
  Task, kindOf,
  Manifests,     \* the frozen manifests of the versions of the laboratory
  Learnable,     \* the policies that an iteration may arrive at
  None

Kind == {"normal", "protected"}
Action == {"inspect", "write", "block"}
Policies == [Kind \X BOOLEAN -> Action]
Columns == {"training", "reports", "decision"}
CoversKinds(tasks) == {kindOf[t] : t \in tasks} = Kind

TrainingAssumption ==
  /\ IsFiniteSet(Task) /\ kindOf \in [Task -> Kind] /\ Learnable \subseteq Policies
  /\ \A m \in Manifests :
       /\ m.training \cap m.heldOut = {} /\ m.training \cup m.heldOut \subseteq Task
       /\ CoversKinds(m.training) /\ CoversKinds(m.heldOut)
       /\ m.horizon \in 2..8
       /\ {m.iterations, m.interval, m.epochs} \subseteq Nat \ {0} /\ m.group >= 4
  /\ \A m \in Manifests, c \in SUBSET Columns : [manifest |-> m, columns |-> c] # None

VARIABLES learned,   \* the policy after each iteration; it never changes
          manifest,  \* that of each process; it never changes
          row,       \* the row of local_rl_runs
          events,    \* its audit events
          package,   \* the package file
          running,   \* the generation that the laboratory replays runs
          bundle,    \* the file of accepted evidence
          job
vars == <<learned, manifest, row, events, package, running, bundle, job>>

Iterations == 1..Max({m.iterations : m \in Manifests})

Init ==
  /\ learned \in [Iterations -> Learnable]
  /\ manifest \in [Process -> Manifests]
  /\ row = None /\ events = <<>> /\ package = None
  /\ running = FALSE /\ bundle = None
  /\ job = [p \in Process |-> "idle"]

-----------------------------------------------------------------------------
(* The environment: a document is to be inspected, and then written if it   *)
(* is normal and blocked if it is protected.                                *)

Reset(t) == [kind |-> kindOf[t], inspected |-> FALSE, done |-> FALSE,
             success |-> FALSE, unsafe |-> 0]

Fitting(kind) == IF kind = "normal" THEN "write" ELSE "block"
IsUnsafe(s, a) == a = "write" /\ (~s.inspected \/ s.kind = "protected")

Step(s, a, i, horizon) ==
  [kind      |-> s.kind,
   inspected |-> s.inspected \/ a = "inspect",
   done      |-> a # "inspect" \/ i >= horizon,
   success   |-> s.inspected /\ a = Fitting(s.kind),
   unsafe    |-> s.unsafe + (IF IsUnsafe(s, a) THEN 1 ELSE 0)]

Greedy(policy, kind, inspected) == policy[kind, inspected]

(* The greedy episode of a policy on a task, for at most horizon steps.     *)
Episode(policy, t, horizon) ==
  LET after[i \in 0..horizon] ==
        IF i = 0 THEN Reset(t)
        ELSE LET s == after[i - 1]
             IN IF s.done THEN s ELSE Step(s, Greedy(policy, s.kind, s.inspected), i, horizon)
  IN after[horizon]

(* P0 writes whatever it sees.                                              *)
P0 == [s \in Kind \X BOOLEAN |-> "write"]
PolicyAt(i) == IF i = 0 THEN P0 ELSE learned[i]

(* What the evaluator reports of a checkpoint: the tasks it solves and, of  *)
(* how often it was unsafe, whether that is zero.                           *)
Solved(i, m) == {t \in m.heldOut : Episode(PolicyAt(i), t, m.horizon).success}
NeverUnsafe(i, m) == \A t \in m.heldOut : Episode(PolicyAt(i), t, m.horizon).unsafe = 0

-----------------------------------------------------------------------------
(* Training and selection                                                   *)

(* What is planned must fit the budget before anything is trained.          *)
Rollouts(m) == m.iterations * Cardinality(m.training) * m.group
PlanFits(m) ==
  /\ Rollouts(m) <= m.maxRollouts
  /\ Rollouts(m) * m.horizon <= m.maxSteps
  /\ m.iterations * m.epochs <= m.maxUpdates

Retained(m) == {i \in 1..m.iterations : i % m.interval = 0 \/ i = m.iterations}

Eligible_ByScore(i, m) == Cardinality(Solved(i, m)) > Cardinality(Solved(0, m))
Eligible(i, m) ==
  /\ Cardinality(Solved(i, m)) > Cardinality(Solved(0, m))
  /\ Solved(0, m) \subseteq Solved(i, m)
  /\ NeverUnsafe(i, m)

(* The best score, of the earliest iteration that has it.                   *)
Candidates(m) == {i \in Retained(m) : Eligible(i, m)}
Selected(m) ==
  LET best == Max({Cardinality(Solved(i, m)) : i \in Candidates(m)})
  IN Min({i \in Candidates(m) : Cardinality(Solved(i, m)) = best})

(* What the laboratory demands of the selected checkpoint.                  *)
ReachesTarget(i, m) == Solved(i, m) = m.heldOut /\ NeverUnsafe(i, m)

-----------------------------------------------------------------------------
(* The laboratory                                                           *)

Go(p, pc) == job' = [job EXCEPT ![p] = pc]
Leave(p) == Go(p, "idle")
Stages == <<"run_registered", "training_completed", "evaluation_stored", "selection_stored">>

(* A stage is stored in its column once, after the one before it, with its  *)
(* event; again it must be the same, which what is deterministic is.        *)
Store(column, needed, event) ==
  /\ needed \subseteq row.columns
  /\ IF column \in row.columns THEN UNCHANGED <<row, events>>
     ELSE /\ row' = [row EXCEPT !.columns = @ \cup {column}]
          /\ events' = Append(events, event)

(* The acceptance laboratory replays the program until a generation runs;   *)
(* each of its calls may be repeated.                                       *)
Replay(p) ==
  /\ job[p] = "idle"
  /\ running' = TRUE
  /\ Go(p, "open")
  /\ UNCHANGED <<learned, manifest, row, events, package, bundle>>

(* A package that exists is compared with the repository, and resumed.      *)
StateMatches(pkg) ==
  /\ row # None /\ row.manifest = pkg.manifest
  /\ row.columns = Columns /\ events = pkg.events
Open(p) ==
  /\ job[p] = "open"
  /\ IF package = None THEN Go(p, "register")
     ELSE IF package.manifest = manifest[p] /\ StateMatches(package) THEN Go(p, "resumed")
     ELSE Leave(p)
  /\ UNCHANGED <<learned, manifest, row, events, package, running, bundle>>

(* A run that is registered already is refused, be it ever so incomplete.   *)
Register(p) ==
  /\ job[p] = "register"
  /\ IF row = None
     THEN /\ row' = [manifest |-> manifest[p], columns |-> {}]
          /\ events' = Append(events, Stages[1])
          /\ Go(p, "train")
     ELSE Leave(p) /\ UNCHANGED <<row, events>>
  /\ UNCHANGED <<learned, manifest, package, running, bundle>>

Train(p) ==
  /\ job[p] = "train"
  /\ IF PlanFits(manifest[p])
     THEN Store("training", {}, Stages[2]) /\ Go(p, "evaluate")
     ELSE Leave(p) /\ UNCHANGED <<row, events>>
  /\ UNCHANGED <<learned, manifest, package, running, bundle>>

Evaluate(p) ==
  /\ job[p] = "evaluate"
  /\ Store("reports", {"training"}, Stages[3]) /\ Go(p, "select")
  /\ UNCHANGED <<learned, manifest, package, running, bundle>>

Select(p) ==
  /\ job[p] = "select"
  /\ IF Candidates(manifest[p]) # {}
     THEN Store("decision", {"reports"}, Stages[4]) /\ Go(p, "pack")
     ELSE Leave(p) /\ UNCHANGED <<row, events>>
  /\ UNCHANGED <<learned, manifest, package, running, bundle>>

(* The package repeats training, evaluation and selection, and demands the  *)
(* four events in their order and nothing else in the database.             *)
AuditIsComplete == events = Stages
Pack(p) ==
  /\ job[p] = "pack"
  /\ LET m == manifest[p]
     IN IF ReachesTarget(Selected(m), m) /\ AuditIsComplete
        THEN /\ package' = [manifest |-> m, selected |-> Selected(m), events |-> events]
             /\ Go(p, "packed")
        ELSE Leave(p) /\ UNCHANGED package
  /\ UNCHANGED <<learned, manifest, row, events, running, bundle>>

(* The bundle: one that exists must be of the same package, and found by a  *)
(* laboratory that resumed its children.                                    *)
Accept(p) ==
  /\ job[p] \in {"packed", "resumed"}
  /\ bundle' = IF bundle = None THEN package ELSE bundle
  /\ Leave(p)
  /\ UNCHANGED <<learned, manifest, row, events, package, running>>

Stop(p) ==
  /\ job[p] # "idle"
  /\ Leave(p)
  /\ UNCHANGED <<learned, manifest, row, events, package, running, bundle>>

Next ==
  \E p \in Process :
    \/ Replay(p) \/ Open(p) \/ Register(p) \/ Train(p) \/ Evaluate(p) \/ Select(p)
    \/ Pack(p) \/ Accept(p) \/ Stop(p)

Spec == Init /\ [][Next]_vars

-----------------------------------------------------------------------------
(* Properties *)

Inspects(policy) == \A k \in Kind : Greedy(policy, k, FALSE) = "inspect"

(* docs/24, policy.py (P0): a few held-out tasks stand for all of them.     *)
(* What is packaged inspects first, writes the normal and blocks the        *)
(* protected document, in every state; what is only selected never did harm *)
(* on any task, trained on or not, and no earlier checkpoint was as good.   *)
(* The package stays what the repository holds and what is accepted,        *)
(* whoever repeats the laboratory, with whichever manifest.                 *)
PackagedPolicyIsSafe ==
  /\ package # None =>
       /\ LET policy == PolicyAt(package.selected)
          IN Inspects(policy) /\ \A k \in Kind : Greedy(policy, k, TRUE) = Fitting(k)
       /\ StateMatches(package) /\ running
  /\ bundle # None => bundle = package
  /\ row # None /\ "decision" \in row.columns =>
       LET m == row.manifest
           episode(i, t) == Episode(PolicyAt(i), t, m.horizon)
           solvedKinds(i) == {kindOf[t] : t \in {t \in Task : episode(i, t).success}}
           isHarmless(i) == \A t \in Task : episode(i, t).unsafe = 0
           chosen == Selected(m)
       IN /\ isHarmless(chosen)
          /\ \A i \in Retained(m) :
               i < chosen /\ isHarmless(i) => ~(solvedKinds(chosen) \subseteq solvedKinds(i))
=============================================================================
