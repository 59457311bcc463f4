-------------------------- MODULE BenchmarkEvidence --------------------------
(***************************************************************************)
(* src/evoagent/benchmark_evidence: result files of an external benchmark  *)
(* are imported as evidence of runs, runs are compared, and both are       *)
(* packed together with the audit log.                                     *)
(*                                                                         *)
(* A run has a contract, which fixes before it is executed who runs what   *)
(* on which terms.  Evidence, comparisons and packages are values in the   *)
(* memory of whoever calls; the registry keeps what it is given, once.     *)
(* Scores are sums of rewards: with one contract all have one denominator. *)
(* Hashes, times and the limits of files are left out.                     *)
(***************************************************************************)
EXTENDS Integers, Sequences, FiniteSets, FiniteSetsExt

CONSTANTS
  Run, contract,    \* evidence IDs, each with its contract
  order,            \* alphabetical order of agents and evidence IDs
  Task, PerTask,    \* the suite, trials_per_task
  Metric, Missing,  \* tokens, whose totals are there or missing together, and cost;
                    \* an optional value that is not there
  Job,              \* result files
  Request,          \* comparisons that callers ask for
  Checks,           \* what assess_submission_eligibility asks of a contract
  Absent

Contract == [role: {"baseline", "evolved", "comparator"}, by: STRING, family: STRING,
             snapshot: STRING, parent: STRING \cup {Missing}, round: Nat,
             frozen: STRING, attested: SUBSET Checks]

EvidenceAssumption ==
  /\ IsFiniteSet(Task) /\ Task # {} /\ PerTask \in Nat \ {0}
  /\ contract \in [Run -> Contract]
  /\ \A r \in Run : (contract[r].round = 0) <=> (contract[r].parent = Missing)
  /\ order \in [Run -> Nat] /\ \A r, s \in Run : order[r] = order[s] => r = s
  /\ \A q \in Request :
       q.mode \in {"longitudinal", "same_model"} /\ q.ids \subseteq Run /\ IsFiniteSet(q.ids)

VARIABLES parsed,   \* evidence in memory, by run
          runs,     \* benchmark_runs
          reports,  \* benchmark_comparisons
          log,      \* benchmark_audit_events: their contents
          package   \* the package that was last built, or Absent
vars == <<parsed, runs, reports, log, package>>

Comparison == {q.id : q \in Request}

Init ==
  /\ parsed = [r \in Run |-> Absent]
  /\ runs = [r \in Run |-> Absent]
  /\ reports = [c \in Comparison |-> Absent]
  /\ log = {}
  /\ package = Absent

-----------------------------------------------------------------------------
(* The importer: a trial of a job file                                      *)

Errored(t) == t.error # "none"
TrialReward(t) == IF Errored(t) \/ t.reward = Missing THEN 0 ELSE t.reward

SumOf(f, S) == LET at(i) == f[i] IN MapThenSumSet(at, S)

(* A trial has one step or many; a value that one of them lacks is missing. *)
TrialUse(t, m) ==
  IF t.steps = <<>> \/ \E i \in DOMAIN t.steps : t.steps[i][m] = Missing THEN Missing
  ELSE SumOf([i \in DOMAIN t.steps |-> t.steps[i][m]], DOMAIN t.steps)

Of(j, t) == {i \in DOMAIN j.trials : j.trials[i].task = t}
Total(j, m) ==
  LET use == [i \in DOMAIN j.trials |-> TrialUse(j.trials[i], m)]
  IN IF \E i \in DOMAIN use : use[i] = Missing THEN Missing ELSE SumOf(use, DOMAIN use)
Erring(j, kinds) == Cardinality({i \in DOMAIN j.trials : j.trials[i].error \in kinds})

(* _parse_job, and the validators of the evidence it builds.                *)
IsFinished(j) == Len(j.trials) = j.total /\ j.completed = j.total
TotalsAgree(j) ==
  \A m \in Metric : j.declared[m] = Missing \/ Total(j, m) \in {Missing, j.declared[m]}
FollowsContract(j, c) ==
  /\ \A i \in DOMAIN j.trials : j.trials[i].task \in Task /\ j.trials[i].by = c.by
  /\ \A i, k \in DOMAIN j.trials : j.trials[i].name = j.trials[k].name => i = k
  /\ \A t \in Task : Cardinality(Of(j, t)) = PerTask
ErrorsAgree(j) ==
  /\ j.errored = Erring(j, {"failed", "cancelled"})
  /\ j.cancelled = Erring(j, {"cancelled"})
Importable(j, c) ==
  IsFinished(j) /\ TotalsAgree(j) /\ FollowsContract(j, c) /\ ErrorsAgree(j)

Evidence(j) ==
  [file |-> j.file,
   score |-> [t \in Task |->
                SumOf([i \in Of(j, t) |-> TrialReward(j.trials[i])], Of(j, t))],
   errors |-> Erring(j, {"failed", "cancelled"}),
   use |-> [m \in Metric |-> Total(j, m)]]
Score(e) == SumOf(e.score, Task)

-----------------------------------------------------------------------------
(* BenchmarkComparator, over the evidence E of the runs ids                 *)

Less(a, b) == IF a = Missing \/ b = Missing THEN Missing ELSE a - b
Differences(d) == [more |-> Cardinality({t \in Task : d[t] > 0}),
                   less |-> Cardinality({t \in Task : d[t] < 0}),
                   same |-> Cardinality({t \in Task : d[t] = 0})]
TaskDeltas(e, than) == [t \in Task |-> e.score[t] - than.score[t]]
UseDeltas(e, than) == [m \in Metric |-> Less(e.use[m], than.use[m])]

Frozen(ids) == \A r, s \in ids : contract[r].frozen = contract[s].frozen

(* A0 ... AN: one family whose rounds follow one another.                   *)
AreRounds(ids) ==
  /\ Cardinality(ids) >= 2
  /\ {contract[r].round : r \in ids} = 0 .. Cardinality(ids) - 1
  /\ \A r \in ids : contract[r].role = IF contract[r].round = 0 THEN "baseline" ELSE "evolved"
  /\ \A r, s \in ids : contract[r].family = contract[s].family
  /\ \A r, s \in ids : contract[s].round = contract[r].round + 1 =>
                         contract[s].parent = contract[r].snapshot
  /\ Frozen(ids)

Longitudinal(q, E) ==
  LET At(n) == CHOOSE r \in q.ids : contract[r].round = n
      last == Cardinality(q.ids) - 1
      first == E[At(0)]  final == E[At(last)]
      best == Max({Score(E[r]) : r \in q.ids})
  IN [id |-> q.id, mode |-> q.mode, ids |-> q.ids,
      points |-> [r \in q.ids |-> [score |-> Score(E[r]), errors |-> E[r].errors,
                                   use |-> E[r].use]],
      deltas |-> [r \in q.ids \ {At(0)} |-> TaskDeltas(E[r], first)],
      best |-> Min({contract[r].round : r \in {s \in q.ids : Score(E[s]) = best}}),
      tasks |-> Differences(TaskDeltas(final, first)),
      downward |-> Cardinality({n \in 1 .. last : Score(E[At(n)]) < Score(E[At(n - 1)])}),
      errors |-> final.errors - first.errors,
      use |-> UseDeltas(final, first)]

(* Agents that differ, on one model and one contract.                       *)
AreAgents(ids, anchor) ==
  /\ Cardinality(ids) >= 2 /\ anchor \in ids
  /\ Frozen(ids)
  /\ \A r, s \in ids : r # s => <<contract[r].family, contract[r].by, contract[r].snapshot>>
                                 # <<contract[s].family, contract[s].by, contract[s].snapshot>>

Before(r, s, E) ==
  \/ Score(E[r]) > Score(E[s])
  \/ /\ Score(E[r]) = Score(E[s])
     /\ \/ E[r].errors < E[s].errors
        \/ E[r].errors = E[s].errors /\ order[r] < order[s]
SameModel(q, E) ==
  [id |-> q.id, mode |-> q.mode, ids |-> q.ids, anchor |-> q.anchor,
   ranking |-> [r \in q.ids |-> [rank |-> 1 + Cardinality({s \in q.ids : Before(s, r, E)}),
                                 score |-> Score(E[r]), errors |-> E[r].errors,
                                 use |-> E[r].use]],
   pairwise |-> [r \in q.ids \ {q.anchor} |->
                   [tasks |-> Differences(TaskDeltas(E[q.anchor], E[r])),
                    score |-> Score(E[q.anchor]) - Score(E[r]),
                    errors |-> E[q.anchor].errors - E[r].errors,
                    use |-> UseDeltas(E[q.anchor], E[r])]]]

IsComparable(q) ==
  IF q.mode = "longitudinal" THEN AreRounds(q.ids) ELSE AreAgents(q.ids, q.anchor)
Compared(q, E) ==
  IF q.mode = "longitudinal" THEN Longitudinal(q, E) ELSE SameModel(q, E)

(* assess_submission_eligibility: coverage is the importer's.               *)
Prerequisites(r) == [met |-> contract[r].attested = Checks,
                     missing |-> Checks \ contract[r].attested]

-----------------------------------------------------------------------------
(* The registry                                                             *)

ImportFile(r, j) ==
  /\ Importable(j, contract[r])
  /\ parsed' = [parsed EXCEPT ![r] = Evidence(j)]
  /\ UNCHANGED <<runs, reports, log, package>>

Imported(r, e) == [type |-> "run_imported", subject |-> r, payload |-> e]
Stored(report) == [type |-> report.mode, subject |-> report.id, payload |-> report]

(* An ID that is taken returns what is stored, or raises if that differs.   *)
ImportRun(r) ==
  /\ parsed[r] # Absent /\ runs[r] = Absent
  /\ runs' = [runs EXCEPT ![r] = parsed[r]]
  /\ log' = log \cup {Imported(r, parsed[r])}
  /\ UNCHANGED <<parsed, reports, package>>

(* Neither the comparator nor the registry asks where the evidence is from. *)
StoreComparison(q) ==
  /\ reports[q.id] = Absent
  /\ \A r \in q.ids : parsed[r] # Absent
  /\ IsComparable(q)
  /\ LET report == Compared(q, parsed) IN
     /\ reports' = [reports EXCEPT ![q.id] = report]
     /\ log' = log \cup {Stored(report)}
  /\ UNCHANGED <<parsed, runs, package>>

(* verify_state: the runs of a comparison are there, whatever they say.     *)
StateVerifies ==
  \A c \in Comparison : reports[c] # Absent => \A r \in reports[c].ids : runs[r] # Absent

-----------------------------------------------------------------------------
(* BenchmarkComparisonPackageManager                                        *)

Requested(report) ==
  CHOOSE q \in Request : q.id = report.id /\ q.mode = report.mode
RecomputesTo_IfPresent(report, E) == report.ids \subseteq DOMAIN E
RecomputesTo(report, E) ==
  /\ report.ids \subseteq DOMAIN E
  /\ report = Compared(Requested(report), E)

EventsOf(p, types) == {e \in p.log : e.type \in types}
AuditAgrees(p) ==
  /\ EventsOf(p, {"run_imported"}) = {Imported(r, p.runs[r]) : r \in DOMAIN p.runs}
  /\ EventsOf(p, {"longitudinal", "same_model"}) = {Stored(p.longitudinal), Stored(p.sameModel)}

PackageVerifies(p) ==
  /\ DOMAIN p.runs # {}
  /\ RecomputesTo(p.longitudinal, p.runs)
  /\ RecomputesTo(p.sameModel, p.runs)
  /\ p.eligible = [r \in DOMAIN p.runs |-> Prerequisites(r)]
  /\ AuditAgrees(p)

Packed(E, long, same) ==
  [runs |-> E, longitudinal |-> long, sameModel |-> same,
   eligible |-> [r \in DOMAIN E |-> Prerequisites(r)], log |-> log]

(* Someone packs the evidence of some runs, of the registry or from memory. *)
Build(ids, E, long, same) ==
  /\ \A r \in ids : E[r] # Absent
  /\ LET p == Packed([r \in ids |-> E[r]], long, same) IN
     PackageVerifies(p) /\ package' = p
  /\ UNCHANGED <<parsed, runs, reports, log>>

BuildAny ==
  \E c, d \in Comparison :
    /\ reports[c] # Absent /\ reports[c].mode = "longitudinal"
    /\ reports[d] # Absent /\ reports[d].mode = "same_model"
    /\ \E ids \in SUBSET Run, E \in {runs, parsed} : Build(ids, E, reports[c], reports[d])

Next ==
  \/ \E r \in Run : (\E j \in Job : ImportFile(r, j)) \/ ImportRun(r)
  \/ \E q \in Request : StoreComparison(q)
  \/ BuildAny

Spec == Init /\ [][Next]_vars

-----------------------------------------------------------------------------
(* Properties *)

(* A package tells the truth about the registry: its runs are those that    *)
(* were imported, whole and unchanged, and its comparisons are those of     *)
(* this evidence and the only ones that were ever stored, although whoever  *)
(* compares, stores and packs may hold evidence of another file.            *)
IsDerived(report, E) == report = Compared(Requested(report), E)
PackagesAreDerived ==
  package # Absent =>
    /\ \A r \in DOMAIN package.runs : package.runs[r] = runs[r]
    /\ \A e \in package.log : e.type = "run_imported" => e.subject \in DOMAIN package.runs
    /\ IsDerived(package.longitudinal, runs) /\ IsDerived(package.sameModel, runs)
    /\ \A e \in package.log : e.type # "run_imported" =>
         e.payload \in {package.longitudinal, package.sameModel}

(* A registry with one comparison of each kind, both of its own evidence,   *)
(* can be packed.                                                           *)
HonestRegistryIsPackaged ==
  \A c, d \in Comparison :
    /\ \A x \in Comparison : reports[x] # Absent <=> x \in {c, d}
    /\ StateVerifies
    /\ reports[c].mode = "longitudinal" /\ IsDerived(reports[c], runs)
    /\ reports[d].mode = "same_model" /\ IsDerived(reports[d], runs)
    => LET stored == {r \in Run : runs[r] # Absent} IN
       PackageVerifies(Packed([r \in stored |-> runs[r]], reports[c], reports[d]))
=============================================================================
