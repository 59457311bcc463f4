----------------------------- MODULE ReleaseGate -----------------------------
(***************************************************************************)
(* ReleaseStageGate (src/evoagent/release/policy.py): what a batch of      *)
(* paired observations decides about the stage it was observed in.  A pair *)
(* holds one observation of the incumbent and one of the challenger in one *)
(* segment of the traffic.                                                 *)
(*                                                                         *)
(* Rates and averages over a batch have the same denominator for both      *)
(* snapshots, so that they are compared as sums; ratios of the policy are  *)
(* in percent.  Rounding of floats is left out, and what the seeded        *)
(* bootstrap finds is a choice between the values it can find.             *)
(***************************************************************************)
EXTENDS Integers, Sequences, FiniteSets, FiniteSetsExt

CONSTANTS
  Segment, Protected,       \* the segments of the plan
  IncObservation,           \* observations of the incumbent,
  ChObservation,            \* and of the challenger
  Metric, Latency,          \* latency, tokens, cost
  Missing,                  \* an optional value that was not observed
  MaxPairs,                 \* bound: pairs of a batch
  MinPairs, MinSegmentPairs,\* of the stage
  Required,                 \* require_token_evidence, require_cost_evidence
  MaxUnsafe, MaxRegressed, MaxRegressedPct,  \* of the policy
  MinDeltaPct, MinLowerPct, MaxErrorPct, MaxGrowthPct

GateAssumption ==
  /\ IsFiniteSet(Segment) /\ Segment # {} /\ Protected \subseteq Segment
  /\ Latency \in Metric /\ Required \subseteq Metric \ {Latency}
  /\ IncObservation \cup ChObservation \subseteq
       [success: BOOLEAN, error: BOOLEAN, unsafe: BOOLEAN, use: [Metric -> Nat \cup {Missing}]]
  /\ \A o \in IncObservation \cup ChObservation :
       /\ o.success => ~o.error /\ ~o.unsafe
       /\ o.use[Latency] # Missing
  /\ {MinPairs, MinSegmentPairs} \subseteq Nat \ {0} /\ MaxPairs \in Nat
  /\ {MaxUnsafe, MaxRegressed, MaxRegressedPct, MaxErrorPct, MaxGrowthPct} \subseteq Nat
  /\ {MinDeltaPct, MinLowerPct} \subseteq Int

VARIABLES pc,      \* where evaluate_stage is
          stage,   \* the stage of the batch
          batch,   \* the pairs, in the order of their IDs
          lowerOk, \* whether the lower bound of the bootstrap is high enough
          status, action
vars == <<pc, stage, batch, lowerOk, status, action>>

Stage == {"shadow", "canary", "last"}
Pair == [seg: Segment, inc: IncObservation, ch: ChObservation]
Batch == UNION {[1 .. n -> Pair] : n \in 1 .. MaxPairs}

-----------------------------------------------------------------------------
(* Summaries of a batch b *)

In(b, s) == {i \in DOMAIN b : b[i].seg = s}
Measured(b) == {b[i].seg : i \in DOMAIN b}

Count(b, P(_)) == Cardinality({i \in DOMAIN b : P(b[i])})

(* The successes of the challenger less those of the incumbent, of one pair *)
(* and among the pairs I.                                                   *)
Gain(p) == (IF p.ch.success THEN 1 ELSE 0) - (IF p.inc.success THEN 1 ELSE 0)
Delta(b, I) ==
  Cardinality({i \in I : b[i].ch.success}) - Cardinality({i \in I : b[i].inc.success})

Regressed(b) == {s \in Measured(b) : Delta(b, In(b, s)) < 0}

Errors(b) == LET ch(p) == p.ch.error  inc(p) == p.inc.error
             IN Count(b, ch) - Count(b, inc)
Unsafe(b) == LET ch(p) == p.ch.unsafe IN Count(b, ch)

(* Usage of one snapshot, a sequence u of values: a sum is the number of    *)
(* the units used; p95_latency_ms is the value at index ceil(0.95 n) in     *)
(* ascending order.                                                         *)
Units(u) == UNION {{i} \X (1 .. u[i]) : i \in DOMAIN u}
Total(u) == Cardinality(Units(u))
P95(u) == Min({v \in {u[i] : i \in DOMAIN u} :
                 100 * Cardinality({i \in DOMAIN u : u[i] <= v}) >= 95 * Len(u)})
Usage(m, u) == IF m = Latency THEN P95(u) ELSE Total(u)

Incumbent(b, m) == [i \in DOMAIN b |-> b[i].inc.use[m]]
Challenger(b, m) == [i \in DOMAIN b |-> b[i].ch.use[m]]

Complete(b, m) ==
  \A i \in DOMAIN b : b[i].inc.use[m] # Missing /\ b[i].ch.use[m] # Missing

(* Growth above the ratio of the policy.  From nothing any growth is too    *)
(* much, whatever the ratio.                                                *)
GrowsTooMuch_Swapped(b, m) ==
  /\ Complete(b, m)
  /\ 100 * Usage(m, Incumbent(b, m)) > (100 + MaxGrowthPct) * Usage(m, Challenger(b, m))
GrowsTooMuch(b, m) ==
  /\ Complete(b, m)
  /\ 100 * Usage(m, Challenger(b, m)) > (100 + MaxGrowthPct) * Usage(m, Incumbent(b, m))

(* The resampled means lie between the least and the greatest delta.        *)
LowerBoundOutcomes(b) ==
  {ok \in BOOLEAN :
     LET gains == {Gain(b[i]) : i \in DOMAIN b} IN
     IF ok THEN 100 * Max(gains) >= MinLowerPct ELSE 100 * Min(gains) < MinLowerPct}

-----------------------------------------------------------------------------
(* The three classes of reasons of assess                                   *)

Insufficient(b) ==
  \/ Len(b) < MinPairs
  \/ \E s \in Segment : Cardinality(In(b, s)) < MinSegmentPairs
  \/ \E m \in Required : ~Complete(b, m)

HardFailure(b) ==
  \/ Unsafe(b) > MaxUnsafe
  \/ Regressed(b) \cap Protected # {}
  \/ Cardinality(Regressed(b)) > MaxRegressed
  \/ 100 * Cardinality(Regressed(b)) > MaxRegressedPct * Cardinality(Segment)

ThresholdMissed(b, ok) ==
  \/ 100 * Delta(b, DOMAIN b) < MinDeltaPct * Len(b)
  \/ ~ok
  \/ 100 * Errors(b) > MaxErrorPct * Len(b)
  \/ \E m \in Metric : GrowsTooMuch(b, m)

StatusOf(b, st, ok) ==
  IF Insufficient(b) THEN "hold"
  ELSE IF HardFailure(b) THEN "rollback"
  ELSE IF ThresholdMissed(b, ok) THEN (IF st = "shadow" THEN "hold" ELSE "rollback")
  ELSE "pass"

(* validate_assessment derives the fraction of regressed segments from the  *)
(* segments measured, assess from those of the plan.                        *)
AssessmentIsValid(b) ==
  Cardinality(Regressed(b)) * Cardinality(Segment)
    = Cardinality(Regressed(b)) * Cardinality(Measured(b))

-----------------------------------------------------------------------------
(* evaluate_stage: import a batch, assess it, decide                        *)

Init ==
  /\ pc = "import" /\ stage = "shadow" /\ batch = <<>> /\ lowerOk = FALSE
  /\ status = "none" /\ action = "none"

Import ==
  /\ pc = "import"
  /\ batch' \in Batch /\ stage' \in Stage
  /\ lowerOk' \in LowerBoundOutcomes(batch')
  /\ pc' = "assess" /\ status' = "none" /\ action' = "none"

Assess ==
  /\ pc = "assess"
  /\ IF AssessmentIsValid(batch)
     THEN pc' = "decide" /\ status' = StatusOf(batch, stage, lowerOk)
     ELSE pc' = "raised" /\ UNCHANGED status
  /\ UNCHANGED <<stage, batch, lowerOk, action>>

Decide ==
  /\ pc = "decide"
  /\ action' = CASE status = "hold" -> "hold"
                 [] status = "rollback" -> "rollback"
                 [] status = "pass" -> IF stage = "last" THEN "ready" ELSE "advance"
  /\ pc' = "decided"
  /\ UNCHANGED <<stage, batch, lowerOk, status>>

Next == Import \/ Assess \/ Decide
Spec == Init /\ [][Next]_vars

-----------------------------------------------------------------------------
(* Properties *)

TypeOK ==
  /\ pc \in {"import", "assess", "decide", "decided", "raised"}
  /\ stage \in Stage /\ lowerOk \in BOOLEAN
  /\ batch \in Seq(Pair) /\ Len(batch) <= MaxPairs
  /\ status \in {"none", "hold", "rollback", "pass"}
  /\ action \in {"none", "hold", "rollback", "ready", "advance"}

Favourable == action \in {"advance", "ready"}

(* docs/22, Decision policy: a protected-segment or safety failure cannot   *)
(* be overridden by a better aggregate score.                               *)
FailuresAreNotOverridden ==
  Favourable =>
    /\ Unsafe(batch) <= MaxUnsafe
    /\ \A s \in Protected : Delta(batch, In(batch, s)) >= 0

(* A candidate goes on only with evidence from every segment of the plan,   *)
(* and with every usage it must be compared in; and if some growth came     *)
(* from nothing, it did not go on.                                          *)
EverySegmentIsHeard ==
  Favourable =>
    /\ Measured(batch) = Segment
    /\ \A m \in Required, i \in DOMAIN batch : batch[i].ch.use[m] # Missing
    /\ \A m \in Required : Total(Challenger(batch, m)) > 0 => Total(Incumbent(batch, m)) > 0

(* A batch in which one observation of the challenger is better, and which  *)
(* is otherwise the same, is never decided on more severely.  The resampled *)
(* means are then no lower either.                                          *)
Better(o, than) ==
  /\ than.success => o.success
  /\ o.error => than.error
  /\ o.unsafe => than.unsafe
  /\ \A m \in Metric : IF than.use[m] = Missing THEN o.use[m] = Missing
                       ELSE o.use[m] # Missing /\ o.use[m] <= than.use[m]

Severity(st) == CASE st = "pass" -> 0 [] st = "hold" -> 1 [] st = "rollback" -> 2

BetterIsNotPunished ==
  pc = "decided" =>
    \A i \in DOMAIN batch, o \in ChObservation, ok \in BOOLEAN :
      Better(o, batch[i].ch) /\ (lowerOk => ok) =>
        Severity(StatusOf([batch EXCEPT ![i].ch = o], stage, ok)) <= Severity(status)
=============================================================================
