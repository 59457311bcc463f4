----------------------------- MODULE ChampionGate -----------------------------
(***************************************************************************)
(* ChampionPromotionGate (src/evoagent/champion/policy.py): which of the   *)
(* evolved rounds of a benchmark package, if any, is to succeed the        *)
(* baseline, and whether evolution should go on.                           *)
(*                                                                         *)
(* Evidence is what BenchmarkEvidence derives of a run: the sum of rewards *)
(* of each task, the trials with an error, and the use of tokens and of    *)
(* money.  Averages over the tasks are compared as sums, and growth is in  *)
(* percent.  The seed is fixed, so that the bootstrap is a function of the *)
(* evidence; here it is a choice of one of the means it can find.          *)
(***************************************************************************)
EXTENDS Integers, FiniteSets

CONSTANTS
  Task, Rounds,               \* the suite; the number of evolved rounds
  BaselineEvidence, RoundEvidence,
  Comparator,                 \* what a comparison with another agent may say
  Metric, Cost, Missing,
  MinGain, MinLower, MaxRegressed, MaxRegressedPct, MaxErrors,  \* of the policy
  MaxGrowthPct, Required, AllowNonFinal, Patience,
  RequireComparator, MaxRank, MinPairDelta, MaxLosses

GateAssumption ==
  /\ IsFiniteSet(Task) /\ Task # {} /\ Rounds \in Nat \ {0} /\ Missing \notin Nat
  /\ BaselineEvidence \cup RoundEvidence \subseteq
       [score: [Task -> Nat], errors: Nat, use: [Metric -> Nat \cup {Missing}]]
  /\ Comparator \subseteq [rank: Nat \ {0}, delta: Int, losses: Nat, pairs: Nat \ {0}]
  /\ Cost \in Metric /\ Required \subseteq Metric
  /\ {AllowNonFinal, RequireComparator} \subseteq BOOLEAN
  /\ {MaxRegressed, MaxRegressedPct, MaxErrors, MaxGrowthPct, Patience, MaxRank, MaxLosses}
       \subseteq Nat
  /\ {MinGain, MinLower, MinPairDelta} \subseteq Int

VARIABLES pc, base,
          round,    \* the evidence of each evolved round
          lower,    \* the lower bounds that the bootstrap finds
          against,  \* the comparator report of each round, or Missing
          status, decision
vars == <<pc, base, round, lower, against, status, decision>>

Round == 1 .. Rounds
NoDecision == [action |-> "none"]

-----------------------------------------------------------------------------
(* _assess_round: evidence e against b, with lower bound l and comparator c *)

(* A sum is the number of the units that it is made of.                     *)
Units(e) == UNION {{t} \X (1 .. e.score[t]) : t \in Task}
Total(e) == Cardinality(Units(e))
Delta(b, e, t) == e.score[t] - b.score[t]
Gain(b, e) == Total(e) - Total(b)
Regressed(b, e) == Cardinality({t \in Task : Delta(b, e, t) < 0})

(* Resampled means lie between the delta of one task and that of another.   *)
LowerBounds(b, e) ==
  LET bound(t) == Cardinality(Task) * Delta(b, e, t)
  IN UNION {bound(t) .. bound(u) : t, u \in Task}

IsComplete(b, e, m) == b.use[m] # Missing /\ e.use[m] # Missing
IsUnbounded(b, e, m) == IsComplete(b, e, m) /\ b.use[m] = 0 /\ e.use[m] > 0
GrowsTooMuch(b, e, m) ==
  \/ IsUnbounded(b, e, m)
  \/ IsComplete(b, e, m) /\ 100 * e.use[m] > (100 + MaxGrowthPct) * b.use[m]

Worse(c) == c.rank > MaxRank \/ c.delta < MinPairDelta \/ c.losses > MaxLosses

HardReason(b, e, r, c) ==
  \/ Gain(b, e) < MinGain
  \/ Regressed(b, e) > MaxRegressed
  \/ 100 * Regressed(b, e) > MaxRegressedPct * Cardinality(Task)
  \/ e.errors - b.errors > MaxErrors
  \/ \E m \in Metric : GrowsTooMuch(b, e, m)
  \/ ~AllowNonFinal /\ r # Rounds
  \/ RequireComparator /\ c # Missing /\ Worse(c)

Insufficient(b, e, l, c) ==
  \/ l < MinLower
  \/ \E m \in Required : ~IsComplete(b, e, m)
  \/ RequireComparator /\ c = Missing

StatusOf(b, e, r, l, c) ==
  IF HardReason(b, e, r, c) THEN "rejected"
  ELSE IF Insufficient(b, e, l, c) THEN "insufficient" ELSE "eligible"

(* The report of a comparison with more than one other agent is refused.    *)
ComparatorIsUsable(c) == c = Missing \/ c.pairs = 1

-----------------------------------------------------------------------------
(* evaluate *)

(* The growth of cost, compared as cross products; without a ratio it is    *)
(* infinite.                                                                *)
HasRatio(b, e) == IsComplete(b, e, Cost) /\ ~IsUnbounded(b, e, Cost)
CheaperThan_UnknownIsFree(b, e, f) ==
  /\ HasRatio(b, f)
  /\ ~HasRatio(b, e) \/ e.use[Cost] < f.use[Cost]
CheaperThan(b, e, f) ==
  /\ HasRatio(b, e)
  /\ ~HasRatio(b, f) \/ e.use[Cost] < f.use[Cost]
CostsAlike(b, e, f) == ~CheaperThan(b, e, f) /\ ~CheaperThan(b, f, e)

(* _selection_key, as an order on rounds p and q.                           *)
Precedes(b, E, L, p, q) ==
  LET e == E[p]  f == E[q] IN
  \/ Total(e) > Total(f)
  \/ Total(e) = Total(f) /\
     \/ L[p] > L[q]
     \/ L[p] = L[q] /\
        \/ Regressed(b, e) < Regressed(b, f)
        \/ Regressed(b, e) = Regressed(b, f) /\
           (CheaperThan(b, e, f) \/ (CostsAlike(b, e, f) /\ p < q))

Statuses(b, E, L, C) == [r \in Round |-> StatusOf(b, E[r], r, L[r], C[r])]

(* Evolution stops once a later round was rejected, or several have failed  *)
(* to do better.                                                            *)
MayContinue(st, s) ==
  LET later == s + 1 .. Rounds IN
  /\ \A r \in later : st[r] # "rejected"
  /\ s = Rounds \/ Cardinality(later) < Patience

Decide(b, E, L, st) ==
  LET eligible == {r \in Round : st[r] = "eligible"} IN
  IF eligible # {}
  THEN LET s == CHOOSE p \in eligible : \A q \in eligible : p = q \/ Precedes(b, E, L, p, q)
       IN [action |-> "promote", selected |-> s,
           stop |-> IF MayContinue(st, s) THEN "continue" ELSE "stop"]
  ELSE IF \E r \in Round : st[r] = "insufficient"
       THEN [action |-> "hold", selected |-> 0, stop |-> "hold"]
       ELSE [action |-> "reject", selected |-> 0, stop |-> "stop"]

Init ==
  /\ pc = "open" /\ base \in BaselineEvidence
  /\ round = [r \in Round |-> base] /\ lower = [r \in Round |-> 0]
  /\ against = [r \in Round |-> Missing]
  /\ status = [r \in Round |-> "none"] /\ decision = NoDecision

(* A package is verified; its rounds come one by one.                       *)
Open ==
  /\ pc = "open"
  /\ round' \in [Round -> RoundEvidence]
  /\ lower' \in [Round -> UNION {LowerBounds(base, e) : e \in RoundEvidence}]
  /\ \A r \in Round : lower'[r] \in LowerBounds(base, round'[r])
  /\ against' \in [Round -> Comparator \cup {Missing}]
  /\ pc' = IF \A r \in Round : ComparatorIsUsable(against'[r]) THEN "assess" ELSE "raised"
  /\ UNCHANGED <<base, status, decision>>

Assess ==
  /\ pc = "assess"
  /\ status' = Statuses(base, round, lower, against)
  /\ pc' = "decide"
  /\ UNCHANGED <<base, round, lower, against, decision>>

Evaluate ==
  /\ pc = "decide"
  /\ decision' = Decide(base, round, lower, status)
  /\ pc' = "decided"
  /\ UNCHANGED <<base, round, lower, against, status>>

Next == Open \/ Assess \/ Evaluate
Spec == Init /\ [][Next]_vars

-----------------------------------------------------------------------------
(* Properties *)

(* e is at least as good as f in everything that is measured.               *)
AsGood(e, f) ==
  /\ \A t \in Task : e.score[t] >= f.score[t]
  /\ e.errors <= f.errors
  /\ \A m \in Metric : IF f.use[m] = Missing THEN e.use[m] = Missing
                       ELSE e.use[m] # Missing /\ e.use[m] <= f.use[m]

Severity(st) == CASE st = "eligible" -> 0 [] st = "insufficient" -> 1 [] st = "rejected" -> 2

(* The cost of e is known where that of f is, and it is not higher.         *)
CostKnown(e) == e.use[Cost] # Missing /\ base.use[Cost] # Missing
NotDearer(e, f) == CostKnown(f) => CostKnown(e) /\ e.use[Cost] <= f.use[Cost]

(* A round qualifies if it was found eligible; and it must have been if it  *)
(* measures as well as the promoted round s in everything.                  *)
Qualifies(r, s) ==
  \/ status[r] = "eligible"
  \/ AsGood(round[r], round[s]) /\ against[r] = against[s] /\ AllowNonFinal

(* A round that qualifies, scores as much as the promoted one in every      *)
(* task, has as good a bound and is not dearer is no better in any of these *)
(* and came later; a round of unknown cost is dearer than one whose cost is *)
(* known.  Errors and tokens decide who is eligible, and rank nobody.  A    *)
(* round that does better than it did, all else unchanged, is not judged    *)
(* more severely, and is still the one promoted if it was.                  *)
SelectionIsEarned ==
  pc = "decided" =>
    /\ decision.action = "promote" =>
         LET s == decision.selected IN
         \A r \in Round :
           /\ Qualifies(r, s) /\ lower[r] >= lower[s] /\ NotDearer(round[r], round[s])
           /\ \A t \in Task : round[r].score[t] >= round[s].score[t]
           => /\ round[r].score = round[s].score /\ lower[r] = lower[s]
              /\ NotDearer(round[s], round[r]) /\ s <= r
    /\ \A r \in Round, e \in RoundEvidence :
         AsGood(e, round[r]) =>
           \A l \in LowerBounds(base, e) :
             (l >= lower[r] /\ (Total(e) = Total(round[r]) => l = lower[r])) =>
               LET E == [round EXCEPT ![r] = e]
                   L == [lower EXCEPT ![r] = l]
                   st == Statuses(base, E, L, against)
               IN /\ Severity(st[r]) <= Severity(status[r])
                  /\ decision.action = "promote" /\ decision.selected = r =>
                       Decide(base, E, L, st).selected = r

(* docs/21: the regressions and the growth of what was promoted are within  *)
(* the policy, and so is what was not measured: nothing that grew from      *)
(* nothing, no required use that is unknown, is promoted.                   *)
NothingIsHidden ==
  pc = "decided" /\ decision.action = "promote" =>
    LET e == round[decision.selected] IN
    /\ \A m \in Required : e.use[m] # Missing /\ base.use[m] # Missing
    /\ \A m \in Metric : e.use[m] # Missing /\ base.use[m] = 0 => e.use[m] = 0
=============================================================================
