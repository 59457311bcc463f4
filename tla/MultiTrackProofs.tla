--------------------------- MODULE MultiTrackProofs ---------------------------
(***************************************************************************)
(* Proofs about MultiTrack: whatever processes run, stop or are called     *)
(* again at once, and however often other people move the components, a    *)
(* committed child binds versions that were live together, and the one     *)
(* that moved is what its executor promoted; a run that has ended agrees   *)
(* with its lineage; and no file fails to verify.                          *)
(*                                                                         *)
(* The files only grow and revisions only rise (Extends), and a revision   *)
(* names one version (a fact of the history of pairs).  So what a process  *)
(* knows about the past stays true (JobIsStable), and two readings of a    *)
(* revision that agree enclose a time in which the component stood still.  *)
(*                                                                         *)
(* At the end, about Supervisor: what its processes execute, and what a    *)
(* run is like that has ended.                                             *)
(***************************************************************************)
EXTENDS MultiTrack, FiniteSetTheorems, TLAPS

Rounds == 0 .. 2
Pair == [skill: Binding, policy: Binding]

-----------------------------------------------------------------------------
(* What can be known of a round.                                            *)

Reached(r) == r \in Rounds /\ Len(snapshots) > r
Evaluated(r) == r \in Rounds /\ Len(evaluations) > r /\ evaluations[r + 1] = Scores(r)
Working(r) == r \in {1, 2} /\ Evaluated(r - 1) /\ Len(decisions) >= r

(* The first evaluation was derived while the skill of the first snapshot   *)
(* was live, at its revision or later.                                      *)
Matched ==
  \E x \in pairs : x.skill.v = snapshots[1].skill.v /\ x.skill.rev >= snapshots[1].skill.rev

(* The executor of the round has promoted: the skill after the first        *)
(* snapshot, the policy as its first revision.                              *)
EvolvedBy(rev) ==
  \E x \in pairs : x.skill.v = Evolved /\ x.skill.rev <= rev
                   /\ snapshots[1].skill.rev < x.skill.rev
Promotion(r) ==
  /\ Len(snapshots) >= r
  /\ r = 1 => EvolvedBy(live.skill.rev)
  /\ r = 2 => /\ snapshots[2].policy.rev <= 1
              /\ \E x \in pairs : x.policy.v = Evolved /\ x.policy.rev = 1
HasResult(r) == \E result \in results : result.track = Component(r)

-----------------------------------------------------------------------------
(* The parts of the inductive invariant.                                    *)

(* Revisions rise, and each names one version.                              *)
PairsInv ==
  /\ pairs \subseteq Pair /\ live \in pairs
  /\ \A x \in pairs : x.skill.rev <= live.skill.rev /\ x.policy.rev <= live.policy.rev
  /\ \A x, y \in pairs : /\ x.skill.rev = y.skill.rev => x.skill = y.skill
                         /\ x.policy.rev = y.policy.rev => x.policy = y.policy

SnapshotsInv ==
  /\ Len(snapshots) <= 3
  /\ \A i \in 1 .. Len(snapshots) :
       /\ snapshots[i].round = i - 1
       /\ snapshots[i].skill.rev <= live.skill.rev
       /\ snapshots[i].policy.rev <= live.policy.rev
  /\ \A i \in 2 .. Len(snapshots) :
       /\ Changed(snapshots[i - 1], snapshots[i], Component(i - 1))
       /\ snapshots[i][Component(i - 1)].v = Evolved
       /\ [skill |-> snapshots[i].skill, policy |-> snapshots[i].policy] \in pairs
       /\ HasResult(i - 1)

EvaluationsInv ==
  /\ Len(evaluations) <= Len(snapshots) /\ Len(snapshots) <= Len(evaluations) + 1
  /\ \A i \in 1 .. Len(evaluations) : evaluations[i] = Outcome(snapshots[i])
  /\ Len(evaluations) >= 1 => Matched

DecisionsInv ==
  /\ decisions \in Seq([action: Actions, cases: SUBSET Case])
  /\ Len(decisions) <= Len(evaluations) /\ Len(evaluations) <= Len(decisions) + 1
  /\ \A i \in 1 .. Len(decisions) :
       /\ decisions[i].action # "continue" => i = Len(evaluations)
       /\ decisions[i].action = "stop" => evaluations[i].skill /\ evaluations[i].policy

(* One result of a track, of what its executor promoted.                    *)
ResultsInv ==
  /\ IsFiniteSet(results)
  /\ \A r, s \in results : r.track = s.track => r = s
  /\ \A r \in results : r.v = Evolved
  /\ \A r \in {1, 2} : HasResult(r) => Promotion(r)
  /\ run = NoRun => results = {} /\ \A c \in Case : cases[c] = "absent"

(* A run ends when its last round was decided.                              *)
EndInv ==
  run # NoRun /\ ~Mutable =>
    /\ Len(decisions) = 3
    /\ (decisions[3].action = "stop") = (run.status = "stopped")
    /\ run.status = "stopped" => Pending(Tracks) = {}

(* What a process that reads the components has read.  The second reading,  *)
(* before a commit, began with x live and found y's policy later.           *)
Value == Version \cup Nat
ReadJob ==
  [pc: {"read", "register", "child", "commit"}, next: {"register", "child", "commit"},
   round: Rounds, man: Manifest \cup {NoManifest}, reads: Seq(Value)]

ReadsAreTyped(p) ==
  LET r == job[p].reads IN
  /\ job[p] \in ReadJob
  /\ job[p].pc = "read" => Len(r) < 4
  /\ job[p].pc # "read" => Len(r) = 4 /\ job[p].next = job[p].pc
  /\ Len(r) >= 1 => r[1] \in Version
  /\ Len(r) >= 2 => r[2] \in Nat /\ r[2] <= live.skill.rev
  /\ Len(r) >= 3 => r[3] \in Version
  /\ Len(r) >= 4 => r[4] \in Nat /\ r[4] <= live.policy.rev

AgreesWith(history, r, m) ==
  Len(r) >= 1 =>
    \E x \in history :
      /\ x.skill.v = r[1] /\ m.skill.rev <= x.skill.rev /\ m.policy.rev <= x.policy.rev
      /\ Len(r) >= 2 => x.skill.rev <= r[2]
      /\ Len(r) >= 3 => \E y \in history : /\ y.policy.v = r[3] /\ x.policy.rev <= y.policy.rev
                                           /\ Len(r) >= 4 => y.policy.rev <= r[4]
ReadAgain(p) == AgreesWith(pairs, job[p].reads, job[p].man)

(* The child was built upon the snapshot of its round.                      *)
ManifestInv(p) ==
  LET m == job[p].man IN
  /\ m \in Manifest
  /\ m.round >= job[p].round /\ m.round <= Len(snapshots)
  /\ Changed(snapshots[m.round], m, Component(job[p].round))
  /\ m.skill.rev <= live.skill.rev /\ m.policy.rev <= live.policy.rev
  /\ job[p].round = 1 => EvolvedBy(m.skill.rev)

ReadInv(p) ==
  job[p].pc \in {"read", "register", "child", "commit"} =>
    /\ ReadsAreTyped(p)
    /\ job[p].next # "commit" => job[p].man = NoManifest
    /\ job[p].next = "register" => job[p].round = 0
    /\ job[p].next # "register" => Working(job[p].round) /\ HasResult(job[p].round)
    /\ job[p].next = "child" /\ job[p].round = 1 /\ Len(job[p].reads) >= 2 =>
         EvolvedBy(job[p].reads[2])
    /\ job[p].next = "commit" => ManifestInv(p) /\ ReadAgain(p)

(* Whoever records an evaluation derived it from the snapshot of its round, *)
(* and no later snapshot had been made by then.                             *)
EvaluationInv(p) ==
  job[p].pc = "record_evaluation" =>
    /\ Reached(job[p].round)
    /\ job[p].outcome = Outcome(snapshots[job[p].round + 1])
    /\ job[p].round = 0 => Matched
    /\ job[p].created \subseteq Manifest \cup {NoManifest}
    /\ \A c \in job[p].created :
         job[p].round < c.round /\ c.round <= 2 =>
           job[p].round = 1 /\ c.round = 2 /\ c.skill # snapshots[2].skill

WorkInv(p) ==
  /\ job[p].pc = "create" => job[p].round = 0
  /\ job[p].pc = "evaluate" => Reached(job[p].round)
  /\ job[p].pc = "admit" => job[p].round = 0
  /\ job[p].pc \in {"admit", "decide", "record_decision"} => Evaluated(job[p].round)
  /\ job[p].pc = "record_decision" => job[p].pending \subseteq Case
  /\ job[p].pc \in {"intervene", "claim", "execute", "executed", "record", "build"} =>
       Working(job[p].round)
  /\ job[p].pc = "claim" => job[p].plan.cases \subseteq Case
  /\ job[p].pc \in {"execute", "executed"} => job[p].cases \subseteq Case
  /\ job[p].pc = "execute" =>
       job[p] = [pc |-> "execute", round |-> job[p].round, cases |-> job[p].cases,
                 mine |-> job[p].mine]
  /\ job[p].pc \in {"executed", "record"} => Promotion(job[p].round)
  /\ job[p].pc = "record" =>
       /\ job[p].result \in [track: Tracks, cases: SUBSET Case, v: Version]
       /\ job[p].result.track = Component(job[p].round) /\ job[p].result.v = Evolved
  /\ job[p].pc \in {"complete", "complete_run"} => Len(decisions) >= 3
  /\ job[p].pc = "complete_run" =>
       job[p].action = decisions[3].action /\ job[p].action # "continue"

JobInv(p) == ReadInv(p) /\ EvaluationInv(p) /\ WorkInv(p)

FilesInv ==
  /\ TypeOK
  /\ PairsInv /\ SnapshotsInv /\ EvaluationsInv /\ DecisionsInv
  /\ ResultsInv /\ RunVerifies /\ EndInv
IInv == FilesInv /\ DOMAIN job = Process /\ \A p \in Process : JobInv(p)

-----------------------------------------------------------------------------
(* Only the files that the step of a process extends change what it knows.  *)

Longer(s, t) == Len(s) <= Len(t) /\ \A i \in 1 .. Len(s) : t[i] = s[i]
Extends ==
  /\ pairs \subseteq pairs' /\ results \subseteq results'
  /\ live.skill.rev <= live'.skill.rev /\ live.policy.rev <= live'.policy.rev
  /\ Longer(snapshots, snapshots')
  /\ Longer(evaluations, evaluations')
  /\ Longer(decisions, decisions')

(* The types that the proofs use of the variables of the files.             *)
LEMMA Types ==
  ASSUME FilesInv
  PROVE  /\ live \in Pair /\ live.skill.rev \in Nat /\ live.policy.rev \in Nat
         /\ snapshots \in Seq(Manifest) /\ Len(snapshots) \in Nat
         /\ \A i \in 1 .. Len(snapshots) : snapshots[i] \in Manifest
         /\ evaluations \in Seq([skill: BOOLEAN, policy: BOOLEAN]) /\ Len(evaluations) \in Nat
         /\ decisions \in Seq([action: Actions, cases: SUBSET Case]) /\ Len(decisions) \in Nat
         /\ results \subseteq [track: Tracks, cases: SUBSET Case, v: Version]
         /\ \A x \in pairs : x \in Pair /\ x.skill.rev \in Nat /\ x.policy.rev \in Nat
  BY DEF FilesInv, TypeOK, LineageTypeOK, RunTypeOK, DecisionsInv, PairsInv, Pair, Binding

LEMMA TypesNext ==
  ASSUME FilesInv'
  PROVE  /\ live' \in Pair /\ live'.skill.rev \in Nat /\ live'.policy.rev \in Nat
         /\ snapshots' \in Seq(Manifest) /\ Len(snapshots') \in Nat
         /\ Len(evaluations') \in Nat /\ Len(decisions') \in Nat
  BY DEF FilesInv, TypeOK, LineageTypeOK, RunTypeOK, DecisionsInv, PairsInv, Pair, Binding

(* What was reached, evaluated, worked on or promoted stays so.             *)
LEMMA KnowledgeIsStable ==
  ASSUME FilesInv, Extends, NEW r,
         live'.skill.rev \in Nat, Len(snapshots') \in Nat, Len(evaluations') \in Nat,
         Len(decisions') \in Nat
  PROVE  /\ Reached(r) => Reached(r)'
         /\ Evaluated(r) => Evaluated(r)'
         /\ Working(r) => Working(r)'
         /\ HasResult(r) => HasResult(r)'
         /\ Len(snapshots) >= 1 /\ Matched => Matched'
         /\ Len(snapshots) >= 1 /\ EvolvedBy(r) => EvolvedBy(r)'
         /\ Promotion(r) /\ r \in {1, 2} => Promotion(r)'
<1>t. /\ live.skill.rev \in Nat /\ live'.skill.rev \in Nat
      /\ Len(snapshots) \in Nat /\ Len(snapshots') \in Nat
      /\ Len(evaluations) \in Nat /\ Len(evaluations') \in Nat
      /\ Len(decisions) \in Nat /\ Len(decisions') \in Nat
      /\ \A x \in pairs : x.skill.rev \in Nat /\ x.policy.rev \in Nat
  BY Types
<1>1. Reached(r) => Reached(r)'
  BY <1>t DEF Reached, Extends, Longer, Rounds
<1>2. ASSUME NEW q, Evaluated(q) PROVE Evaluated(q)'
  <2>1. q \in 0 .. 2 /\ q + 1 \in 1 .. Len(evaluations)
    BY <1>t, <1>2 DEF Evaluated, Rounds
  <2>2. evaluations'[q + 1] = evaluations[q + 1] /\ Len(evaluations') > q
    BY <1>t, <2>1 DEF Extends, Longer
  <2> QED
    BY <1>2, <2>2 DEF Evaluated, Rounds
<1>3. Working(r) => Working(r)'
  BY <1>t, <1>2 DEF Working, Extends, Longer
<1>4. HasResult(r) => HasResult(r)'
  BY DEF HasResult, Extends
<1>5. Len(snapshots) >= 1 => snapshots'[1] = snapshots[1]
  BY <1>t DEF Extends, Longer
<1>6. Len(snapshots) >= 1 /\ Matched => Matched'
  BY <1>5 DEF Matched, Extends
<1>7. ASSUME NEW q, Len(snapshots) >= 1, EvolvedBy(q) PROVE EvolvedBy(q)'
  BY <1>5, <1>7 DEF EvolvedBy, Extends
<1>8. ASSUME Promotion(r), r \in {1, 2} PROVE Promotion(r)'
  <2>1. Len(snapshots') >= r
    BY <1>t, <1>8 DEF Promotion, Extends, Longer
  <2>2. ASSUME r = 1 PROVE EvolvedBy(live.skill.rev)'
    <3>1. Len(snapshots) >= 1
      BY <1>8, <2>2 DEF Promotion
    <3>2. PICK x \in pairs : /\ x.skill.v = Evolved /\ x.skill.rev <= live.skill.rev
                             /\ snapshots[1].skill.rev < x.skill.rev
      BY <1>8, <2>2 DEF Promotion, EvolvedBy
    <3>3. x \in pairs' /\ x.skill.rev <= live'.skill.rev
      BY <1>t, <3>2 DEF Extends
    <3> QED
      BY <1>5, <3>1, <3>2, <3>3 DEF EvolvedBy
  <2>3. ASSUME r = 2 PROVE /\ snapshots'[2].policy.rev <= 1
                           /\ \E x \in pairs' : x.policy.v = Evolved /\ x.policy.rev = 1
    <3>1. Len(snapshots) >= 2 /\ snapshots'[2] = snapshots[2]
      BY <1>t, <1>8, <2>3 DEF Promotion, Extends, Longer
    <3> QED
      BY <1>8, <2>3, <3>1 DEF Promotion, Extends
  <2> QED
    BY <2>1, <2>2, <2>3 DEF Promotion
<1> QED
  BY <1>1, <1>2, <1>3, <1>4, <1>6, <1>7, <1>8

(* What a process that does not move knows.                                 *)
LEMMA JobIsStable ==
  ASSUME FilesInv, FilesInv', Extends, NEW p \in Process, JobInv(p), job'[p] = job[p]
  PROVE  JobInv(p)'
<1>t. /\ live.skill.rev \in Nat /\ live'.skill.rev \in Nat
      /\ live.policy.rev \in Nat /\ live'.policy.rev \in Nat
      /\ live.skill.rev <= live'.skill.rev /\ live.policy.rev <= live'.policy.rev
      /\ Len(snapshots) \in Nat /\ Len(snapshots') \in Nat
      /\ Len(decisions) \in Nat /\ Len(decisions') \in Nat
      /\ \A x \in pairs : x.skill.rev \in Nat /\ x.policy.rev \in Nat
      /\ pairs \subseteq pairs'
  BY Types, TypesNext DEF Extends
<1>k. \A r : /\ Reached(r) => Reached(r)'
             /\ Evaluated(r) => Evaluated(r)'
             /\ Working(r) => Working(r)'
             /\ HasResult(r) => HasResult(r)'
             /\ Len(snapshots) >= 1 /\ Matched => Matched'
             /\ Len(snapshots) >= 1 /\ EvolvedBy(r) => EvolvedBy(r)'
             /\ Promotion(r) /\ r \in {1, 2} => Promotion(r)'
  BY TypesNext, KnowledgeIsStable
<1>s. \A i \in 1 .. Len(snapshots) : snapshots'[i] = snapshots[i]
  BY DEF Extends, Longer
<1>e. Len(snapshots) >= Len(evaluations) /\ Len(evaluations) \in Nat
  BY Types DEF FilesInv, EvaluationsInv
<1>w. ASSUME NEW r, Working(r) PROVE r \in 1 .. 2 /\ Len(snapshots) >= 1
  BY <1>e, <1>t, <1>w DEF Working, Evaluated
<1>1. ReadInv(p)'
  <2> SUFFICES ASSUME job[p].pc \in {"read", "register", "child", "commit"} PROVE ReadInv(p)'
    BY DEF ReadInv
  <2> DEFINE r == job[p].reads
  <2>1. ReadsAreTyped(p)'
    <3>1. ReadsAreTyped(p)
      BY DEF JobInv, ReadInv
    <3>2. /\ Len(r) >= 2 => r[2] \in Nat /\ r[2] <= live.skill.rev
          /\ Len(r) >= 4 => r[4] \in Nat /\ r[4] <= live.policy.rev
      BY <3>1 DEF ReadsAreTyped
    <3>3. /\ \A n \in Nat : n <= live.skill.rev => n <= live'.skill.rev
          /\ \A n \in Nat : n <= live.policy.rev => n <= live'.policy.rev
      BY <1>t
    <3>4. /\ Len(r) >= 2 => r[2] <= live'.skill.rev
          /\ Len(r) >= 4 => r[4] <= live'.policy.rev
      BY <3>2, <3>3
    <3> QED
      BY <3>1, <3>4 DEF ReadsAreTyped
  <2>2. /\ job[p].next # "commit" => job[p].man = NoManifest
        /\ job[p].next = "register" => job[p].round = 0
    BY DEF JobInv, ReadInv
  <2>3. job[p].next # "register" => Working(job[p].round)' /\ HasResult(job[p].round)'
    <3> SUFFICES ASSUME job[p].next # "register"
                 PROVE  Working(job[p].round)' /\ HasResult(job[p].round)'
      OBVIOUS
    <3>1. Working(job[p].round) /\ HasResult(job[p].round)
      BY DEF JobInv, ReadInv
    <3>2. PICK q : q = job[p].round
      OBVIOUS
    <3>3. Working(q)' /\ HasResult(q)'
      BY <1>k, <3>1, <3>2
    <3> QED
      BY <3>2, <3>3
  <2>4. job[p].next = "child" /\ job[p].round = 1 /\ Len(r) >= 2 => EvolvedBy(job[p].reads[2])'
    <3> SUFFICES ASSUME job[p].next = "child" /\ job[p].round = 1 /\ Len(r) >= 2
                 PROVE  EvolvedBy(job[p].reads[2])'
      OBVIOUS
    <3>1. EvolvedBy(job[p].reads[2]) /\ Working(job[p].round)
      BY DEF JobInv, ReadInv
    <3>2. PICK q : q = job[p].reads[2]
      OBVIOUS
    <3>3. EvolvedBy(q)'
      BY <1>k, <1>w, <3>1, <3>2
    <3> QED
      BY <3>2, <3>3
  <2>5. ASSUME job[p].next = "commit" PROVE ManifestInv(p)'
    <3>1. ManifestInv(p) /\ Working(job[p].round)
      BY <2>5 DEF JobInv, ReadInv
    <3>2. PICK m : m = job[p].man
      OBVIOUS
    <3>3. m \in Manifest /\ m.round \in 1 .. Len(snapshots) /\ m.skill.rev \in Nat /\ m.policy.rev \in Nat
      BY <1>w, <1>t, <3>1, <3>2 DEF ManifestInv, Manifest, Binding
    <3>4. snapshots'[m.round] = snapshots[m.round] /\ m.round <= Len(snapshots')
      BY <1>s, <1>t, <3>3 DEF Extends, Longer
    <3>5. m.skill.rev <= live'.skill.rev /\ m.policy.rev <= live'.policy.rev
      BY <1>t, <3>1, <3>2, <3>3 DEF ManifestInv
    <3>6. job[p].round = 1 => EvolvedBy(job[p].man.skill.rev)'
      <4>1. PICK q : q = m.skill.rev
        OBVIOUS
      <4>2. job[p].round = 1 => EvolvedBy(q)'
        BY <1>k, <1>w, <3>1, <3>2, <4>1 DEF ManifestInv
      <4> QED
        BY <3>2, <4>1, <4>2
    <3> QED
      BY <3>1, <3>2, <3>4, <3>5, <3>6 DEF ManifestInv
  <2>6. ASSUME job[p].next = "commit" PROVE ReadAgain(p)'
    <3>1. ReadAgain(p)
      BY <2>6 DEF JobInv, ReadInv
    <3> QED
      BY <1>t, <3>1 DEF ReadAgain, AgreesWith
  <2> QED
    BY <2>1, <2>2, <2>3, <2>4, <2>5, <2>6 DEF ReadInv
<1>2. EvaluationInv(p)'
  <2> SUFFICES ASSUME job[p].pc = "record_evaluation" PROVE EvaluationInv(p)'
    BY DEF EvaluationInv
  <2>1. EvaluationInv(p)
    BY DEF JobInv
  <2>2. PICK q : q = job[p].round
    OBVIOUS
  <2>3. Reached(q) /\ q \in 0 .. 2 /\ Len(snapshots) >= q + 1
    BY <1>t, <2>1, <2>2 DEF EvaluationInv, Reached, Rounds
  <2>4. snapshots'[q + 1] = snapshots[q + 1] /\ (q = 1 => snapshots'[2] = snapshots[2])
    BY <1>s, <1>t, <2>3
  <2>5. Reached(q)' /\ (Matched => Matched')
    BY <1>k, <1>t, <2>3
  <2>6. job[p].outcome = Outcome(snapshots'[q + 1])
    BY <2>1, <2>2, <2>4 DEF EvaluationInv
  <2>7. \A c \in job[p].created :
          q < c.round /\ c.round <= 2 => q = 1 /\ c.round = 2 /\ c.skill # snapshots'[2].skill
    BY <2>1, <2>2, <2>4 DEF EvaluationInv
  <2> QED
    BY <2>1, <2>2, <2>5, <2>6, <2>7 DEF EvaluationInv
<1>3. WorkInv(p)'
  <2>1. WorkInv(p)
    BY DEF JobInv
  <2>2. PICK q : q = job[p].round
    OBVIOUS
  <2>3. /\ job[p].pc = "evaluate" => Reached(q)'
        /\ job[p].pc \in {"admit", "decide", "record_decision"} => Evaluated(q)'
        /\ job[p].pc \in {"intervene", "claim", "execute", "executed", "record", "build"} =>
             Working(q)'
    BY <1>k, <2>1, <2>2 DEF WorkInv
  <2>4. job[p].pc \in {"executed", "record"} => Promotion(q)'
    BY <1>k, <2>1, <2>2 DEF WorkInv, Working
  <2>5. Len(decisions) >= 3 => Len(decisions') >= 3 /\ decisions'[3] = decisions[3]
    BY <1>t DEF Extends, Longer
  <2> QED
    BY <2>1, <2>2, <2>3, <2>4, <2>5 DEF WorkInv
<1> QED
  BY <1>1, <1>2, <1>3 DEF JobInv

-----------------------------------------------------------------------------
(* The record that a step leaves its process with.                          *)

LEMMA StepOfOne ==
  ASSUME IInv, FilesInv', Extends, NEW p \in Process, NEW j,
         job' = [job EXCEPT ![p] = j], JobInv(p)'
  PROVE  IInv'
<1>1. DOMAIN job' = Process
  BY DEF IInv
<1>2. ASSUME NEW q \in Process PROVE JobInv(q)'
  <2>1. CASE q = p
    BY <2>1
  <2>2. CASE q # p
    <3>1. job'[q] = job[q] /\ JobInv(q) /\ FilesInv
      BY <2>2 DEF IInv
    <3> QED
      BY <3>1, JobIsStable
  <2> QED
    BY <2>1, <2>2
<1> QED
  BY <1>1, <1>2 DEF IInv

LEMMA FilesStay ==
  ASSUME FilesInv, UNCHANGED <<live, lineageVars, runVars, pairs>>
  PROVE  FilesInv' /\ Extends
<1>1. /\ live' = live /\ snapshots' = snapshots /\ evaluations' = evaluations
      /\ decisions' = decisions /\ run' = run /\ cases' = cases /\ results' = results
      /\ pairs' = pairs
  BY DEF lineageVars, runVars
<1>2. TypeOK' /\ PairsInv'
  BY <1>1 DEF FilesInv, TypeOK, LineageTypeOK, RunTypeOK, PairsInv
<1>3. SnapshotsInv' /\ EvaluationsInv' /\ DecisionsInv'
  BY <1>1 DEF FilesInv, SnapshotsInv, EvaluationsInv, DecisionsInv, HasResult, Matched
<1>4. ResultsInv'
  BY <1>1 DEF FilesInv, ResultsInv, HasResult, Promotion, EvolvedBy
<1>5. RunVerifies'
  BY <1>1 DEF FilesInv, RunVerifies, EventsVerify, Claimed, Mutable
<1>6. EndInv'
  BY <1>1 DEF FilesInv, EndInv, Mutable, Pending
<1>7. Extends
  <2>1. live.skill.rev \in Nat /\ live.policy.rev \in Nat /\ Len(snapshots) \in Nat
        /\ Len(evaluations) \in Nat /\ Len(decisions) \in Nat
    BY Types
  <2> QED
    BY <1>1, <2>1 DEF Extends, Longer
<1> QED
  BY <1>2, <1>3, <1>4, <1>5, <1>6, <1>7 DEF FilesInv

LEMMA OnlyOneMoves ==
  ASSUME IInv, UNCHANGED <<live, lineageVars, runVars, pairs>>, NEW p \in Process, NEW j,
         job' = [job EXCEPT ![p] = j], JobInv(p)'
  PROVE  IInv'
  BY FilesStay, StepOfOne DEF IInv

LEMMA IdleJob ==
  ASSUME IInv, NEW p \in Process, Done(p)
  PROVE  job'[p] = Idle /\ JobInv(p)'
<1>1. job'[p] = [pc |-> "idle"]
  BY DEF IInv, Done, Idle
<1> QED
  BY <1>1 DEF JobInv, ReadInv, EvaluationInv, WorkInv, Idle

LEMMA GoneTo ==
  ASSUME IInv, NEW p \in Process, NEW pc, NEW r, GotoRound(p, pc, r),
         pc \in {"create", "evaluate", "admit", "decide", "intervene", "build", "complete",
                 "package"},
         pc \in {"create", "admit"} => r = 0,
         pc = "evaluate" => Reached(r)',
         pc \in {"admit", "decide"} => Evaluated(r)',
         pc \in {"intervene", "build"} => Working(r)',
         pc = "complete" => Len(decisions') >= 3
  PROVE  JobInv(p)'
<1>1. job'[p] = [pc |-> pc, round |-> r]
  BY DEF IInv, GotoRound
<1>2. ReadInv(p)' /\ EvaluationInv(p)'
  BY <1>1 DEF ReadInv, EvaluationInv
<1>3. WorkInv(p)'
  BY <1>1 DEF WorkInv
<1> QED
  BY <1>2, <1>3 DEF JobInv

-----------------------------------------------------------------------------
(* The steps that change no file.                                           *)

LEMMA WalksOn ==
  ASSUME IInv, SameFiles, SameWorld, NEW p \in Process, NEW pc, NEW r,
         GotoRound(p, pc, r), JobInv(p)'
  PROVE  IInv'
<1>1. UNCHANGED <<live, lineageVars, runVars, pairs>>
  BY DEF SameFiles, SameWorld
<1> QED
  BY <1>1, OnlyOneMoves DEF GotoRound

LEMMA GivesUp ==
  ASSUME IInv, UNCHANGED <<live, lineageVars, runVars, pairs>>, NEW p \in Process, Done(p)
  PROVE  IInv'
  BY IdleJob, OnlyOneMoves DEF Done

LEMMA StartStep ==
  ASSUME IInv, NEW p \in Process, Start(p)
  PROVE  IInv'
  BY GoneTo, WalksOn DEF Start

(* Where a decision leads, the last of them to completion.                  *)
AfterDecisionOK(pc, next) ==
  \/ pc = "complete" /\ Len(decisions) >= 3
  \/ pc = "intervene" /\ Working(next)

LEMMA DecisionLeadsOn ==
  ASSUME NEW p, NEW pc, NEW next, NEW r, r = job[p].round, pc = AfterDecision(p),
         next = NextRound(p), Evaluated(r)', Len(decisions') > r, Len(decisions') \in Nat
  PROVE  AfterDecisionOK(pc, next)'
<1>1. r \in 0 .. 2
  BY DEF Evaluated, Rounds
<1>2. CASE r = 2
  BY <1>2 DEF AfterDecision, AfterDecisionOK
<1>3. CASE r # 2
  <2>1. pc = "intervene" /\ next = r + 1
    BY <1>3 DEF AfterDecision, NextRound
  <2>2. next \in {1, 2} /\ next - 1 = r /\ Len(decisions') >= next
    BY <1>1, <1>3, <2>1
  <2>3. Evaluated(next - 1)'
    BY <2>2
  <2> QED
    BY <2>1, <2>2, <2>3 DEF AfterDecisionOK, Working
<1> QED
  BY <1>2, <1>3

LEMMA SkipSteps ==
  ASSUME IInv, NEW p \in Process,
         \/ EvaluateSkip(p) \/ AdmitDone(p) \/ DecideSkip(p) \/ InterveneSkip(p)
         \/ BuildSkip(p) \/ CompleteSkip(p)
  PROVE  IInv'
<1>w. WorkInv(p) /\ FilesInv
  BY DEF IInv, JobInv
<1>l. /\ Len(snapshots) \in Nat /\ Len(evaluations) \in Nat /\ Len(decisions) \in Nat
  BY <1>w, Types
<1>r. PICK r : r = job[p].round
  OBVIOUS
<1>1. CASE EvaluateSkip(p)
  <2>1. Reached(r) /\ Len(evaluations) > r /\ evaluations[r + 1] = Scores(r)
    BY <1>w, <1>r, <1>1 DEF EvaluateSkip, WorkInv
  <2>2. Evaluated(r)'
    BY <1>l, <2>1, <1>1 DEF EvaluateSkip, SameFiles, lineageVars, Reached, Evaluated
  <2>3. PICK pc : pc = AfterEvaluation(p)
    OBVIOUS
  <2>4. GotoRound(p, pc, r) /\ SameFiles /\ SameWorld
    BY <1>r, <1>1, <2>3 DEF EvaluateSkip, Goto
  <2>5. pc \in {"admit", "decide"} /\ (pc = "admit" => r = 0)
    BY <1>r, <2>3 DEF AfterEvaluation
  <2>6. JobInv(p)'
    BY <2>2, <2>4, <2>5, GoneTo
  <2> QED
    BY <2>4, <2>6, WalksOn
<1>2. CASE AdmitDone(p)
  <2>1. SameFiles /\ SameWorld /\ (GotoRound(p, "decide", r) \/ Done(p))
    BY <1>r, <1>2 DEF AdmitDone, Goto
  <2>2. CASE Done(p)
    BY <2>1, <2>2, GivesUp DEF SameFiles, SameWorld
  <2>3. CASE GotoRound(p, "decide", r)
    <3>1. Evaluated(r)
      BY <1>w, <1>r, <1>2 DEF AdmitDone, WorkInv
    <3>2. Evaluated(r)'
      BY <2>1, <3>1 DEF SameFiles, lineageVars, Evaluated
    <3>3. JobInv(p)'
      BY <2>3, <3>2, GoneTo
    <3> QED
      BY <2>1, <2>3, <3>3, WalksOn
  <2> QED
    BY <2>1, <2>2, <2>3
<1>3. CASE DecideSkip(p)
  <2>1. PICK pc : pc = AfterDecision(p)
    OBVIOUS
  <2>2. PICK next : next = NextRound(p)
    OBVIOUS
  <2>3. GotoRound(p, pc, next) /\ SameFiles /\ SameWorld
    BY <1>3, <2>1, <2>2 DEF DecideSkip
  <2>4. Evaluated(r) /\ Len(decisions) > r
    BY <1>w, <1>r, <1>3 DEF DecideSkip, WorkInv
  <2>5. Evaluated(r)' /\ Len(decisions') > r /\ Len(decisions') \in Nat
    BY <1>l, <2>3, <2>4 DEF SameFiles, lineageVars, Evaluated
  <2>7. AfterDecisionOK(pc, next)'
    BY <1>r, <2>1, <2>2, <2>5, DecisionLeadsOn
  <2>6. JobInv(p)'
    BY <2>3, <2>7, GoneTo DEF AfterDecisionOK
  <2> QED
    BY <2>3, <2>6, WalksOn
<1>4. CASE InterveneSkip(p)
  <2>1. GotoRound(p, "build", r) /\ SameFiles /\ SameWorld
    BY <1>r, <1>4 DEF InterveneSkip, Goto
  <2>2. Working(r)
    BY <1>w, <1>r, <1>4 DEF InterveneSkip, WorkInv
  <2>3. Working(r)'
    BY <2>1, <2>2 DEF SameFiles, lineageVars, Working, Evaluated
  <2>4. JobInv(p)'
    BY <2>1, <2>3, GoneTo
  <2> QED
    BY <2>1, <2>4, WalksOn
<1>5. CASE BuildSkip(p)
  <2>1. GotoRound(p, "evaluate", r) /\ SameFiles /\ SameWorld
    BY <1>r, <1>5 DEF BuildSkip, Goto
  <2>2. Working(r) /\ Revision # r - 1
    BY <1>w, <1>r, <1>5 DEF BuildSkip, WorkInv
  <2>3. Len(evaluations) <= Len(snapshots)
    BY <1>w DEF FilesInv, EvaluationsInv
  <2>4. Reached(r)
    BY <1>l, <2>2, <2>3 DEF Working, Evaluated, Revision, Reached, Rounds
  <2>5. Reached(r)'
    BY <2>1, <2>4 DEF SameFiles, lineageVars, Reached
  <2>6. JobInv(p)'
    BY <2>1, <2>5, GoneTo
  <2> QED
    BY <2>1, <2>6, WalksOn
<1>6. CASE CompleteSkip(p)
  <2>1. SameFiles /\ SameWorld /\ (GotoRound(p, "package", r) \/ Done(p))
    BY <1>r, <1>6 DEF CompleteSkip, Goto
  <2>2. CASE Done(p)
    BY <2>1, <2>2, GivesUp DEF SameFiles, SameWorld
  <2>3. CASE GotoRound(p, "package", r)
    <3>1. JobInv(p)'
      BY <2>3, GoneTo
    <3> QED
      BY <2>1, <2>3, <3>1, WalksOn
  <2> QED
    BY <2>1, <2>2, <2>3
<1> QED
  BY <1>1, <1>2, <1>3, <1>4, <1>5, <1>6

(* One more of the four reads.                                              *)
LEMMA ReadStep ==
  ASSUME IInv, NEW p \in Process, Read(p)
  PROVE  IInv'
<1>r. PICK r : r = job[p].reads
  OBVIOUS
<1>t. /\ FilesInv /\ ReadInv(p) /\ job[p].pc = "read"
      /\ UNCHANGED <<live, lineageVars, runVars, pairs>>
  BY DEF IInv, JobInv, Read, SameFiles, SameWorld
<1>p. /\ live \in pairs /\ live.skill.v \in Version /\ live.policy.v \in Version
      /\ live.skill.rev \in Nat /\ live.policy.rev \in Nat
      /\ \A x \in pairs : /\ x.skill.rev \in Nat /\ x.policy.rev \in Nat
                          /\ x.skill.rev <= live.skill.rev /\ x.policy.rev <= live.policy.rev
  BY <1>t, Types DEF FilesInv, PairsInv, Pair, Binding
<1>1. ReadsAreTyped(p)
  BY <1>t DEF ReadInv
<1>n. PICK n : n = Len(r)
  OBVIOUS
<1>2. job[p] \in ReadJob /\ r \in Seq(Value) /\ n \in 0 .. 3
  <2>1. job[p] \in ReadJob /\ n < 4
    BY <1>t, <1>r, <1>n, <1>1 DEF ReadsAreTyped
  <2>2. r \in Seq(Value)
    BY <1>r, <2>1 DEF ReadJob
  <2>3. n \in Nat
    BY <1>n, <2>2
  <2> QED
    BY <2>1, <2>2, <2>3
<1>3. PICK i : i = n + 1
  OBVIOUS
<1>4. PICK new : new = <<live.skill.v, live.skill.rev, live.policy.v, live.policy.rev>>[i]
  OBVIOUS
<1>5. PICK s : s = Append(r, new)
  OBVIOUS
<1>6. PICK j : j = [job[p] EXCEPT !.reads = s, !.pc = IF i = 4 THEN job[p].next ELSE "read"]
  OBVIOUS
<1>7. job' = [job EXCEPT ![p] = j]
  BY <1>r, <1>n, <1>3, <1>4, <1>5, <1>6 DEF Read, IInv
<1>8. /\ job'[p] = j
      /\ j.reads = s /\ j.pc = (IF i = 4 THEN job[p].next ELSE "read")
      /\ j.next = job[p].next /\ j.round = job[p].round /\ j.man = job[p].man
  BY <1>2, <1>6, <1>7 DEF IInv, ReadJob
<1>9. /\ i \in 1 .. 4 /\ Len(s) = i /\ s[i] = new
      /\ \A q \in 1 .. i - 1 : s[q] = r[q]
      /\ new \in Value
      /\ i = 1 => new = live.skill.v
      /\ i = 2 => new = live.skill.rev
      /\ i = 3 => new = live.policy.v
      /\ i = 4 => new = live.policy.rev
  <2>1. i \in 1 .. 4
    BY <1>2, <1>3
  <2>2. /\ i = 1 => new = live.skill.v
        /\ i = 2 => new = live.skill.rev
        /\ i = 3 => new = live.policy.v
        /\ i = 4 => new = live.policy.rev
    BY <1>4, <2>1
  <2>3. new \in Value
    BY <1>p, <2>1, <2>2 DEF Value
  <2>4. Len(s) = i /\ s[i] = new /\ \A q \in 1 .. i - 1 : s[q] = r[q]
    BY <1>n, <1>2, <1>3, <1>5, <2>3
  <2> QED
    BY <2>1, <2>2, <2>3, <2>4
<1>10. /\ s \in Seq(Value)
       /\ i >= 2 => s[1] = r[1]
       /\ i >= 3 => s[2] = r[2]
       /\ i >= 4 => s[3] = r[3]
       /\ Len(r) >= 1 <=> i >= 2
       /\ Len(r) >= 2 <=> i >= 3
       /\ Len(r) >= 3 <=> i >= 4
       /\ ~(Len(r) >= 4)
  BY <1>n, <1>2, <1>3, <1>5, <1>9
<1>11. ReadsAreTyped(p)'
  <2>1. j \in ReadJob
    BY <1>2, <1>6, <1>10 DEF ReadJob
  <2>2. /\ i >= 1 => s[1] \in Version
        /\ i >= 2 => s[2] \in Nat /\ s[2] <= live.skill.rev
        /\ i >= 3 => s[3] \in Version
        /\ i >= 4 => s[4] \in Nat /\ s[4] <= live.policy.rev
    BY <1>p, <1>r, <1>1, <1>9, <1>10 DEF ReadsAreTyped
  <2>3. /\ j.pc = "read" => i < 4
        /\ j.pc # "read" => i = 4 /\ j.next = j.pc
    BY <1>8, <1>9, <1>2 DEF ReadJob
  <2> QED
    BY <1>t, <1>8, <1>9, <2>1, <2>2, <2>3 DEF ReadsAreTyped
<1>12. ASSUME job[p].next # "register" PROVE Working(job[p].round) /\ HasResult(job[p].round)
  BY <1>t, <1>12 DEF ReadInv
<1>13. ASSUME job[p].next = "child", job[p].round = 1, i >= 2 PROVE EvolvedBy(s[2])
  <2>1. CASE i = 2
    <3>1. HasResult(1)
      BY <1>12, <1>13
    <3>2. EvolvedBy(live.skill.rev)
      BY <1>t, <3>1 DEF FilesInv, ResultsInv, Promotion
    <3> QED
      BY <1>9, <2>1, <3>2
  <2>2. CASE i # 2
    BY <1>t, <1>r, <1>9, <1>10, <1>13, <2>2 DEF ReadInv
  <2> QED
    BY <2>1, <2>2
<1>14. ASSUME job[p].next = "commit" PROVE ManifestInv(p) /\ ReadAgain(p)'
  <2>1. ManifestInv(p) /\ ReadAgain(p)
    BY <1>t, <1>14 DEF ReadInv
  <2>2. CASE i = 1
    <3>1. /\ live.skill.v = s[1]
          /\ job[p].man.skill.rev <= live.skill.rev /\ job[p].man.policy.rev <= live.policy.rev
      BY <1>9, <2>1, <2>2 DEF ManifestInv
    <3>2. ~(Len(s) >= 2) /\ ~(Len(s) >= 3)
      BY <1>9, <2>2
    <3>3. live \in pairs' /\ job'[p].reads = s /\ job'[p].man = job[p].man
      BY <1>t, <1>p, <1>8
    <3>4. PICK m : m = job[p].man
      OBVIOUS
    <3>5. \E x \in pairs' :
            /\ x.skill.v = s[1]
            /\ m.skill.rev <= x.skill.rev /\ m.policy.rev <= x.policy.rev
      BY <3>1, <3>3, <3>4
    <3>6. AgreesWith(pairs', s, m)
      BY <3>2, <3>5 DEF AgreesWith
    <3> QED
      BY <2>1, <3>3, <3>4, <3>6 DEF ReadAgain
  <2>3. CASE i # 1
    <3>1. PICK x \in pairs :
            /\ x.skill.v = r[1]
            /\ job[p].man.skill.rev <= x.skill.rev /\ job[p].man.policy.rev <= x.policy.rev
            /\ Len(r) >= 2 => x.skill.rev <= r[2]
            /\ Len(r) >= 3 => \E y \in pairs : /\ y.policy.v = r[3] /\ x.policy.rev <= y.policy.rev
                                               /\ Len(r) >= 4 => y.policy.rev <= r[4]
      BY <1>r, <1>9, <1>10, <2>1, <2>3 DEF ReadAgain, AgreesWith
    <3>2. x.skill.v = s[1] /\ x.skill.rev <= s[2]
      <4>1. i >= 2
        BY <1>9, <2>3
      <4>2. CASE i = 2
        BY <1>p, <1>9, <1>10, <3>1, <4>1, <4>2
      <4>3. CASE i >= 3
        BY <1>10, <3>1, <4>1, <4>3
      <4> QED
        BY <1>9, <4>1, <4>2, <4>3
    <3>3. ASSUME i >= 3
          PROVE  \E y \in pairs : /\ y.policy.v = s[3] /\ x.policy.rev <= y.policy.rev
                                  /\ i >= 4 => y.policy.rev <= s[4]
      <4>1. CASE i = 3
        BY <1>p, <1>9, <4>1
      <4>2. CASE i = 4
        <5>1. PICK y \in pairs : y.policy.v = r[3] /\ x.policy.rev <= y.policy.rev
          BY <1>10, <3>1, <4>2
        <5>2. y.policy.rev <= s[4] /\ y.policy.v = s[3]
          BY <1>p, <1>9, <1>10, <4>2, <5>1
        <5> QED
          BY <5>1, <5>2
      <4> QED
        BY <1>9, <3>3, <4>1, <4>2
    <3>4. pairs' = pairs /\ job'[p].reads = s /\ job'[p].man = job[p].man /\ Len(s) = i
      BY <1>t, <1>8, <1>9
    <3>5. /\ Len(s) >= 3 => \E y \in pairs' : /\ y.policy.v = s[3] /\ x.policy.rev <= y.policy.rev
                                              /\ Len(s) >= 4 => y.policy.rev <= s[4]
      BY <3>3, <3>4
    <3>6. x \in pairs'
      BY <3>4
    <3>7. PICK m : m = job[p].man
      OBVIOUS
    <3>8. m.skill.rev <= x.skill.rev /\ m.policy.rev <= x.policy.rev
      BY <3>1, <3>7
    <3>9. AgreesWith(pairs', s, m)
      BY <3>2, <3>4, <3>5, <3>6, <3>8 DEF AgreesWith
    <3> QED
      BY <2>1, <3>4, <3>7, <3>9 DEF ReadAgain
  <2> QED
    BY <2>1, <2>2, <2>3
<1>15. ManifestInv(p) => ManifestInv(p)'
  BY <1>t, <1>8 DEF ManifestInv, EvolvedBy, lineageVars
<1>16. ReadInv(p)'
  <2>1. /\ job[p].next # "commit" => job[p].man = NoManifest
        /\ job[p].next = "register" => job[p].round = 0
    BY <1>t DEF ReadInv
  <2>2. ASSUME job[p].next # "register" PROVE Working(j.round)' /\ HasResult(j.round)'
    <3>1. Working(j.round) /\ HasResult(j.round)
      BY <1>8, <1>12, <2>2
    <3> QED
      BY <1>t, <3>1 DEF Working, Evaluated, HasResult, lineageVars, runVars
  <2>3. ASSUME job[p].next = "child", job[p].round = 1, i >= 2 PROVE EvolvedBy(s[2])'
    BY <1>t, <1>13, <2>3 DEF EvolvedBy, lineageVars
  <2> QED
    BY <1>8, <1>9, <1>11, <1>14, <1>15, <2>1, <2>2, <2>3 DEF ReadInv
<1>17. EvaluationInv(p)' /\ WorkInv(p)'
  <2>1. j.pc \in {"read", "register", "child", "commit"}
    BY <1>2, <1>8 DEF ReadJob
  <2> QED
    BY <1>8, <2>1 DEF EvaluationInv, WorkInv
<1> QED
  BY <1>t, <1>7, <1>16, <1>17, OnlyOneMoves DEF JobInv

LEMMA BeginsToRead ==
  ASSUME IInv, NEW p \in Process, NEW pc, NEW m, NEW r, r = job[p].round, r \in Rounds,
         BeginReading(p, pc, m), pc \in {"register", "child", "commit"},
         m \in Manifest \cup {NoManifest}, pc # "commit" => m = NoManifest,
         pc = "register" => r = 0,
         pc # "register" => Working(r)' /\ HasResult(r)',
         pc = "commit" => ManifestInv(p)'
  PROVE  JobInv(p)'
<1>1. job'[p] = [pc |-> "read", next |-> pc, round |-> r, man |-> m, reads |-> <<>>]
  BY DEF IInv, BeginReading
<1>2. <<>> \in Seq(Value) /\ Len(<<>>) = 0
  OBVIOUS
<1>3. ReadsAreTyped(p)'
  BY <1>1, <1>2 DEF ReadsAreTyped, ReadJob
<1>4. ReadAgain(p)'
  BY <1>1, <1>2 DEF ReadAgain, AgreesWith
<1>5. ReadInv(p)'
  BY <1>1, <1>2, <1>3, <1>4 DEF ReadInv
<1>6. EvaluationInv(p)' /\ WorkInv(p)'
  BY <1>1 DEF EvaluationInv, WorkInv
<1> QED
  BY <1>5, <1>6 DEF JobInv

LEMMA BuildStartStep ==
  ASSUME IInv, NEW p \in Process, BuildStart(p)
  PROVE  IInv'
<1>1. PICK r : r = job[p].round
  OBVIOUS
<1>2. Working(r) /\ r \in {1, 2}
  BY <1>1 DEF IInv, JobInv, WorkInv, BuildStart, Working
<1>3. HasResult(r)
  <2>1. Cardinality({x \in results : x.track = Component(r)}) = 1
    BY <1>1 DEF BuildStart, Executions
  <2>2. {x \in results : x.track = Component(r)} # {}
    BY <2>1, FS_EmptySet
  <2> QED
    BY <2>2 DEF HasResult
<1>4. UNCHANGED <<live, lineageVars, runVars, pairs>> /\ BeginReading(p, "child", NoManifest)
  BY DEF BuildStart, SameFiles, SameWorld
<1>5. Working(r)' /\ HasResult(r)'
  BY <1>2, <1>3, <1>4 DEF Working, Evaluated, HasResult, lineageVars, runVars
<1>6. JobInv(p)'
  <2>1. r \in Rounds
    BY <1>2 DEF Rounds
  <2> QED
    BY <1>1, <1>4, <1>5, <2>1, BeginsToRead
<1> QED
  BY <1>4, <1>6, OnlyOneMoves DEF BeginReading

(* The manifest of the child is built of the first reading.                 *)
LEMMA BuildChildStep ==
  ASSUME IInv, NEW p \in Process, BuildChild(p)
  PROVE  IInv'
<1>t. FilesInv /\ ReadInv(p) /\ job[p].pc = "child"
  BY DEF IInv, JobInv, BuildChild
<1>l. /\ Len(snapshots) \in Nat /\ Len(evaluations) \in Nat /\ Len(evaluations) <= Len(snapshots)
      /\ \A i \in 1 .. Len(snapshots) : snapshots[i].round = i - 1
  BY <1>t, Types DEF FilesInv, EvaluationsInv, SnapshotsInv
<1>r. PICK r : r = job[p].round
  OBVIOUS
<1>1. PICK m : m = Bound(p, Active.round + 1)
  OBVIOUS
<1>2. PICK reads : reads = job[p].reads
  OBVIOUS
<1>3. /\ job[p].next = "child" /\ Len(reads) = 4
      /\ reads[1] \in Version /\ reads[2] \in Nat /\ reads[3] \in Version /\ reads[4] \in Nat
      /\ reads[2] <= live.skill.rev /\ reads[4] <= live.policy.rev
  BY <1>t, <1>2 DEF ReadInv, ReadsAreTyped
<1>4. /\ Working(r) /\ HasResult(r) /\ r \in {1, 2}
      /\ r = 1 => EvolvedBy(reads[2])
  BY <1>t, <1>r, <1>2, <1>3 DEF ReadInv, Working
<1>5. Len(snapshots) >= r /\ Active.round + 1 = Len(snapshots)
  BY <1>l, <1>4 DEF Working, Evaluated, Rounds, Active
<1>6. m = [round |-> Len(snapshots), skill |-> [v |-> reads[1], rev |-> reads[2]],
           policy |-> [v |-> reads[3], rev |-> reads[4]]]
  BY <1>1, <1>2, <1>5 DEF Bound
<1>7. m \in Manifest
  BY <1>l, <1>3, <1>6 DEF Manifest, Binding
<1>8. Changed(snapshots[Len(snapshots)], m, Component(r)) /\ BeginReading(p, "commit", m)
  BY <1>1, <1>r DEF BuildChild, Active
<1>9. /\ m.round >= r /\ m.round <= Len(snapshots) /\ m.round = Len(snapshots)
      /\ m.skill.rev = reads[2] /\ m.policy.rev = reads[4]
  BY <1>l, <1>5, <1>6
<1>10. UNCHANGED <<live, lineageVars, runVars, pairs>>
  BY DEF BuildChild, SameFiles, SameWorld
<1>11. job'[p].man = m /\ job'[p].round = r
  BY <1>8, <1>r DEF BeginReading, IInv
<1>12. r = 1 => EvolvedBy(m.skill.rev)'
  BY <1>4, <1>9, <1>10 DEF EvolvedBy, lineageVars
<1>13. ManifestInv(p)'
  <2>1. snapshots' = snapshots /\ live' = live
    BY <1>10 DEF lineageVars
  <2>2. r = 1 => EvolvedBy(job[p].man.skill.rev)'
    BY <1>11, <1>12 DEF EvolvedBy
  <2> QED
    BY <1>3, <1>7, <1>8, <1>9, <1>11, <2>1, <2>2 DEF ManifestInv
<1>14. Working(r)' /\ HasResult(r)'
  BY <1>4, <1>10 DEF Working, Evaluated, HasResult, lineageVars, runVars
<1>15. JobInv(p)'
  <2>1. r \in Rounds
    BY <1>4 DEF Rounds
  <2> QED
    BY <1>r, <1>7, <1>8, <1>13, <1>14, <2>1, BeginsToRead
<1> QED
  BY <1>8, <1>10, <1>15, OnlyOneMoves DEF BeginReading

(* The steps that only remember something, or give up.                      *)
LEMMA RecordSteps ==
  ASSUME IInv, NEW p \in Process,
         \/ DecideRead(p) \/ IntervenePlan(p) \/ InterveneLook(p)
         \/ CompleteCheck(p) \/ Package(p) \/ Stop(p)
  PROVE  IInv'
<1>w. WorkInv(p) /\ FilesInv
  BY DEF IInv, JobInv
<1>l. Len(snapshots) \in Nat /\ Len(evaluations) \in Nat /\ Len(decisions) \in Nat
  BY <1>w, Types
<1>r. PICK r : r = job[p].round
  OBVIOUS
<1>1. CASE DecideRead(p)
  <2>1. PICK pending : pending = Pending(IF job[p].round = 1 THEN {"policy"} ELSE Tracks)
    OBVIOUS
  <2>2. UNCHANGED <<live, lineageVars, runVars, pairs>>
    BY <1>1 DEF DecideRead, SameFiles, SameWorld
  <2>3. PICK j : j = [pc |-> "record_decision", round |-> r, pending |-> pending]
    OBVIOUS
  <2>4. job' = [job EXCEPT ![p] = j] /\ job'[p] = j
    BY <1>1, <1>r, <2>1, <2>3 DEF DecideRead, IInv
  <2>5. Evaluated(r) /\ pending \subseteq Case
    BY <1>w, <1>r, <1>1, <2>1 DEF DecideRead, WorkInv, Pending
  <2>6. Evaluated(r)'
    BY <2>2, <2>5 DEF Evaluated, lineageVars
  <2>7. JobInv(p)'
    BY <2>3, <2>4, <2>5, <2>6 DEF JobInv, ReadInv, EvaluationInv, WorkInv
  <2> QED
    BY <2>2, <2>4, <2>7, OnlyOneMoves
<1>2. CASE IntervenePlan(p)
  <2>1. PICK plan \in Plans :
          job' = [job EXCEPT ![p] = [pc |-> "claim", round |-> @.round, plan |-> plan,
                                     rev |-> run.rev]]
    BY <1>2 DEF IntervenePlan
  <2>2. UNCHANGED <<live, lineageVars, runVars, pairs>>
    BY <1>2 DEF IntervenePlan, SameFiles, SameWorld
  <2>3. PICK j : j = [pc |-> "claim", round |-> r, plan |-> plan, rev |-> run.rev]
    OBVIOUS
  <2>4. job' = [job EXCEPT ![p] = j] /\ job'[p] = j
    BY <1>r, <2>1, <2>3 DEF IInv
  <2>5. plan.cases \subseteq Case
    BY <2>1 DEF Plans, Claimed, Pending
  <2>6. Working(r)
    BY <1>w, <1>r, <1>2 DEF IntervenePlan, WorkInv
  <2>7. Working(r)'
    BY <2>2, <2>6 DEF Working, Evaluated, lineageVars
  <2>8. JobInv(p)'
    BY <2>3, <2>4, <2>5, <2>7 DEF JobInv, ReadInv, EvaluationInv, WorkInv
  <2> QED
    BY <2>2, <2>4, <2>8, OnlyOneMoves
<1>3. CASE InterveneLook(p)
  <2>1. PICK ks : ks = job[p].cases
    OBVIOUS
  <2>2. UNCHANGED <<live, lineageVars, runVars, pairs>>
    BY <1>3 DEF InterveneLook, SameFiles, SameWorld
  <2>3. PICK j : j = [pc |-> "record", round |-> r, rev |-> run.rev,
                      result |-> [track |-> Component(r), cases |-> ks, v |-> Evolved]]
    OBVIOUS
  <2>4. job' = [job EXCEPT ![p] = j] /\ job'[p] = j
    BY <1>3, <1>r, <2>1, <2>3 DEF InterveneLook, IInv
  <2>5. Working(r) /\ Promotion(r) /\ ks \subseteq Case
    BY <1>w, <1>r, <1>3, <2>1 DEF InterveneLook, WorkInv
  <2>6. Working(r)' /\ Promotion(r)'
    BY <2>2, <2>5 DEF Working, Evaluated, Promotion, EvolvedBy, lineageVars
  <2>7. j.result \in [track: Tracks, cases: SUBSET Case, v: Version]
        /\ j.result.track = Component(r) /\ j.result.v = Evolved
    BY <2>3, <2>5, MultiTrackAssumption DEF Component, Tracks
  <2>8. WorkInv(p)'
    BY <2>3, <2>4, <2>6, <2>7 DEF WorkInv
  <2>9. ReadInv(p)' /\ EvaluationInv(p)'
    BY <2>3, <2>4 DEF ReadInv, EvaluationInv
  <2> QED
    BY <2>2, <2>4, <2>8, <2>9, OnlyOneMoves DEF JobInv
<1>4. CASE CompleteCheck(p)
  <2>1. PICK d : d = decisions[Len(decisions)]
    OBVIOUS
  <2>2. UNCHANGED <<live, lineageVars, runVars, pairs>>
    BY <1>4 DEF CompleteCheck, SameFiles, SameWorld
  <2>3. PICK j : j = [pc |-> "complete_run", round |-> r, action |-> d.action, rev |-> run.rev]
    OBVIOUS
  <2>4. job' = [job EXCEPT ![p] = j] /\ job'[p] = j /\ d.action # "continue"
    BY <1>4, <1>r, <2>1, <2>3 DEF CompleteCheck, IInv
  <2>5. Len(decisions) = 3
    <3>1. Len(decisions) >= 3
      BY <1>w, <1>4 DEF CompleteCheck, WorkInv
    <3>2. Len(decisions) <= Len(evaluations) /\ Len(evaluations) <= Len(snapshots)
          /\ Len(snapshots) <= 3
      BY <1>w DEF FilesInv, DecisionsInv, EvaluationsInv, SnapshotsInv
    <3>3. PICK a \in Nat : a = Len(decisions)
      BY <1>l
    <3>4. 3 <= a /\ a <= 3
      BY <1>l, <3>1, <3>2, <3>3
    <3> QED
      BY <3>3, <3>4
  <2>6. decisions' = decisions
    BY <2>2 DEF lineageVars
  <2>7. /\ job'[p].pc = "complete_run" /\ job'[p].action = decisions'[3].action
        /\ job'[p].action # "continue" /\ Len(decisions') >= 3
    BY <2>1, <2>3, <2>4, <2>5, <2>6
  <2>8. WorkInv(p)'
    BY <2>7 DEF WorkInv
  <2>9. ReadInv(p)' /\ EvaluationInv(p)'
    BY <2>3, <2>4 DEF ReadInv, EvaluationInv
  <2> QED
    BY <2>2, <2>4, <2>8, <2>9, OnlyOneMoves DEF JobInv
<1>5. CASE Package(p)
  BY <1>5, GivesUp DEF Package, SameWorld
<1>6. CASE Stop(p)
  BY <1>6, GivesUp DEF Stop, SameFiles
<1> QED
  BY <1>1, <1>2, <1>3, <1>4, <1>5, <1>6

(* An evaluation is derived from the snapshot of its round, the last one;   *)
(* the child that another process holds may have the number of a later      *)
(* snapshot, but then it changed the other component.                       *)
LEMMA EvaluateDeriveStep ==
  ASSUME IInv, NEW p \in Process, EvaluateDerive(p)
  PROVE  IInv'
<1>t. FilesInv /\ WorkInv(p) /\ job[p].pc = "evaluate"
  BY DEF IInv, JobInv, EvaluateDerive
<1>l. /\ Len(snapshots) \in Nat /\ Len(evaluations) \in Nat
      /\ Len(snapshots) <= Len(evaluations) + 1
      /\ \A i \in 1 .. Len(snapshots) :
           snapshots[i] \in Manifest /\ snapshots[i].round = i - 1
  BY <1>t, Types DEF FilesInv, EvaluationsInv, SnapshotsInv
<1>r. PICK r : r = job[p].round
  OBVIOUS
<1>1. Reached(r) /\ r \in 0 .. 2 /\ Len(evaluations) = r /\ Len(snapshots) = r + 1
  <2>1. Reached(r) /\ r \in 0 .. 2 /\ Len(evaluations) = r /\ Len(snapshots) > r
    BY <1>t, <1>r DEF WorkInv, EvaluateDerive, Reached, Rounds
  <2> QED
    BY <1>l, <2>1
<1>2. Active = snapshots[r + 1] /\ snapshots[r + 1] \in Manifest
  BY <1>l, <1>1 DEF Active
<1>3. PICK created :
        created = {snapshots[i] : i \in DOMAIN snapshots}
                    \cup {job[q].man : q \in {q \in Process : job[q].pc \in {"read", "commit"}}}
  OBVIOUS
<1>4. PICK outcome : outcome = Outcome(Active)
  OBVIOUS
<1>5. PICK j : j = [pc |-> "record_evaluation", round |-> r, outcome |-> outcome,
                    created |-> created]
  OBVIOUS
<1>6. job' = [job EXCEPT ![p] = j] /\ job'[p] = j
  BY <1>r, <1>3, <1>4, <1>5 DEF EvaluateDerive, IInv
<1>7. UNCHANGED <<live, lineageVars, runVars, pairs>>
  BY DEF EvaluateDerive, SameFiles, SameWorld
<1>8. snapshots' = snapshots /\ live' = live /\ pairs' = pairs
  BY <1>7 DEF lineageVars
<1>9. r = 0 => Matched
  <2> SUFFICES ASSUME r = 0 PROVE Matched
    OBVIOUS
  <2>1. live \in pairs /\ live.skill.rev >= snapshots[1].skill.rev
    <3>1. snapshots[1].skill.rev <= live.skill.rev /\ live \in pairs
      BY <1>t, <1>1 DEF FilesInv, SnapshotsInv, PairsInv
    <3>2. snapshots[1].skill.rev \in Nat /\ live.skill.rev \in Nat
      BY <1>t, <1>l, <1>1, Types DEF Manifest, Binding
    <3> QED
      BY <3>1, <3>2
  <2>2. live.skill.v = snapshots[1].skill.v
    BY <1>2 DEF EvaluateDerive, RuntimeMatches
  <2> QED
    BY <2>1, <2>2 DEF Matched
<1>10. ASSUME NEW c \in created
       PROVE  /\ c \in Manifest \cup {NoManifest}
              /\ r < c.round /\ c.round <= 2 =>
                   r = 1 /\ c.round = 2 /\ c.skill # snapshots[2].skill
  <2>1. CASE c \in {snapshots[i] : i \in DOMAIN snapshots}
    <3>1. PICK i \in DOMAIN snapshots : c = snapshots[i]
      BY <2>1
    <3>2. i \in 1 .. r + 1
      BY <1>t, <1>1, Types
    <3>3. c \in Manifest /\ c.round = i - 1
      BY <1>l, <1>1, <3>1, <3>2
    <3> QED
      BY <1>1, <3>2, <3>3
  <2>2. CASE c \notin {snapshots[i] : i \in DOMAIN snapshots}
    <3>1. PICK q \in Process : job[q].pc \in {"read", "commit"} /\ c = job[q].man
      BY <1>3, <1>10, <2>2
    <3>2. ReadInv(q)
      BY DEF IInv, JobInv
    <3>3. CASE job[q].next # "commit"
      <4>1. c = NoManifest
        BY <3>1, <3>2, <3>3 DEF ReadInv
      <4> QED
        BY <1>1, <4>1 DEF NoManifest
    <3>4. CASE job[q].next = "commit"
      <4>1. ManifestInv(q) /\ Working(job[q].round)
        BY <3>1, <3>2, <3>4 DEF ReadInv
      <4>2. PICK s : s = job[q].round
        OBVIOUS
      <4>3. /\ c \in Manifest /\ c.round >= s /\ c.round <= r + 1
            /\ Changed(snapshots[c.round], c, Component(s))
        BY <1>1, <3>1, <4>1, <4>2 DEF ManifestInv
      <4>4. s \in 1 .. r
        BY <1>l, <1>1, <4>1, <4>2 DEF Working, Evaluated
      <4>5. ASSUME r < c.round, c.round <= 2
            PROVE  r = 1 /\ c.round = 2 /\ c.skill # snapshots[2].skill
        <5>1. c.round \in Nat
          BY <4>3 DEF Manifest
        <5>2. r = 1 /\ c.round = 2 /\ s = 1
          BY <1>1, <4>3, <4>4, <4>5, <5>1
        <5>3. Follows(c.skill, snapshots[2].skill)
          BY <4>3, <5>2 DEF Changed, Component
        <5> QED
          BY <5>2, <5>3 DEF Follows
      <4> QED
        BY <4>3, <4>5
    <3> QED
      BY <3>3, <3>4
  <2> QED
    BY <2>1, <2>2
<1>11. EvaluationInv(p)'
  <2>1. Reached(r)' /\ (r = 0 => Matched')
    BY <1>1, <1>8, <1>9 DEF Reached, Matched
  <2>2. j.pc = "record_evaluation" /\ j.round = r /\ j.outcome = Outcome(snapshots'[r + 1])
        /\ j.created = created
    BY <1>2, <1>4, <1>5, <1>8
  <2>3. created \subseteq Manifest \cup {NoManifest}
    BY <1>10
  <2>4. \A c \in created :
          r < c.round /\ c.round <= 2 => r = 1 /\ c.round = 2 /\ c.skill # snapshots'[2].skill
    BY <1>8, <1>10
  <2> QED
    BY <1>6, <2>1, <2>2, <2>3, <2>4 DEF EvaluationInv
<1>12. ReadInv(p)' /\ WorkInv(p)'
  BY <1>5, <1>6 DEF ReadInv, WorkInv
<1> QED
  BY <1>6, <1>7, <1>11, <1>12, OnlyOneMoves DEF JobInv

-----------------------------------------------------------------------------
(* The steps that extend the lineage.                                       *)

(* What the invariant says of results and of the run does not depend on the *)
(* lineage, as long as that grows.                                          *)
LEMMA RunIsUntouched ==
  ASSUME FilesInv, Extends, UNCHANGED <<live, pairs, runVars>>,
         Len(snapshots') \in Nat, Len(evaluations') \in Nat, Len(decisions') \in Nat
  PROVE  PairsInv' /\ ResultsInv' /\ RunVerifies'
<1>1. /\ run' = run /\ cases' = cases /\ results' = results /\ live' = live /\ pairs' = pairs
  BY DEF runVars
<1>2. PairsInv'
  BY <1>1 DEF FilesInv, PairsInv
<1>3. ASSUME NEW r \in {1, 2}, HasResult(r)' PROVE Promotion(r)'
  <2>1. HasResult(r)
    BY <1>1, <1>3 DEF HasResult
  <2>2. Promotion(r)
    BY <2>1 DEF FilesInv, ResultsInv
  <2>3. live'.skill.rev \in Nat
    BY <1>1, Types
  <2> QED
    BY <2>2, <2>3, KnowledgeIsStable
<1>4. ResultsInv'
  BY <1>1, <1>3 DEF FilesInv, ResultsInv
<1>5. RunVerifies'
  BY <1>1 DEF FilesInv, RunVerifies, EventsVerify, Claimed, Mutable
<1> QED
  BY <1>2, <1>4, <1>5

LEMMA RegisterStep ==
  ASSUME IInv, NEW p \in Process, Register(p)
  PROVE  IInv'
<1>t. FilesInv /\ ReadInv(p) /\ job[p].pc = "register" /\ snapshots = <<>> /\ Len(snapshots) = 0
  BY DEF IInv, JobInv, Register, RegisterInitial
<1>u. /\ UNCHANGED <<live, pairs, runVars>> /\ live' = live
      /\ evaluations' = evaluations /\ decisions' = decisions
      /\ run' = run /\ cases' = cases /\ results' = results
  BY DEF Register, runVars, SameWorld
<1>l. Len(evaluations) = 0 /\ Len(decisions) = 0
  <2>1. Len(evaluations) \in Nat /\ Len(decisions) \in Nat
    BY <1>t, Types
  <2>2. Len(evaluations) <= 0 /\ Len(decisions) <= Len(evaluations)
    BY <1>t DEF FilesInv, EvaluationsInv, DecisionsInv
  <2> QED
    BY <2>1, <2>2
<1>1. PICK m : m = Bound(p, 0)
  OBVIOUS
<1>2. m \in Manifest /\ m.round = 0 /\ m.skill.rev <= live.skill.rev /\ m.policy.rev <= live.policy.rev
  <2>1. PICK reads : reads = job[p].reads
    OBVIOUS
  <2>2. /\ reads[1] \in Version /\ reads[2] \in Nat /\ reads[3] \in Version /\ reads[4] \in Nat
        /\ reads[2] <= live.skill.rev /\ reads[4] <= live.policy.rev
    BY <1>t, <2>1 DEF ReadInv, ReadsAreTyped
  <2>3. m = [round |-> 0, skill |-> [v |-> reads[1], rev |-> reads[2]],
             policy |-> [v |-> reads[3], rev |-> reads[4]]]
    BY <1>1, <2>1 DEF Bound
  <2> QED
    BY <2>2, <2>3 DEF Manifest, Binding
<1>3. snapshots' = <<m>>
  BY <1>1 DEF Register, RegisterInitial
<1>4. Len(snapshots') = 1 /\ snapshots'[1] = m /\ snapshots' \in Seq(Manifest)
  BY <1>2, <1>3
<1>5. Extends
  <2>1. live.skill.rev \in Nat /\ live.policy.rev \in Nat
    BY <1>t, Types
  <2> QED
    BY <1>t, <1>u, <1>l, <1>4, <2>1 DEF Extends, Longer
<1>6. TypeOK'
  BY <1>t, <1>u, <1>4 DEF FilesInv, TypeOK, LineageTypeOK, RunTypeOK
<1>7. PairsInv' /\ ResultsInv' /\ RunVerifies'
  BY <1>t, <1>u, <1>l, <1>4, <1>5, RunIsUntouched
<1>8. SnapshotsInv'
  BY <1>u, <1>2, <1>4 DEF SnapshotsInv
<1>9. EvaluationsInv' /\ DecisionsInv'
  BY <1>t, <1>u, <1>l, <1>4 DEF FilesInv, EvaluationsInv, DecisionsInv
<1>10. EndInv'
  BY <1>t, <1>u DEF FilesInv, EndInv, Mutable, Pending
<1>11. FilesInv'
  BY <1>6, <1>7, <1>8, <1>9, <1>10 DEF FilesInv
<1>12. GotoRound(p, "evaluate", 0)
  BY DEF Register
<1>13. Reached(0)'
  BY <1>4 DEF Reached, Rounds
<1>14. JobInv(p)'
  BY <1>12, <1>13, GoneTo
<1> QED
  BY <1>5, <1>11, <1>12, <1>14, StepOfOne DEF GotoRound

(* What it says of the components that a round was scored as expected.      *)
LEMMA OutcomeOf ==
  ASSUME NEW m, NEW r, Outcome(m) = Scores(r)
  PROVE  (m.skill.v \in Good <=> r >= 1) /\ (m.policy.v \in Good <=> r >= 2)
  BY DEF Outcome, Scores

(* The child that is committed was live at one time between the readings,   *)
(* and its executor's version is the one it moved to.                       *)
LEMMA CommittedChild ==
  ASSUME IInv, NEW p \in Process, CommitChild(p), NEW m, m = job[p].man, NEW r, r = job[p].round
  PROVE  /\ r \in {1, 2} /\ Len(snapshots) = r /\ Working(r) /\ HasResult(r)
         /\ m \in Manifest /\ m.round = r
         /\ m.skill.rev <= live.skill.rev /\ m.policy.rev <= live.policy.rev
         /\ snapshots' = Append(snapshots, m)
         /\ Changed(snapshots[r], m, Component(r))
         /\ [skill |-> m.skill, policy |-> m.policy] \in pairs
         /\ m[Component(r)].v = Evolved
<1>t. FilesInv /\ ReadInv(p) /\ job[p].pc = "commit"
  BY DEF IInv, JobInv, CommitChild
<1>p. /\ \A x \in pairs : x \in Pair /\ x.skill.rev \in Nat /\ x.policy.rev \in Nat
      /\ \A x, y \in pairs : /\ x.skill.rev = y.skill.rev => x.skill = y.skill
                             /\ x.policy.rev = y.policy.rev => x.policy = y.policy
  BY <1>t, Types DEF FilesInv, PairsInv
<1>1. PICK reads : reads = job[p].reads
  OBVIOUS
<1>2. job[p].next = "commit" /\ Len(reads) = 4
  BY <1>t, <1>1 DEF ReadInv, ReadsAreTyped
<1>3. /\ ManifestInv(p) /\ ReadAgain(p) /\ Working(r) /\ HasResult(r) /\ r \in {1, 2}
  BY <1>t, <1>2 DEF ReadInv, Working
<1>4. /\ m \in Manifest /\ m.round \in Nat /\ m.skill \in Binding /\ m.policy \in Binding
      /\ m.skill.rev \in Nat /\ m.policy.rev \in Nat
      /\ m.skill.rev <= live.skill.rev /\ m.policy.rev <= live.policy.rev
      /\ Changed(snapshots[m.round], m, Component(r))
      /\ r = 1 => EvolvedBy(m.skill.rev)
  BY <1>3 DEF ManifestInv, Manifest, Binding
<1>5. snapshots' = Append(snapshots, m) /\ Revision = r - 1 /\ m.round = Active.round + 1
  BY DEF CommitChild, Commit, Changed
<1>6. Len(snapshots) = r /\ m.round = r
  <2>1. PICK n \in Nat : n = Len(snapshots)
    BY <1>t, Types
  <2>2. n - 1 = r - 1
    BY <1>5, <2>1 DEF Revision
  <2>3. n = r
    BY <1>3, <2>2
  <2>4. snapshots[r].round = r - 1
    BY <1>t, <1>3, <2>1, <2>3 DEF FilesInv, SnapshotsInv
  <2>5. m.round = r - 1 + 1
    BY <1>5, <2>1, <2>3, <2>4 DEF Active
  <2> QED
    BY <1>3, <2>1, <2>3, <2>5
<1>7. Changed(snapshots[r], m, Component(r))
  BY <1>4, <1>6
<1>8. /\ reads[1] = m.skill.v /\ reads[2] = m.skill.rev
      /\ reads[3] = m.policy.v /\ reads[4] = m.policy.rev
  <2>1. Bound(p, m.round) = m
    BY DEF CommitChild, StillLive
  <2>2. [round |-> m.round, skill |-> [v |-> reads[1], rev |-> reads[2]],
         policy |-> [v |-> reads[3], rev |-> reads[4]]] = m
    BY <1>1, <2>1 DEF Bound
  <2>3. /\ m.skill = [v |-> reads[1], rev |-> reads[2]]
        /\ m.policy = [v |-> reads[3], rev |-> reads[4]]
    BY <2>2
  <2> QED
    BY <2>3
<1>9. PICK x \in pairs :
        /\ x.skill.v = reads[1] /\ m.skill.rev <= x.skill.rev /\ m.policy.rev <= x.policy.rev
        /\ x.skill.rev <= reads[2]
        /\ \E y \in pairs : /\ y.policy.v = reads[3] /\ x.policy.rev <= y.policy.rev
                            /\ y.policy.rev <= reads[4]
  <2>1. AgreesWith(pairs, reads, m)
    BY <1>1, <1>3 DEF ReadAgain
  <2> QED
    BY <1>2, <2>1 DEF AgreesWith
<1>10. PICK y \in pairs : /\ y.policy.v = reads[3] /\ x.policy.rev <= y.policy.rev
                          /\ y.policy.rev <= reads[4]
  BY <1>9
<1>11. x.skill = m.skill /\ x.policy = m.policy
  <2>1. x.skill.rev = m.skill.rev
    BY <1>p, <1>4, <1>8, <1>9
  <2>2. x.policy.rev = y.policy.rev /\ y.policy.rev = m.policy.rev
    BY <1>p, <1>4, <1>8, <1>9, <1>10
  <2>3. x.policy = y.policy
    BY <1>p, <2>2
  <2>4. x.skill \in Binding /\ x.policy \in Binding
    BY <1>p DEF Pair
  <2> QED
    BY <1>4, <1>8, <1>9, <1>10, <2>1, <2>2, <2>3, <2>4 DEF Binding
<1>12. [skill |-> m.skill, policy |-> m.policy] \in pairs
  <2>1. x = [skill |-> m.skill, policy |-> m.policy]
    BY <1>p, <1>11 DEF Pair
  <2> QED
    BY <2>1
<1>13. m[Component(r)].v = Evolved
  <2>1. CASE r = 1
    <3>1. Follows(m.skill, snapshots[1].skill)
      BY <1>7, <2>1 DEF Changed, Component
    <3>2. PICK z \in pairs : /\ z.skill.v = Evolved /\ z.skill.rev <= m.skill.rev
                             /\ snapshots[1].skill.rev < z.skill.rev
      BY <1>4, <2>1 DEF EvolvedBy
    <3>3. snapshots[1].skill.rev \in Nat
      BY <1>t, <1>6, <2>1, Types DEF Manifest, Binding
    <3>4. z.skill.rev = x.skill.rev
      BY <1>p, <1>4, <1>11, <3>1, <3>2, <3>3 DEF Follows
    <3>5. m.skill.v = Evolved
      BY <1>p, <1>11, <3>2, <3>4
    <3> QED
      BY <2>1, <3>5 DEF Component
  <2>2. CASE r = 2
    <3>1. Follows(m.policy, snapshots[2].policy)
      BY <1>7, <2>2 DEF Changed, Component
    <3>2. snapshots[2].policy.rev <= 1
          /\ \E z \in pairs : z.policy.v = Evolved /\ z.policy.rev = 1
      BY <1>t, <1>3, <2>2 DEF FilesInv, ResultsInv, Promotion
    <3>3. PICK z \in pairs : z.policy.v = Evolved /\ z.policy.rev = 1
      BY <3>2
    <3>4. snapshots[2].policy.rev \in Nat
      BY <1>t, <1>6, <2>2, Types DEF Manifest, Binding
    <3>5. PICK w : w = [skill |-> snapshots[2].skill, policy |-> snapshots[2].policy]
      OBVIOUS
    <3>6. w \in pairs /\ w.policy = snapshots[2].policy
      BY <1>t, <1>6, <2>2, <3>5 DEF FilesInv, SnapshotsInv
    <3>7. snapshots[2].policy.v # Evolved
      <4>1. evaluations[2] = Scores(1) /\ evaluations[2] = Outcome(snapshots[2])
        BY <1>t, <1>3, <2>2, Types DEF Working, Evaluated, FilesInv, EvaluationsInv
      <4>2. snapshots[2].policy.v \notin Good
        BY <4>1, OutcomeOf
      <4> QED
        BY <4>2, MultiTrackAssumption
    <3>8. snapshots[2].policy.rev # 1
      BY <1>p, <3>3, <3>6, <3>7
    <3>9. m.policy.rev = 1
      BY <3>1, <3>2, <3>4, <3>8 DEF Follows
    <3>10. m.policy.v = Evolved
      BY <1>p, <1>11, <3>3, <3>9
    <3> QED
      BY <2>2, <3>10 DEF Component
  <2> QED
    BY <1>3, <2>1, <2>2
<1> QED
  BY <1>3, <1>4, <1>5, <1>6, <1>7, <1>12, <1>13

LEMMA CommitChildStep ==
  ASSUME IInv, NEW p \in Process, CommitChild(p)
  PROVE  IInv'
<1>1. PICK m : m = job[p].man
  OBVIOUS
<1>2. PICK r : r = job[p].round
  OBVIOUS
<1>3. /\ r \in {1, 2} /\ Len(snapshots) = r /\ Working(r) /\ HasResult(r)
      /\ m \in Manifest /\ m.round = r
      /\ m.skill.rev <= live.skill.rev /\ m.policy.rev <= live.policy.rev
      /\ snapshots' = Append(snapshots, m)
      /\ Changed(snapshots[r], m, Component(r))
      /\ [skill |-> m.skill, policy |-> m.policy] \in pairs
      /\ m[Component(r)].v = Evolved
  BY <1>1, <1>2, CommittedChild
<1>u. /\ UNCHANGED <<live, pairs, runVars>> /\ live' = live /\ pairs' = pairs
      /\ evaluations' = evaluations /\ decisions' = decisions
      /\ run' = run /\ cases' = cases /\ results' = results
  BY DEF CommitChild, runVars, SameWorld
<1>f. FilesInv
  BY DEF IInv
<1>l. /\ Len(evaluations) \in Nat /\ Len(decisions) \in Nat /\ live.skill.rev \in Nat
      /\ live.policy.rev \in Nat /\ snapshots \in Seq(Manifest)
  BY <1>f, Types
<1>4. /\ snapshots' \in Seq(Manifest) /\ Len(snapshots') = r + 1 /\ snapshots'[r + 1] = m
      /\ \A i \in 1 .. r : snapshots'[i] = snapshots[i]
  BY <1>3, <1>l
<1>5. Extends
  BY <1>3, <1>4, <1>u, <1>l DEF Extends, Longer
<1>6. TypeOK'
  BY <1>f, <1>u, <1>4 DEF FilesInv, TypeOK, LineageTypeOK, RunTypeOK
<1>7. PairsInv' /\ ResultsInv' /\ RunVerifies'
  BY <1>f, <1>u, <1>l, <1>3, <1>4, <1>5, RunIsUntouched
<1>8. SnapshotsInv'
  <2>1. Len(snapshots') <= 3
    BY <1>3, <1>4
  <2>2. ASSUME NEW i \in 1 .. Len(snapshots')
        PROVE  /\ snapshots'[i].round = i - 1
               /\ snapshots'[i].skill.rev <= live'.skill.rev
               /\ snapshots'[i].policy.rev <= live'.policy.rev
    <3>1. CASE i = r + 1
      BY <1>3, <1>4, <1>u, <3>1
    <3>2. CASE i # r + 1
      <4>1. i \in 1 .. Len(snapshots)
        BY <1>3, <1>4, <3>2
      <4> QED
        BY <1>f, <1>3, <1>4, <1>u, <4>1 DEF FilesInv, SnapshotsInv
    <3> QED
      BY <3>1, <3>2
  <2>3. ASSUME NEW i \in 2 .. Len(snapshots')
        PROVE  /\ Changed(snapshots'[i - 1], snapshots'[i], Component(i - 1))
               /\ snapshots'[i][Component(i - 1)].v = Evolved
               /\ [skill |-> snapshots'[i].skill, policy |-> snapshots'[i].policy] \in pairs'
               /\ HasResult(i - 1)'
    <3>1. CASE i = r + 1
      <4>1. i - 1 = r /\ snapshots'[r] = snapshots[r]
        BY <1>3, <1>4, <3>1
      <4>2. HasResult(r)'
        BY <1>3, <1>u DEF HasResult
      <4> QED
        BY <1>3, <1>4, <1>u, <3>1, <4>1, <4>2
    <3>2. CASE i # r + 1
      <4>1. i \in 2 .. Len(snapshots) /\ i \in 1 .. r /\ i - 1 \in 1 .. r
        BY <1>3, <1>4, <3>2
      <4>2. /\ Changed(snapshots[i - 1], snapshots[i], Component(i - 1))
            /\ snapshots[i][Component(i - 1)].v = Evolved
            /\ [skill |-> snapshots[i].skill, policy |-> snapshots[i].policy] \in pairs
            /\ HasResult(i - 1)
        BY <1>f, <4>1 DEF FilesInv, SnapshotsInv
      <4>3. snapshots'[i] = snapshots[i] /\ snapshots'[i - 1] = snapshots[i - 1]
        BY <1>4, <4>1
      <4>4. HasResult(i - 1)'
        BY <1>u, <4>2 DEF HasResult
      <4> QED
        BY <1>u, <4>2, <4>3, <4>4
    <3> QED
      BY <3>1, <3>2
  <2> QED
    BY <2>1, <2>2, <2>3 DEF SnapshotsInv
<1>9. EvaluationsInv'
  <2>1. r <= Len(evaluations) /\ Len(evaluations) <= r
    BY <1>f, <1>l, <1>3 DEF FilesInv, EvaluationsInv, Working, Evaluated
  <2>2. \A i \in 1 .. Len(evaluations') : evaluations'[i] = Outcome(snapshots'[i])
    <3>1. ASSUME NEW i \in 1 .. Len(evaluations) PROVE evaluations[i] = Outcome(snapshots'[i])
      <4>1. snapshots'[i] = snapshots[i]
        BY <1>l, <1>3, <1>4, <2>1
      <4> QED
        BY <1>f, <4>1 DEF FilesInv, EvaluationsInv
    <3> QED
      BY <1>u, <3>1
  <2>3. Matched'
    <3>1. Matched
      BY <1>f, <1>l, <1>3, <2>1 DEF FilesInv, EvaluationsInv
    <3>2. snapshots'[1] = snapshots[1]
      BY <1>3, <1>4
    <3> QED
      BY <1>u, <3>1, <3>2 DEF Matched
  <2>4. Len(evaluations') <= Len(snapshots') /\ Len(snapshots') <= Len(evaluations') + 1
    BY <1>u, <1>l, <1>3, <1>4, <2>1
  <2> QED
    BY <2>2, <2>3, <2>4 DEF EvaluationsInv
<1>10. DecisionsInv' /\ EndInv'
  BY <1>f, <1>u DEF FilesInv, DecisionsInv, EndInv, Mutable, Pending
<1>11. FilesInv'
  BY <1>6, <1>7, <1>8, <1>9, <1>10 DEF FilesInv
<1>12. GotoRound(p, "evaluate", r)
  BY <1>2 DEF CommitChild, Goto
<1>13. Reached(r)'
  BY <1>3, <1>4 DEF Reached, Rounds
<1>14. JobInv(p)'
  BY <1>12, <1>13, GoneTo
<1> QED
  BY <1>5, <1>11, <1>12, <1>14, StepOfOne DEF GotoRound

(* The evaluation is recorded for the snapshot that it was derived from,    *)
(* although it is looked up again: a later one is not in `created'.         *)
LEMMA RecordedEvaluation ==
  ASSUME IInv, NEW p \in Process, EvaluateRecord(p), NEW r, r = job[p].round
  PROVE  /\ r \in 0 .. 2 /\ Len(snapshots) = r + 1 /\ Len(evaluations) = r
         /\ job[p].outcome = Outcome(snapshots[r + 1]) /\ Active = snapshots[r + 1]
         /\ evaluations' = Append(evaluations, job[p].outcome)
         /\ r = 0 => Matched
         /\ r > 0 => MayFollow(r)
<1>t. FilesInv /\ EvaluationInv(p) /\ job[p].pc = "record_evaluation"
  BY DEF IInv, JobInv, EvaluateRecord
<1>1. /\ Reached(r) /\ job[p].outcome = Outcome(snapshots[r + 1]) /\ (r = 0 => Matched)
      /\ \A c \in job[p].created :
           r < c.round /\ c.round <= 2 => r = 1 /\ c.round = 2 /\ c.skill # snapshots[2].skill
  BY <1>t DEF EvaluationInv
<1>2. PICK n \in Nat : n = Len(snapshots)
  BY <1>t, Types
<1>3. /\ r \in 0 .. 2 /\ n > r /\ n <= 3
      /\ \A i \in 1 .. n : snapshots[i] \in Manifest /\ snapshots[i].round = i - 1
  BY <1>t, <1>1, <1>2, Types DEF Reached, Rounds, FilesInv, SnapshotsInv
<1>4. /\ Active = snapshots[n] /\ Active \in job[p].created
      /\ Len(evaluations) = n - 1 /\ (n - 1 > 0 => MayFollow(n - 1))
      /\ evaluations' = Append(evaluations, job[p].outcome)
  BY <1>2 DEF EvaluateRecord, RecordEvaluation, Active, Revision
<1>5. n = r + 1
  <2> SUFFICES ASSUME n # r + 1 PROVE FALSE
    OBVIOUS
  <2>1. Active.round = n - 1 /\ r < n - 1 /\ n - 1 <= 2
    BY <1>3, <1>4
  <2>2. r = 1 /\ n = 3 /\ snapshots[3].skill # snapshots[2].skill
    BY <1>1, <1>3, <1>4, <2>1
  <2>3. Changed(snapshots[2], snapshots[3], "policy")
    BY <1>t, <1>2, <2>2 DEF FilesInv, SnapshotsInv, Component
  <2> QED
    BY <2>2, <2>3 DEF Changed
<1> QED
  BY <1>1, <1>2, <1>3, <1>4, <1>5

LEMMA EvaluateRecordStep ==
  ASSUME IInv, NEW p \in Process, EvaluateRecord(p)
  PROVE  IInv'
<1>f. FilesInv
  BY DEF IInv
<1>1. PICK r : r = job[p].round
  OBVIOUS
<1>2. PICK outcome : outcome = job[p].outcome
  OBVIOUS
<1>3. /\ r \in 0 .. 2 /\ Len(snapshots) = r + 1 /\ Len(evaluations) = r
      /\ outcome = Outcome(snapshots[r + 1]) /\ Active = snapshots[r + 1]
      /\ evaluations' = Append(evaluations, outcome)
      /\ r = 0 => Matched
      /\ r > 0 => MayFollow(r)
  BY <1>1, <1>2, RecordedEvaluation
<1>u. /\ UNCHANGED <<live, pairs, runVars>> /\ live' = live /\ pairs' = pairs
      /\ snapshots' = snapshots /\ decisions' = decisions
      /\ run' = run /\ cases' = cases /\ results' = results
  BY DEF EvaluateRecord, runVars, SameWorld
<1>l. /\ Len(decisions) \in Nat /\ live.skill.rev \in Nat /\ live.policy.rev \in Nat
      /\ evaluations \in Seq([skill: BOOLEAN, policy: BOOLEAN])
  BY <1>f, Types
<1>4. outcome \in [skill: BOOLEAN, policy: BOOLEAN]
  BY <1>3 DEF Outcome
<1>5. /\ evaluations' \in Seq([skill: BOOLEAN, policy: BOOLEAN])
      /\ Len(evaluations') = r + 1 /\ evaluations'[r + 1] = outcome
      /\ \A i \in 1 .. r : evaluations'[i] = evaluations[i]
  BY <1>3, <1>4, <1>l
<1>6. Extends
  BY <1>3, <1>5, <1>u, <1>l DEF Extends, Longer
<1>7. TypeOK'
  BY <1>f, <1>u, <1>5 DEF FilesInv, TypeOK, LineageTypeOK, RunTypeOK
<1>8. PairsInv' /\ ResultsInv' /\ RunVerifies'
  BY <1>f, <1>u, <1>l, <1>3, <1>5, <1>6, RunIsUntouched
<1>9. SnapshotsInv'
  BY <1>f, <1>u DEF FilesInv, SnapshotsInv, HasResult
<1>10. EvaluationsInv'
  <2>1. ASSUME NEW i \in 1 .. r + 1 PROVE evaluations'[i] = Outcome(snapshots[i])
    <3>1. CASE i = r + 1
      BY <1>3, <1>5, <3>1
    <3>2. CASE i # r + 1
      <4>1. i \in 1 .. r
        BY <1>3, <3>2
      <4>2. evaluations[i] = Outcome(snapshots[i])
        BY <1>f, <1>3, <4>1 DEF FilesInv, EvaluationsInv
      <4> QED
        BY <1>5, <4>1, <4>2
    <3> QED
      BY <3>1, <3>2
  <2>2. Matched'
    <3>1. Matched
      BY <1>f, <1>3 DEF FilesInv, EvaluationsInv
    <3> QED
      BY <1>u, <3>1 DEF Matched
  <2>3. \A i \in 1 .. Len(evaluations') : evaluations'[i] = Outcome(snapshots'[i])
    BY <1>5, <1>u, <2>1
  <2>4. Len(evaluations') <= Len(snapshots') /\ Len(snapshots') <= Len(evaluations') + 1
    BY <1>3, <1>5, <1>u
  <2> QED
    BY <2>2, <2>3, <2>4 DEF EvaluationsInv
<1>11. DecisionsInv'
  <2>1. Len(decisions) = r
    <3>1. CASE r = 0
      BY <1>f, <1>l, <1>3, <3>1 DEF FilesInv, DecisionsInv
    <3>2. CASE r # 0
      BY <1>3, <3>2 DEF MayFollow
    <3> QED
      BY <3>1, <3>2
  <2>2. ASSUME NEW i \in 1 .. r
        PROVE  /\ decisions[i].action = "continue"
               /\ decisions[i].action = "stop" => evaluations'[i].skill /\ evaluations'[i].policy
    <3>1. /\ decisions[i].action # "continue" => i = r
      BY <1>f, <1>3, <2>1 DEF FilesInv, DecisionsInv
    <3>2. decisions[r].action = "continue"
      BY <1>3, <2>2 DEF MayFollow
    <3> QED
      BY <3>1, <3>2
  <2> QED
    BY <1>f, <1>u, <1>3, <1>5, <2>1, <2>2 DEF FilesInv, DecisionsInv
<1>12. EndInv'
  BY <1>f, <1>u DEF FilesInv, EndInv, Mutable, Pending
<1>13. FilesInv'
  BY <1>7, <1>8, <1>9, <1>10, <1>11, <1>12 DEF FilesInv
<1>14. CASE Done(p)
  BY <1>6, <1>13, <1>14, IdleJob, StepOfOne DEF Done
<1>15. CASE ~Done(p)
  <2>1. PICK pc : pc = AfterEvaluation(p)
    OBVIOUS
  <2>2. GotoRound(p, pc, r) /\ outcome = Scores(r)
    BY <1>1, <1>2, <1>15, <2>1 DEF EvaluateRecord, Goto
  <2>3. pc \in {"admit", "decide"} /\ (pc = "admit" => r = 0)
    BY <1>1, <2>1 DEF AfterEvaluation
  <2>4. Evaluated(r)'
    BY <1>3, <1>5, <2>2 DEF Evaluated, Rounds
  <2>5. JobInv(p)'
    BY <2>2, <2>3, <2>4, GoneTo
  <2> QED
    BY <1>6, <1>13, <2>2, <2>5, StepOfOne DEF GotoRound
<1> QED
  BY <1>14, <1>15

LEMMA DecideRecordStep ==
  ASSUME IInv, NEW p \in Process, DecideRecord(p)
  PROVE  IInv'
<1>f. FilesInv /\ WorkInv(p) /\ job[p].pc = "record_decision"
  BY DEF IInv, JobInv, DecideRecord
<1>1. PICK r : r = job[p].round
  OBVIOUS
<1>2. PICK pending : pending = job[p].pending
  OBVIOUS
<1>3. Evaluated(r) /\ pending \subseteq Case
  BY <1>f, <1>1, <1>2 DEF WorkInv
<1>u. /\ UNCHANGED <<live, pairs, runVars>> /\ live' = live /\ pairs' = pairs
      /\ snapshots' = snapshots /\ evaluations' = evaluations
      /\ run' = run /\ cases' = cases /\ results' = results
  BY DEF DecideRecord, runVars, SameWorld
<1>l. /\ live.skill.rev \in Nat /\ live.policy.rev \in Nat
      /\ decisions \in Seq([action: Actions, cases: SUBSET Case])
  BY <1>f, Types
<1>4. PICK n \in Nat : n = Len(snapshots)
  BY <1>f, Types
<1>5. PICK d : d = [action |-> StopRule(n - 1, evaluations[n], pending), cases |-> pending]
  OBVIOUS
<1>6. /\ Len(evaluations) = n /\ Len(decisions) = n - 1 /\ decisions' = Append(decisions, d)
      /\ n \in 1 .. 3 /\ r \in 0 .. 2 /\ r < n
  <2>1. /\ n - 1 < Len(evaluations) /\ n - 1 = Len(decisions)
        /\ decisions' = Append(decisions, d)
    <3>1. RecordDecision(n - 1, pending)
      BY <1>2, <1>4 DEF DecideRecord, Revision
    <3>2. n - 1 + 1 = n
      BY <1>4
    <3> QED
      BY <1>5, <3>1, <3>2 DEF RecordDecision
  <2>2. PICK e \in Nat : e = Len(evaluations)
    BY <1>f, Types
  <2>3. e <= n /\ n <= 3 /\ r < e /\ r \in 0 .. 2
    BY <1>f, <1>3, <1>4, <2>2 DEF FilesInv, EvaluationsInv, SnapshotsInv, Evaluated, Rounds
  <2> QED
    BY <2>1, <2>2, <2>3
<1>7. /\ d \in [action: Actions, cases: SUBSET Case]
      /\ d.action = "stop" => evaluations[n].skill /\ evaluations[n].policy
  BY <1>3, <1>5 DEF StopRule, Actions
<1>8. /\ decisions' \in Seq([action: Actions, cases: SUBSET Case])
      /\ Len(decisions') = n /\ decisions'[n] = d
      /\ \A i \in 1 .. n - 1 : decisions'[i] = decisions[i]
  BY <1>6, <1>7, <1>l
<1>9. Extends
  BY <1>4, <1>6, <1>8, <1>u, <1>l DEF Extends, Longer
<1>10. TypeOK'
  <2>1. \A i \in DOMAIN decisions' : decisions'[i].action \in Actions
    <3>1. ASSUME NEW i \in DOMAIN decisions'
          PROVE  decisions'[i] \in [action: Actions, cases: SUBSET Case]
      <4>1. PICK S : S = [action: Actions, cases: SUBSET Case]
        OBVIOUS
      <4>2. decisions' \in Seq(S)
        BY <1>8, <4>1
      <4>3. i \in 1 .. Len(decisions')
        BY <4>2
      <4>4. decisions'[i] \in S
        BY <4>2, <4>3
      <4> QED
        BY <4>1, <4>4
    <3> QED
      BY <3>1
  <2> QED
    BY <1>f, <1>u, <2>1 DEF FilesInv, TypeOK, LineageTypeOK, RunTypeOK
<1>11. PairsInv' /\ ResultsInv' /\ RunVerifies'
  BY <1>f, <1>u, <1>4, <1>6, <1>8, <1>9, RunIsUntouched
<1>12. SnapshotsInv' /\ EvaluationsInv'
  BY <1>f, <1>u DEF FilesInv, SnapshotsInv, HasResult, EvaluationsInv, Matched
<1>13. DecisionsInv'
  <2>1. ASSUME NEW i \in 1 .. n
        PROVE  /\ decisions'[i].action # "continue" => i = n
               /\ decisions'[i].action = "stop" => evaluations[i].skill /\ evaluations[i].policy
    <3>1. CASE i = n
      BY <1>7, <1>8, <3>1
    <3>2. CASE i # n
      <4>1. i \in 1 .. Len(decisions) /\ decisions'[i] = decisions[i]
        BY <1>6, <1>8, <3>2
      <4> QED
        BY <1>f, <1>6, <4>1 DEF FilesInv, DecisionsInv
    <3> QED
      BY <3>1, <3>2
  <2> QED
    BY <1>u, <1>6, <1>8, <2>1 DEF DecisionsInv
<1>14. EndInv'
  <2>1. ~(run # NoRun /\ ~Mutable)
    BY <1>f, <1>6 DEF FilesInv, EndInv
  <2> QED
    BY <1>u, <2>1 DEF EndInv, Mutable
<1>15. FilesInv'
  BY <1>10, <1>11, <1>12, <1>13, <1>14 DEF FilesInv
<1>16. CASE Done(p)
  BY <1>9, <1>15, <1>16, IdleJob, StepOfOne DEF Done
<1>17. CASE ~Done(p)
  <2>1. PICK pc : pc = AfterDecision(p)
    OBVIOUS
  <2>2. PICK next : next = NextRound(p)
    OBVIOUS
  <2>3. GotoRound(p, pc, next)
    BY <1>17, <2>1, <2>2 DEF DecideRecord
  <2>4. Evaluated(r)' /\ Len(decisions') > r /\ Len(decisions') \in Nat
    BY <1>3, <1>4, <1>6, <1>8, <1>u DEF Evaluated
  <2>5. AfterDecisionOK(pc, next)'
    BY <1>1, <2>1, <2>2, <2>4, DecisionLeadsOn
  <2>6. JobInv(p)'
    BY <2>3, <2>5, GoneTo DEF AfterDecisionOK
  <2> QED
    BY <1>9, <1>15, <2>3, <2>6, StepOfOne DEF GotoRound
<1> QED
  BY <1>16, <1>17

-----------------------------------------------------------------------------
(* The steps that change the run.                                           *)

(* What the invariant says of the lineage does not depend on the run, nor   *)
(* on results but that they stay.                                           *)
LEMMA LineageIsUntouched ==
  ASSUME FilesInv, UNCHANGED <<live, pairs, lineageVars>>, results \subseteq results'
  PROVE  Extends /\ LineageTypeOK' /\ PairsInv' /\ SnapshotsInv' /\ EvaluationsInv' /\ DecisionsInv'
<1>1. /\ live' = live /\ pairs' = pairs /\ snapshots' = snapshots
      /\ evaluations' = evaluations /\ decisions' = decisions
  BY DEF lineageVars
<1>2. Extends
  BY <1>1, Types DEF Extends, Longer
<1>3. PairsInv' /\ EvaluationsInv' /\ DecisionsInv'
  BY <1>1 DEF FilesInv, PairsInv, EvaluationsInv, DecisionsInv, Matched
<1>4. SnapshotsInv'
  <2>1. \A r : HasResult(r) => HasResult(r)'
    BY DEF HasResult
  <2> QED
    BY <1>1, <2>1 DEF FilesInv, SnapshotsInv
<1>5. LineageTypeOK'
  BY <1>1 DEF FilesInv, TypeOK, LineageTypeOK
<1> QED
  BY <1>2, <1>3, <1>4, <1>5

LEMMA NoOneMoves ==
  ASSUME IInv, FilesInv', Extends, job' = job
  PROVE  IInv'
<1>1. ASSUME NEW q \in Process PROVE JobInv(q)'
  BY JobIsStable DEF IInv
<1> QED
  BY <1>1 DEF IInv

(* The results stay: only cases, revision and status of the run change.     *)
LEMMA ResultsStay ==
  ASSUME FilesInv, UNCHANGED <<live, pairs, lineageVars>>, results' = results, run' # NoRun
  PROVE  ResultsInv'
<1>1. live' = live /\ pairs' = pairs /\ snapshots' = snapshots
  BY DEF lineageVars
<1>2. ASSUME NEW r \in {1, 2}, HasResult(r)' PROVE Promotion(r)'
  <2>1. Promotion(r)
    BY <1>2 DEF HasResult, FilesInv, ResultsInv
  <2> QED
    BY <1>1, <2>1 DEF Promotion, EvolvedBy
<1> QED
  BY <1>2 DEF FilesInv, ResultsInv

LEMMA CreateStep ==
  ASSUME IInv, NEW p \in Process, Create(p)
  PROVE  IInv'
<1>t. FilesInv /\ WorkInv(p) /\ job[p].pc = "create"
  BY DEF IInv, JobInv, Create
<1>u. UNCHANGED <<live, pairs, lineageVars>> /\ results' = results /\ cases' = cases
  BY DEF Create, CreateRun, SameWorld
<1>1. Extends /\ LineageTypeOK' /\ PairsInv' /\ SnapshotsInv' /\ EvaluationsInv' /\ DecisionsInv'
  BY <1>t, <1>u, LineageIsUntouched
<1>2. FilesInv'
  <2>1. CASE run # NoRun
    <3>1. run' = run
      BY <2>1 DEF Create, CreateRun
    <3>2. UNCHANGED <<live, lineageVars, runVars, pairs>>
      BY <1>u, <3>1 DEF runVars
    <3> QED
      BY <1>t, <3>2, FilesStay
  <2>2. CASE run = NoRun
    <3>1. run' = [status |-> "open", rev |-> 0, round |-> 0]
      BY <2>2 DEF Create, CreateRun
    <3>2. results = {} /\ \A c \in Case : cases[c] = "absent"
      BY <1>t, <2>2 DEF FilesInv, ResultsInv
    <3>3. run' \in [status: Statuses, rev: Nat, round: Nat] /\ run' # NoRun /\ Mutable'
          /\ run'.status = "open" /\ run'.rev = 0 /\ run'.round = 0
      BY <3>1 DEF Statuses, Open, NoRun, Mutable
    <3>4. RunTypeOK(Version)'
      BY <1>t, <1>u, <3>3 DEF FilesInv, TypeOK, RunTypeOK
    <3>5. ResultsInv'
      BY <1>t, <1>u, <3>3, ResultsStay
    <3>6. Claimed' = {} /\ {c \in Case : cases'[c] = "completed"} = {}
      BY <1>u, <3>2 DEF Claimed
    <3>7. Cardinality(results') = 0 /\ results' = {}
      BY <1>u, <3>2, FS_EmptySet
    <3>8. EventsVerify'
      BY <3>3, <3>6, <3>7 DEF EventsVerify
    <3>9. RunVerifies'
      BY <3>3, <3>6, <3>7, <3>8 DEF RunVerifies
    <3>10. EndInv'
      BY <3>3 DEF EndInv
    <3> QED
      BY <1>1, <3>4, <3>5, <3>9, <3>10 DEF FilesInv, TypeOK
  <2> QED
    BY <2>1, <2>2
<1>3. CASE snapshots = <<>>
  <2>1. BeginReading(p, "register", NoManifest)
    BY <1>3 DEF Create
  <2>2. PICK r : r = job[p].round
    OBVIOUS
  <2>3. r = 0 /\ r \in Rounds
    BY <1>t, <2>2 DEF WorkInv, Rounds
  <2>4. JobInv(p)'
    BY <2>1, <2>2, <2>3, BeginsToRead
  <2> QED
    BY <1>1, <1>2, <2>1, <2>4, StepOfOne DEF BeginReading
<1>4. CASE snapshots # <<>>
  <2>1. GotoRound(p, "evaluate", 0)
    BY <1>t, <1>4 DEF Create, Goto, WorkInv
  <2>2. Reached(0)'
    <3>1. snapshots' = snapshots /\ Len(snapshots) # 0 /\ Len(snapshots) \in Nat
      BY <1>t, <1>u, <1>4, Types DEF lineageVars
    <3> QED
      BY <3>1 DEF Reached, Rounds
  <2>3. JobInv(p)'
    BY <2>1, <2>2, GoneTo
  <2> QED
    BY <1>1, <1>2, <2>1, <2>3, StepOfOne DEF GotoRound
<1> QED
  BY <1>3, <1>4

(* A run that may change is there, and is a row.                            *)
LEMMA MutableRun ==
  ASSUME FilesInv, Mutable
  PROVE  /\ run # NoRun /\ run \in [status: Statuses, rev: Nat, round: Nat]
         /\ cases \in [Case -> CaseStatuses]
         /\ Cardinality(results) \in Nat /\ run.round = Cardinality(results)
         /\ run.rev = 2 * Cardinality(results) + (IF Claimed # {} THEN 1 ELSE 0)
         /\ (run.status = "running" <=> Claimed # {})
         /\ {c \in Case : cases[c] = "completed"} = UNION {r.cases : r \in results}
<1>1. run # NoRun
  BY DEF Mutable, NoRun, Open
<1>2. run \in [status: Statuses, rev: Nat, round: Nat] /\ cases \in [Case -> CaseStatuses]
  BY <1>1 DEF FilesInv, TypeOK, RunTypeOK
<1>3. PICK n \in Nat : n = Cardinality(results)
  BY FS_CardinalityType DEF FilesInv, ResultsInv
<1>4. PICK c \in {0, 1} : c = IF Claimed # {} THEN 1 ELSE 0
  OBVIOUS
<1>5. run.rev = 2 * n + c + 0
  BY <1>1, <1>3, <1>4 DEF FilesInv, RunVerifies, EventsVerify
<1>6. run.rev = 2 * n + c
  BY <1>3, <1>4, <1>5
<1> QED
  BY <1>1, <1>2, <1>3, <1>4, <1>6 DEF FilesInv, RunVerifies, EventsVerify

LEMMA AdmitKeepsFiles ==
  ASSUME FilesInv, NEW k, AdmitCase(k), UNCHANGED <<live, pairs, lineageVars>>
  PROVE  FilesInv' /\ Extends
<1>1. Mutable /\ run' = run /\ results' = results /\ Mutable'
  BY DEF AdmitCase, Mutable
<1>2. run # NoRun /\ cases \in [Case -> CaseStatuses]
  BY <1>1, MutableRun
<1>3. CASE cases' = cases
  <2>1. UNCHANGED <<live, lineageVars, runVars, pairs>>
    BY <1>1, <1>3 DEF runVars
  <2> QED
    BY <2>1, FilesStay
<1>4. CASE cases' # cases
  <2>1. PICK status \in {"pending", "escalated"} :
          cases' = [c \in Case |-> IF c \in {k} THEN status ELSE cases[c]]
    BY <1>4 DEF AdmitCase, Mark
  <2>2. cases[k] = "absent"
    BY <1>4 DEF AdmitCase
  <2>3. cases' \in [Case -> CaseStatuses]
    BY <1>2, <2>1 DEF CaseStatuses
  <2>4. Claimed' = Claimed
    BY <2>1, <2>2 DEF Claimed
  <2>5. {c \in Case : cases'[c] = "completed"} = {c \in Case : cases[c] = "completed"}
    BY <2>1, <2>2
  <2>6. RunVerifies'
    BY <1>1, <1>2, <2>4, <2>5 DEF FilesInv, RunVerifies, EventsVerify
  <2>7. EndInv'
    BY <1>1 DEF EndInv
  <2>8. ResultsInv'
    BY <1>1, <1>2, ResultsStay
  <2>9. RunTypeOK(Version)'
    BY <1>1, <2>3 DEF FilesInv, TypeOK, RunTypeOK
  <2> QED
    BY <1>1, <2>6, <2>7, <2>8, <2>9, LineageIsUntouched DEF FilesInv, TypeOK
<1> QED
  BY <1>3, <1>4

LEMMA AdmitSteps ==
  ASSUME IInv, (\E p \in Process : Admit(p)) \/ (\E k \in Case : AdmitOther(k))
  PROVE  IInv'
<1>1. PICK k : /\ AdmitCase(k) /\ UNCHANGED <<live, lineageVars, job, packaged>> /\ SameWorld
  BY DEF Admit, AdmitOther
<1>2. UNCHANGED <<live, pairs, lineageVars>> /\ job' = job
  BY <1>1 DEF SameWorld
<1> QED
  BY <1>1, <1>2, AdmitKeepsFiles, NoOneMoves DEF IInv

LEMMA ClaimKeepsFiles ==
  ASSUME FilesInv, NEW ks \in SUBSET Case, NEW rev, Claim(ks, rev),
         UNCHANGED <<live, pairs, lineageVars>>
  PROVE  FilesInv' /\ Extends
<1>1. /\ Mutable /\ Claimed = {} /\ ks # {} /\ results' = results
      /\ \A k \in ks : cases[k] = "pending"
      /\ cases' = [c \in Case |-> IF c \in ks THEN "claimed" ELSE cases[c]]
  BY DEF Claim, Mark
<1>2. PICK n \in Nat : n = Cardinality(results)
  BY <1>1, MutableRun
<1>3. /\ run # NoRun /\ run \in [status: Statuses, rev: Nat, round: Nat]
      /\ cases \in [Case -> CaseStatuses]
      /\ run.round = n /\ run.rev = 2 * n
      /\ {c \in Case : cases[c] = "completed"} = UNION {r.cases : r \in results}
  BY <1>1, <1>2, MutableRun
<1>4. run' = [run EXCEPT !.status = "running", !.rev = 2 * n + 1]
  BY <1>3 DEF Claim
<1>5. /\ run' \in [status: Statuses, rev: Nat, round: Nat] /\ run' # NoRun /\ Mutable'
      /\ run'.status = "running" /\ run'.rev = 2 * n + 1 /\ run'.round = n
  <2>1. PICK q \in Nat : q = 2 * n + 1
    OBVIOUS
  <2>2. run' = [run EXCEPT !.status = "running", !.rev = q]
    BY <1>4, <2>1
  <2>3. run'.status = "running" /\ run'.rev = q /\ run'.round = n
    BY <1>3, <2>2
  <2>4. run' \in [status: Statuses, rev: Nat, round: Nat]
    BY <1>3, <2>2 DEF Statuses, Open
  <2> QED
    BY <2>1, <2>3, <2>4 DEF Open, Mutable, NoRun
<1>6. cases' \in [Case -> CaseStatuses]
  BY <1>1, <1>3 DEF CaseStatuses
<1>7. Claimed' # {}
  BY <1>1 DEF Claimed
<1>8. {c \in Case : cases'[c] = "completed"} = {c \in Case : cases[c] = "completed"}
  BY <1>1
<1>9. EventsVerify'
  <2>1. run'.rev = 2 * Cardinality(results') + 1 + 0
    BY <1>1, <1>2, <1>5
  <2> QED
    BY <1>1, <1>3, <1>5, <1>7, <1>8, <2>1 DEF EventsVerify
<1>10. RunVerifies'
  BY <1>1, <1>2, <1>3, <1>5, <1>7, <1>9 DEF FilesInv, RunVerifies
<1>11. RunTypeOK(Version)' /\ EndInv'
  BY <1>1, <1>5, <1>6 DEF FilesInv, TypeOK, RunTypeOK, EndInv
<1>12. ResultsInv'
  BY <1>1, <1>5, ResultsStay
<1> QED
  BY <1>1, <1>10, <1>11, <1>12, LineageIsUntouched DEF FilesInv, TypeOK

LEMMA InterveneClaimStep ==
  ASSUME IInv, NEW p \in Process, InterveneClaim(p)
  PROVE  IInv'
<1>t. FilesInv /\ WorkInv(p) /\ job[p].pc = "claim"
  BY DEF IInv, JobInv, InterveneClaim
<1>1. PICK r : r = job[p].round
  OBVIOUS
<1>2. PICK ks \in SUBSET Case : ks = job[p].plan.cases
  BY <1>t DEF WorkInv
<1>3. PICK rev : rev = job[p].plan.rev
  OBVIOUS
<1>u. UNCHANGED <<live, pairs, lineageVars>>
  BY DEF InterveneClaim, SameWorld
<1>4. FilesInv' /\ Extends
  <2>1. ClaimOrResume(ks, rev)
    BY <1>2, <1>3 DEF InterveneClaim
  <2>2. CASE UNCHANGED runVars
    BY <1>t, <1>u, <2>2, FilesStay
  <2>3. CASE Claim(ks, rev)
    BY <1>t, <1>u, <2>3, ClaimKeepsFiles
  <2> QED
    BY <2>1, <2>2, <2>3 DEF ClaimOrResume
<1>5. PICK j : j = [pc |-> "execute", round |-> r, cases |-> ks, mine |-> 0]
  OBVIOUS
<1>6. job' = [job EXCEPT ![p] = j] /\ job'[p] = j
  BY <1>1, <1>2, <1>5 DEF InterveneClaim, IInv
<1>7. Working(r)'
  <2>1. Working(r)
    BY <1>t, <1>1 DEF WorkInv
  <2> QED
    BY <1>u, <2>1 DEF Working, Evaluated, lineageVars
<1>8. JobInv(p)'
  BY <1>5, <1>6, <1>7 DEF JobInv, ReadInv, EvaluationInv, WorkInv
<1> QED
  BY <1>4, <1>6, <1>8, StepOfOne

(* The result is new to its track, and completes what was claimed.          *)
LEMMA RecordKeepsFiles ==
  ASSUME FilesInv, NEW r \in {1, 2}, Promotion(r), NEW res, NEW rev,
         res \in [track: Tracks, cases: SUBSET Case, v: Version],
         res.track = Component(r), res.v = Evolved,
         RecordNew(res, rev), \A s \in results : s.track # res.track,
         UNCHANGED <<live, pairs, lineageVars>>
  PROVE  FilesInv' /\ Extends
<1>1. /\ run.status = "running" /\ Mutable /\ res.cases = Claimed
      /\ \A k \in res.cases : track[k] = res.track
      /\ results' = results \cup {res} /\ res \notin results
      /\ cases' = [c \in Case |-> IF c \in res.cases THEN "completed" ELSE cases[c]]
  BY DEF RecordNew, Mark, Mutable, Open
<1>2. PICK n \in Nat : n = Cardinality(results)
  BY <1>1, MutableRun
<1>3. /\ run # NoRun /\ run \in [status: Statuses, rev: Nat, round: Nat]
      /\ cases \in [Case -> CaseStatuses] /\ Claimed # {}
      /\ run.round = n /\ run.rev = 2 * n + 1
      /\ {c \in Case : cases[c] = "completed"} = UNION {s.cases : s \in results}
  BY <1>1, <1>2, MutableRun
<1>4. /\ run' \in [status: Statuses, rev: Nat, round: Nat] /\ run' # NoRun /\ Mutable'
      /\ run'.status = "open" /\ run'.rev = 2 * (n + 1) /\ run'.round = n + 1
  <2>1. PICK a \in Nat : a = 2 * (n + 1)
    OBVIOUS
  <2>2. PICK b \in Nat : b = n + 1
    OBVIOUS
  <2>3. run.rev + 1 = a /\ run.round + 1 = b
    BY <1>3, <2>1, <2>2
  <2>4. run' = [run EXCEPT !.status = "open", !.rev = a, !.round = b]
    BY <2>3 DEF RecordNew
  <2>5. run'.status = "open" /\ run'.rev = a /\ run'.round = b
    BY <1>3, <2>4
  <2>6. run' \in [status: Statuses, rev: Nat, round: Nat]
    BY <1>3, <2>4 DEF Statuses, Open
  <2> QED
    BY <2>1, <2>2, <2>5, <2>6 DEF Open, Mutable, NoRun
<1>5. cases' \in [Case -> CaseStatuses]
  BY <1>1, <1>3 DEF CaseStatuses
<1>6. Claimed' = {}
  BY <1>1, <1>3 DEF Claimed
<1>7. IsFiniteSet(results') /\ Cardinality(results') = n + 1
  <2>1. IsFiniteSet(results)
    BY DEF FilesInv, ResultsInv
  <2> QED
    BY <1>1, <1>2, <2>1, FS_AddElement
<1>8. {c \in Case : cases'[c] = "completed"} = UNION {s.cases : s \in results'}
  <2>1. {c \in Case : cases'[c] = "completed"}
          = {c \in Case : cases[c] = "completed"} \cup res.cases
    BY <1>1, <1>3
  <2>2. ASSUME NEW c PROVE c \in UNION {s.cases : s \in results'}
                             <=> (c \in UNION {s.cases : s \in results} \/ c \in res.cases)
    <3>1. c \in UNION {s.cases : s \in results'} <=> \E s \in results' : c \in s.cases
      OBVIOUS
    <3>2. c \in UNION {s.cases : s \in results} <=> \E s \in results : c \in s.cases
      OBVIOUS
    <3> QED
      BY <1>1, <3>1, <3>2
  <2>3. ASSUME NEW c PROVE c \in {k \in Case : cases'[k] = "completed"}
                             <=> c \in UNION {s.cases : s \in results'}
    BY <1>3, <2>1, <2>2
  <2> QED
    BY <2>3
<1>9. EventsVerify'
  <2>1. run'.rev = 2 * Cardinality(results') + 0 + 0
    BY <1>4, <1>7
  <2> QED
    BY <1>4, <1>6, <1>8, <2>1 DEF EventsVerify
<1>10. ASSUME NEW s \in results' PROVE /\ \A k \in s.cases : track[k] = s.track
                                       /\ \A z \in results' : z = s \/ z.cases \cap s.cases = {}
  <2>1. ASSUME NEW z \in results
        PROVE  /\ \A k \in z.cases : track[k] = z.track
               /\ z.cases \cap res.cases = {}
               /\ \A w \in results : w = z \/ w.cases \cap z.cases = {}
    <3>1. \A k \in z.cases : k \in Case /\ cases[k] = "completed"
      BY <1>3, <2>1
    <3>2. z.cases \cap res.cases = {}
      BY <1>1, <3>1 DEF Claimed
    <3> QED
      BY <1>3, <3>2 DEF FilesInv, RunVerifies
  <2> QED
    BY <1>1, <2>1
<1>11. RunVerifies'
  <2>1. run'.round = Cardinality(results') /\ (run'.status = "running" <=> Claimed' # {})
    BY <1>4, <1>6, <1>7
  <2> QED
    BY <1>9, <1>10, <2>1 DEF RunVerifies
<1>12. RunTypeOK(Version)' /\ EndInv'
  BY <1>1, <1>4, <1>5 DEF FilesInv, TypeOK, RunTypeOK, EndInv
<1>13. /\ Extends /\ LineageTypeOK' /\ PairsInv' /\ SnapshotsInv' /\ EvaluationsInv'
       /\ DecisionsInv'
  BY <1>1, LineageIsUntouched
<1>14. ResultsInv'
  <2>1. live' = live /\ pairs' = pairs /\ snapshots' = snapshots
    BY DEF lineageVars
  <2>2. ASSUME NEW q \in {1, 2}, HasResult(q)' PROVE Promotion(q)'
    <3>1. Promotion(q)
      <4>1. CASE q = r
        BY <4>1
      <4>2. CASE q # r
        <5>1. Component(q) # res.track
          BY <4>2 DEF Component
        <5>2. HasResult(q)
          BY <1>1, <2>2, <5>1 DEF HasResult
        <5> QED
          BY <5>2 DEF FilesInv, ResultsInv
      <4> QED
        BY <4>1, <4>2
    <3> QED
      BY <2>1, <3>1 DEF Promotion, EvolvedBy
  <2>3. /\ \A s, z \in results' : s.track = z.track => s = z
        /\ \A s \in results' : s.v = Evolved
    BY <1>1 DEF FilesInv, ResultsInv
  <2> QED
    BY <1>4, <1>7, <2>2, <2>3 DEF ResultsInv
<1> QED
  BY <1>11, <1>12, <1>13, <1>14 DEF FilesInv, TypeOK

LEMMA InterveneRecordStep ==
  ASSUME IInv, NEW p \in Process, InterveneRecord(p)
  PROVE  IInv'
<1>t. FilesInv /\ WorkInv(p) /\ job[p].pc = "record"
  BY DEF IInv, JobInv, InterveneRecord
<1>1. PICK r : r = job[p].round
  OBVIOUS
<1>2. PICK res : res = job[p].result
  OBVIOUS
<1>3. PICK rev : rev = job[p].rev
  OBVIOUS
<1>4. /\ Working(r) /\ r \in {1, 2} /\ Promotion(r)
      /\ res \in [track: Tracks, cases: SUBSET Case, v: Version]
      /\ res.track = Component(r) /\ res.v = Evolved
  BY <1>t, <1>1, <1>2 DEF WorkInv, Working
<1>u. UNCHANGED <<live, pairs, lineageVars>>
  BY DEF InterveneRecord, SameWorld
<1>5. FilesInv' /\ Extends
  <2>1. RecordResult(res, rev)
    BY <1>2, <1>3 DEF InterveneRecord
  <2>2. CASE UNCHANGED runVars
    BY <1>t, <1>u, <2>2, FilesStay
  <2>3. CASE RecordNew(res, rev) /\ \A s \in results : s.track # res.track
    BY <1>t, <1>u, <1>4, <2>3, RecordKeepsFiles
  <2> QED
    BY <2>1, <2>2, <2>3 DEF RecordResult
<1>6. GotoRound(p, "build", r)
  BY <1>1 DEF InterveneRecord, Goto
<1>7. Working(r)'
  BY <1>4, <1>u DEF Working, Evaluated, lineageVars
<1>8. JobInv(p)'
  BY <1>6, <1>7, GoneTo
<1> QED
  BY <1>5, <1>6, <1>8, StepOfOne DEF GotoRound

(* A run ends with the decision on the third round.                         *)
LEMMA CompleteNewStep ==
  ASSUME IInv, NEW p \in Process, Complete(p), job[p].action # "continue",
         CompleteNew(job[p].action, job[p].rev)
  PROVE  IInv'
<1>t. FilesInv /\ WorkInv(p) /\ job[p].pc = "complete_run"
  BY DEF IInv, JobInv, Complete
<1>1. PICK action : action = job[p].action
  OBVIOUS
<1>2. PICK r : r = job[p].round
  OBVIOUS
<1>u. /\ UNCHANGED <<live, pairs, lineageVars>> /\ results' = results /\ cases' = cases
      /\ decisions' = decisions
  BY DEF Complete, CompleteNew, SameWorld, lineageVars
<1>3. /\ Mutable /\ Claimed = {} /\ action # "continue"
      /\ action = "stop" => Pending(Tracks) = {}
      /\ run' = [run EXCEPT !.status = IF action = "stop" THEN "stopped" ELSE "escalated",
                            !.rev = @ + 1]
  BY <1>1 DEF Complete, CompleteNew, StatusAfter
<1>4. PICK n \in Nat : n = Cardinality(results)
  BY <1>t, <1>3, MutableRun
<1>5. /\ run # NoRun /\ run \in [status: Statuses, rev: Nat, round: Nat]
      /\ run.round = n /\ run.rev = 2 * n
  BY <1>t, <1>3, <1>4, MutableRun
<1>6. PICK status \in {"stopped", "escalated"} :
        status = IF action = "stop" THEN "stopped" ELSE "escalated"
  OBVIOUS
<1>7. /\ run' \in [status: Statuses, rev: Nat, round: Nat] /\ run' # NoRun /\ ~Mutable'
      /\ run'.status = status /\ run'.rev = 2 * n + 1 /\ run'.round = n
  <2>1. PICK a \in Nat : a = 2 * n + 1
    OBVIOUS
  <2>2. run' = [run EXCEPT !.status = status, !.rev = a]
    BY <1>3, <1>5, <1>6, <2>1
  <2>3. run'.status = status /\ run'.rev = a /\ run'.round = n
    BY <1>5, <2>2
  <2>4. run' \in [status: Statuses, rev: Nat, round: Nat]
    BY <1>5, <1>6, <2>2 DEF Statuses
  <2> QED
    BY <1>6, <2>1, <2>3, <2>4 DEF Open, Mutable, NoRun
<1>8. Claimed' = {} /\ {c \in Case : cases'[c] = "completed"} = {c \in Case : cases[c] = "completed"}
  BY <1>3, <1>u DEF Claimed
<1>9. RunVerifies'
  <2>1. run'.rev = 2 * Cardinality(results') + 0 + 1
    BY <1>4, <1>7, <1>u
  <2>2. EventsVerify'
    BY <1>t, <1>5, <1>7, <1>8, <1>u, <2>1 DEF FilesInv, RunVerifies, EventsVerify
  <2>3. run'.round = Cardinality(results') /\ (run'.status = "running" <=> Claimed' # {})
    BY <1>4, <1>6, <1>7, <1>8, <1>u
  <2> QED
    BY <1>t, <1>5, <1>u, <2>2, <2>3 DEF FilesInv, RunVerifies
<1>10. Len(decisions) = 3 /\ action = decisions[3].action
  <2>1. Len(decisions) >= 3 /\ action = decisions[3].action
    BY <1>t, <1>1 DEF WorkInv
  <2>2. PICK d \in Nat : d = Len(decisions)
    BY <1>t, Types
  <2>3. d <= 3
    BY <1>t, <2>2, Types DEF FilesInv, DecisionsInv, EvaluationsInv, SnapshotsInv
  <2> QED
    BY <2>1, <2>2, <2>3
<1>11. EndInv'
  <2>1. (action = "stop") = (status = "stopped")
    BY <1>6
  <2>2. status = "stopped" => Pending(Tracks)' = {}
    BY <1>3, <1>u, <2>1 DEF Pending
  <2>3. (decisions'[3].action = "stop") = (run'.status = "stopped")
    BY <1>7, <1>10, <1>u, <2>1
  <2> QED
    BY <1>7, <1>10, <1>u, <2>2, <2>3 DEF EndInv
<1>12. ResultsInv'
  BY <1>t, <1>u, <1>7, ResultsStay
<1>13. RunTypeOK(Version)'
  BY <1>t, <1>u, <1>7 DEF FilesInv, TypeOK, RunTypeOK
<1>14. FilesInv' /\ Extends
  BY <1>t, <1>u, <1>9, <1>11, <1>12, <1>13, LineageIsUntouched DEF FilesInv, TypeOK
<1>15. CASE Done(p)
  BY <1>14, <1>15, IdleJob, StepOfOne DEF Done
<1>16. CASE ~Done(p)
  <2>1. GotoRound(p, "package", r)
    BY <1>2, <1>16 DEF Complete, Goto
  <2>2. JobInv(p)'
    BY <2>1, GoneTo
  <2> QED
    BY <1>14, <2>1, <2>2, StepOfOne DEF GotoRound
<1> QED
  BY <1>15, <1>16

(* What a process finds completed already stays as it is.                   *)
LEMMA CompleteStep ==
  ASSUME IInv, NEW p \in Process, Complete(p)
  PROVE  IInv'
<1>1. job[p].action # "continue"
  BY DEF Complete, CompleteRun
<1>2. CASE CompleteNew(job[p].action, job[p].rev)
  BY <1>1, <1>2, CompleteNewStep
<1>3. CASE UNCHANGED runVars
  <2>1. FilesInv' /\ Extends
    BY <1>3, FilesStay DEF IInv, Complete, SameWorld
  <2>2. CASE Done(p)
    BY <2>1, <2>2, IdleJob, StepOfOne DEF Done
  <2>3. CASE ~Done(p)
    <3>1. PICK r : r = job[p].round
      OBVIOUS
    <3>2. GotoRound(p, "package", r)
      BY <2>3, <3>1 DEF Complete, Goto
    <3>3. JobInv(p)'
      BY <3>2, GoneTo
    <3> QED BY <2>1, <3>2, <3>3, StepOfOne DEF GotoRound
  <2> QED BY <2>2, <2>3
<1> QED BY <1>2, <1>3 DEF Complete, CompleteRun

-----------------------------------------------------------------------------
(* A component moves: to a higher revision, which nothing names yet.        *)

LEMMA LiveMoves ==
  ASSUME FilesInv, NEW t \in {"skill", "policy"}, NEW b \in Binding, live[t].rev < b.rev,
         live' = [live EXCEPT ![t] = b], pairs' = pairs \cup {live'},
         UNCHANGED <<lineageVars, runVars>>
  PROVE  FilesInv' /\ Extends
<1>1. /\ snapshots' = snapshots /\ evaluations' = evaluations
      /\ decisions' = decisions /\ run' = run /\ cases' = cases /\ results' = results
  BY DEF lineageVars, runVars
<1>2. live \in Pair /\ live \in pairs
  BY Types DEF FilesInv, PairsInv
<1>3. PICK new \in Pair : new = live'
  BY <1>2 DEF Pair
<1>4. \/ new.skill = b /\ new.policy = live.policy /\ live.skill.rev < b.rev
      \/ new.skill = live.skill /\ new.policy = b /\ live.policy.rev < b.rev
  BY <1>2, <1>3 DEF Pair
<1>5. /\ live.skill.rev \in Nat /\ live.policy.rev \in Nat /\ b.rev \in Nat
      /\ new.skill.rev \in Nat /\ new.policy.rev \in Nat
  BY <1>2 DEF Pair, Binding
<1>6. live.skill.rev <= new.skill.rev /\ live.policy.rev <= new.policy.rev
  BY <1>4, <1>5
<1>7. Extends
  <2>1. Len(snapshots) \in Nat /\ Len(evaluations) \in Nat /\ Len(decisions) \in Nat
    BY Types
  <2> QED
    BY <1>1, <1>3, <1>6, <2>1 DEF Extends, Longer
<1>8. PairsInv'
  <2>1. /\ pairs \subseteq Pair
        /\ \A x \in pairs : x.skill.rev <= live.skill.rev /\ x.policy.rev <= live.policy.rev
        /\ \A x, y \in pairs : /\ x.skill.rev = y.skill.rev => x.skill = y.skill
                               /\ x.policy.rev = y.policy.rev => x.policy = y.policy
        /\ \A x \in pairs : x.skill.rev \in Nat /\ x.policy.rev \in Nat
    BY Types DEF FilesInv, PairsInv
  <2>2. \A x \in pairs : x.skill.rev <= new.skill.rev /\ x.policy.rev <= new.policy.rev
    BY <1>5, <1>6, <2>1
  <2>3. ASSUME NEW y \in pairs PROVE /\ new.skill.rev = y.skill.rev => new.skill = y.skill
                                     /\ new.policy.rev = y.policy.rev => new.policy = y.policy
    BY <1>2, <1>4, <1>5, <2>1
  <2>4. pairs' = pairs \cup {new}
    BY <1>3
  <2>5. ASSUME NEW x \in pairs', NEW y \in pairs'
        PROVE  /\ x.skill.rev = y.skill.rev => x.skill = y.skill
               /\ x.policy.rev = y.policy.rev => x.policy = y.policy
    <3>1. CASE x \in pairs /\ y \in pairs
      BY <2>1, <3>1
    <3>2. CASE x = new /\ y \in pairs
      BY <2>3, <3>2
    <3>3. CASE x \in pairs /\ y = new
      BY <2>3, <3>3
    <3> QED
      BY <2>4, <3>1, <3>2, <3>3
  <2>6. ASSUME NEW x \in pairs' PROVE x.skill.rev <= live'.skill.rev /\ x.policy.rev <= live'.policy.rev
    <3>1. CASE x \in pairs
      BY <1>3, <2>2, <3>1
    <3>2. CASE x = new
      BY <1>3, <1>5, <3>2
    <3> QED
      BY <2>4, <3>1, <3>2
  <2>7. pairs' \subseteq Pair /\ live' \in pairs'
    BY <1>3, <2>1, <2>4
  <2> QED
    BY <2>5, <2>6, <2>7 DEF PairsInv
<1>9. SnapshotsInv'
  <2>1. ASSUME NEW i \in 1 .. Len(snapshots)
        PROVE  snapshots[i].skill.rev <= new.skill.rev /\ snapshots[i].policy.rev <= new.policy.rev
    <3>1. snapshots[i].skill.rev \in Nat /\ snapshots[i].policy.rev \in Nat
      BY Types DEF Manifest, Binding
    <3>2. snapshots[i].skill.rev <= live.skill.rev /\ snapshots[i].policy.rev <= live.policy.rev
      BY DEF FilesInv, SnapshotsInv
    <3> QED
      BY <1>5, <1>6, <3>1, <3>2
  <2>2. pairs \subseteq pairs'
    OBVIOUS
  <2> QED
    BY <1>1, <1>3, <2>1, <2>2 DEF FilesInv, SnapshotsInv, HasResult
<1>10. EvaluationsInv' /\ DecisionsInv'
  <2>1. Matched => Matched'
    BY <1>1 DEF Matched
  <2> QED
    BY <1>1, <2>1 DEF FilesInv, EvaluationsInv, DecisionsInv
<1>11. ResultsInv'
  <2>1. ASSUME NEW r \in {1, 2}, HasResult(r)' PROVE Promotion(r)'
    <3>1. Promotion(r)
      BY <1>1, <2>1 DEF HasResult, FilesInv, ResultsInv
    <3>2. /\ live'.skill.rev \in Nat /\ Len(snapshots') \in Nat /\ Len(evaluations') \in Nat
          /\ Len(decisions') \in Nat
      BY <1>1, <1>3, <1>5, Types
    <3> QED
      BY <1>7, <3>1, <3>2, KnowledgeIsStable
  <2> QED
    BY <1>1, <2>1 DEF FilesInv, ResultsInv
<1>12. RunVerifies' /\ EndInv'
  BY <1>1 DEF FilesInv, RunVerifies, EventsVerify, Claimed, EndInv, Mutable, Pending
<1>13. TypeOK'
  <2>1. live' \in [skill: Binding, policy: Binding]
    BY <1>3 DEF Pair
  <2> QED
    BY <1>1, <2>1 DEF FilesInv, TypeOK, LineageTypeOK, RunTypeOK
<1> QED
  BY <1>7, <1>8, <1>9, <1>10, <1>11, <1>12, <1>13 DEF FilesInv

LEMMA MoveStep ==
  ASSUME IInv, NEW t \in {"skill", "policy"}, Move(t)
  PROVE  IInv'
<1>1. FilesInv /\ live \in Pair /\ job' = job
  BY Types DEF IInv, Move
<1>2. PICK n \in Nat : n = live[t].rev
  BY <1>1 DEF Pair, Binding
<1>3. PICK v \in Version : live' = [live EXCEPT ![t] = [v |-> v, rev |-> n + 1]]
  BY <1>1, <1>2 DEF Move, Pair
<1>4. PICK b : b = [v |-> v, rev |-> n + 1]
  OBVIOUS
<1>5. b \in Binding /\ live[t].rev < b.rev /\ live' = [live EXCEPT ![t] = b]
  BY <1>2, <1>3, <1>4 DEF Binding
<1>6. pairs' = pairs \cup {live'} /\ UNCHANGED <<lineageVars, runVars>>
  BY DEF Move
<1>7. FilesInv' /\ Extends
  BY <1>1, <1>5, <1>6, LiveMoves
<1> QED
  BY <1>1, <1>7, NoOneMoves

(* What its executor leaves behind is live at a revision that names what it *)
(* promoted: the skill that the first snapshot failed with is not that, so  *)
(* it is a later one.                                                       *)
LEMMA ExecutedIsPromoted ==
  ASSUME MultiTrackAssumption, FilesInv, FilesInv', Extends, UNCHANGED lineageVars, NEW r, Working(r),
         live'[Component(r)].v = Evolved, live' \in pairs',
         r = 2 => live'.policy.rev = 1
  PROVE  Promotion(r)'
<1>t. /\ Len(snapshots) \in Nat /\ Len(evaluations) \in Nat /\ live'.skill.rev \in Nat
      /\ Len(evaluations) <= Len(snapshots) /\ Len(snapshots') \in Nat
      /\ snapshots' = snapshots /\ evaluations' = evaluations
      /\ live' \in Pair
  BY Types, TypesNext DEF FilesInv, EvaluationsInv, lineageVars
<1>1. r \in {1, 2} /\ Evaluated(r - 1) /\ Len(snapshots) >= r
  <2>1. r \in {1, 2} /\ Evaluated(r - 1)
    BY DEF Working
  <2>2. Len(evaluations) > r - 1
    BY <2>1 DEF Evaluated
  <2> QED
    BY <1>t, <2>1, <2>2
<1>2. ASSUME r = 1 PROVE EvolvedBy(live.skill.rev)'
  <2>1. snapshots[1] \in Manifest /\ Len(evaluations) >= 1 /\ evaluations[1] = Scores(0)
    BY <1>t, <1>1, <1>2, Types DEF Evaluated
  <2>2. evaluations[1] = Outcome(snapshots[1])
    BY <1>t, <2>1 DEF FilesInv, EvaluationsInv
  <2>3. snapshots[1].skill.v # Evolved
    BY <2>1, <2>2, OutcomeOf DEF MultiTrackAssumption
  <2>4. PICK s \in Nat : s = snapshots[1].skill.rev
    BY <2>1 DEF Manifest, Binding
  <2>5. PICK x \in pairs : x.skill.v = snapshots[1].skill.v /\ x.skill.rev >= s
    BY <2>1, <2>4 DEF FilesInv, EvaluationsInv, Matched
  <2>6. x \in pairs' /\ x.skill.rev \in Nat /\ live'.skill.v = Evolved
    BY <1>2, Types DEF Extends, Component
  <2>7. x.skill.rev # live'.skill.rev /\ x.skill.rev <= live'.skill.rev
    BY <2>3, <2>5, <2>6 DEF FilesInv, PairsInv
  <2>8. s < live'.skill.rev
    BY <1>t, <2>4, <2>5, <2>6, <2>7
  <2> QED
    BY <1>t, <2>4, <2>6, <2>8 DEF EvolvedBy
<1>3. ASSUME r = 2 PROVE /\ snapshots'[2].policy.rev <= 1
                         /\ \E x \in pairs' : x.policy.v = Evolved /\ x.policy.rev = 1
  <2>1. snapshots'[2].policy.rev <= live'.policy.rev
    BY <1>t, <1>1, <1>3 DEF FilesInv, SnapshotsInv
  <2>2. live'.policy.v = Evolved /\ live'.policy.rev = 1
    BY <1>3 DEF Component
  <2> QED
    BY <2>1, <2>2
<1> QED
  BY <1>t, <1>1, <1>2, <1>3 DEF Promotion

(* A step of a laboratory moves its component or nothing that is read.      *)
LEMMA InterveneExecuteStep ==
  ASSUME MultiTrackAssumption, IInv, NEW p \in Process, InterveneExecute(p)
  PROVE  IInv'
<1>t. FilesInv /\ WorkInv(p) /\ job[p].pc = "execute" /\ live \in Pair
  BY Types DEF IInv, JobInv, InterveneExecute
<1>1. PICK r : r = job[p].round
  OBVIOUS
<1>2. Working(r) /\ r \in {1, 2}
  BY <1>t, <1>1 DEF WorkInv, Working
<1>3. PICK t \in {"skill", "policy"} : t = Component(r)
  BY DEF Component
<1>u. UNCHANGED <<lineageVars, runVars>> /\ pairs' = pairs \cup {live'}
  BY DEF InterveneExecute
<1>4. \/ live[t].rev = 0 /\ live' = [live EXCEPT ![t] = [v |-> Evolved, rev |-> 1]]
      \/ live' = live
  BY <1>1, <1>3 DEF InterveneExecute
<1>5. FilesInv' /\ Extends
  <2>1. CASE live' = live
    <3>1. pairs' = pairs
      BY <1>t, <1>u, <2>1 DEF FilesInv, PairsInv
    <3>2. UNCHANGED <<live, lineageVars, runVars, pairs>>
      BY <1>u, <2>1, <3>1
    <3> QED
      BY <1>t, <3>2, FilesStay
  <2>2. CASE live[t].rev = 0 /\ live' = [live EXCEPT ![t] = [v |-> Evolved, rev |-> 1]]
    <3>1. PICK b : b = [v |-> Evolved, rev |-> 1]
      OBVIOUS
    <3>2. b \in Binding /\ live[t].rev < b.rev /\ live' = [live EXCEPT ![t] = b]
      BY <2>2, <3>1 DEF Binding, MultiTrackAssumption
    <3> QED
      BY <1>t, <1>u, <3>2, LiveMoves
  <2> QED
    BY <1>4, <2>1, <2>2
<1>6. PICK ks \in SUBSET Case : ks = job[p].cases
  BY <1>t DEF WorkInv
<1>7. PICK n : job' = [job EXCEPT ![p].mine = n]
  BY DEF InterveneExecute
<1>8. PICK j : j = [pc |-> "execute", round |-> r, cases |-> ks, mine |-> n]
  OBVIOUS
<1>9. job' = [job EXCEPT ![p] = j] /\ job'[p] = j
  <2>1. [job[p] EXCEPT !.mine = n] = j
    BY <1>t, <1>1, <1>6, <1>8 DEF WorkInv
  <2> QED
    BY <1>7, <2>1 DEF IInv
<1>10. Working(r)'
  BY <1>2, <1>u DEF Working, Evaluated, lineageVars
<1>11. JobInv(p)'
  BY <1>8, <1>9, <1>10 DEF JobInv, ReadInv, EvaluationInv, WorkInv
<1> QED
  BY <1>5, <1>9, <1>11, StepOfOne

LEMMA InterveneExecutedStep ==
  ASSUME MultiTrackAssumption, IInv, NEW p \in Process, InterveneExecuted(p)
  PROVE  IInv'
<1>t. FilesInv /\ WorkInv(p) /\ job[p].pc = "execute" /\ live \in Pair
  BY Types DEF IInv, JobInv, InterveneExecuted
<1>1. PICK r : r = job[p].round
  OBVIOUS
<1>2. Working(r) /\ r \in {1, 2}
  BY <1>t, <1>1 DEF WorkInv, Working
<1>u. UNCHANGED <<live, lineageVars, runVars, pairs>>
  BY DEF InterveneExecuted, SameFiles, SameWorld
<1>3. FilesInv' /\ Extends
  BY <1>t, <1>u, FilesStay
<1>4. live'[Component(r)].v = Evolved /\ (r = 2 => live'.policy.rev = 1)
  BY <1>1, <1>u DEF InterveneExecuted, Promoted, Component
<1>5. Promotion(r)'
  <2>1. live' \in pairs' /\ UNCHANGED lineageVars
    BY <1>t, <1>u DEF FilesInv, PairsInv
  <2> QED
    BY <1>t, <1>2, <1>3, <1>4, <2>1, ExecutedIsPromoted
<1>6. PICK ks \in SUBSET Case : ks = job[p].cases
  BY <1>t DEF WorkInv
<1>7. PICK j : j = [pc |-> "executed", round |-> r, cases |-> ks]
  OBVIOUS
<1>8. job' = [job EXCEPT ![p] = j] /\ job'[p] = j
  BY <1>1, <1>6, <1>7 DEF InterveneExecuted, IInv
<1>9. Working(r)'
  BY <1>2, <1>u DEF Working, Evaluated, lineageVars
<1>10. JobInv(p)'
  BY <1>5, <1>7, <1>8, <1>9 DEF JobInv, ReadInv, EvaluationInv, WorkInv
<1> QED
  BY <1>3, <1>8, <1>10, StepOfOne

-----------------------------------------------------------------------------
(* The invariant, of every behaviour.                                       *)

LEMMA InitHolds ==
  ASSUME MultiTrackAssumption, Init
  PROVE  IInv
<1>1. /\ live = [skill |-> [v |-> Base, rev |-> 0], policy |-> [v |-> Base, rev |-> 0]]
      /\ snapshots = <<>> /\ evaluations = <<>> /\ decisions = <<>>
      /\ run = NoRun /\ cases = [k \in Case |-> "absent"] /\ results = {}
      /\ pairs = {live} /\ job = [p \in Process |-> Idle]
  BY DEF Init, LineageInit, RunInit
<1>2. live \in Pair
  BY <1>1 DEF MultiTrackAssumption, Pair, Binding
<1>3. Len(snapshots) = 0 /\ Len(evaluations) = 0 /\ Len(decisions) = 0
  BY <1>1
<1>4. TypeOK
  <2>1. snapshots \in Seq(Manifest) /\ evaluations \in Seq([skill: BOOLEAN, policy: BOOLEAN])
        /\ \A i \in DOMAIN decisions : decisions[i].action \in Actions
    BY <1>1
  <2>2. cases \in [Case -> CaseStatuses]
    BY <1>1 DEF CaseStatuses
  <2> QED
    BY <1>1, <1>2, <2>1, <2>2 DEF TypeOK, LineageTypeOK, RunTypeOK, Pair
<1>5. PairsInv
  <2>1. live.skill.rev = 0 /\ live.policy.rev = 0
    BY <1>1
  <2> QED
    BY <1>1, <1>2, <2>1 DEF PairsInv
<1>6. SnapshotsInv /\ EvaluationsInv
  BY <1>3 DEF SnapshotsInv, EvaluationsInv
<1>7. DecisionsInv
  <2>1. decisions \in Seq([action: Actions, cases: SUBSET Case])
    BY <1>1
  <2> QED
    BY <1>3, <2>1 DEF DecisionsInv
<1>8. ResultsInv
  BY <1>1, FS_EmptySet DEF ResultsInv, HasResult
<1>9. RunVerifies /\ EndInv
  BY <1>1 DEF RunVerifies, EndInv
<1>10. ASSUME NEW p \in Process PROVE JobInv(p)
  BY <1>1 DEF JobInv, ReadInv, EvaluationInv, WorkInv, Idle
<1> QED
  BY <1>1, <1>4, <1>5, <1>6, <1>7, <1>8, <1>9, <1>10 DEF IInv, FilesInv

LEMMA StepKeeps ==
  ASSUME MultiTrackAssumption, IInv, NEW p \in Process, Step(p) \/ Stop(p)
  PROVE  IInv'
<1>1. CASE Start(p) \/ Create(p) \/ Read(p) \/ Register(p)
  BY <1>1, StartStep, CreateStep, ReadStep, RegisterStep
<1>2. CASE EvaluateSkip(p) \/ AdmitDone(p) \/ DecideSkip(p) \/ InterveneSkip(p) \/ BuildSkip(p)
           \/ CompleteSkip(p)
  BY <1>2, SkipSteps
<1>3. CASE DecideRead(p) \/ IntervenePlan(p) \/ InterveneLook(p) \/ CompleteCheck(p)
           \/ Package(p) \/ Stop(p)
  BY <1>3, RecordSteps
<1>4. CASE EvaluateDerive(p) \/ EvaluateRecord(p) \/ DecideRecord(p)
  BY <1>4, EvaluateDeriveStep, EvaluateRecordStep, DecideRecordStep
<1>5. CASE Admit(p)
  BY <1>5, AdmitSteps
<1>6. CASE InterveneClaim(p) \/ InterveneExecute(p) \/ InterveneExecuted(p)
           \/ InterveneRecord(p)
  BY <1>6, InterveneClaimStep, InterveneExecuteStep, InterveneExecutedStep,
     InterveneRecordStep
<1>7. CASE BuildStart(p) \/ BuildChild(p) \/ CommitChild(p)
  BY <1>7, BuildStartStep, BuildChildStep, CommitChildStep
<1>8. CASE Complete(p)
  BY <1>8, CompleteStep
<1> QED
  BY <1>1, <1>2, <1>3, <1>4, <1>5, <1>6, <1>7, <1>8 DEF Step

(* What is promoted is a version that passes its track; from there on the   *)
(* files, and what every process knows of them, stay as IInv says.          *)
THEOREM InvariantHolds ==
  ASSUME MultiTrackAssumption
  PROVE  Spec => []IInv
<1>1. Init => IInv
  BY InitHolds
<1>2. IInv /\ [Next]_vars => IInv'
  <2> SUFFICES ASSUME IInv, [Next]_vars PROVE IInv'
    OBVIOUS
  <2>1. ASSUME NEW p \in Process, Step(p) \/ Stop(p) PROVE IInv'
    BY <2>1, StepKeeps
  <2>2. ASSUME NEW t \in {"skill", "policy"}, Move(t) PROVE IInv'
    BY <2>2, MoveStep
  <2>3. ASSUME NEW k \in Case, AdmitOther(k) PROVE IInv'
    BY <2>3, AdmitSteps
  <2>4. CASE UNCHANGED vars
    <3>1. UNCHANGED <<live, lineageVars, runVars, pairs>> /\ job' = job
      BY <2>4 DEF vars
    <3> QED
      BY <3>1, FilesStay, NoOneMoves DEF IInv
  <2> QED
    BY <2>1, <2>2, <2>3, <2>4 DEF Next
<1> QED
  BY <1>1, <1>2, PTL DEF Spec

-----------------------------------------------------------------------------
(* What follows from it.                                                    *)

(* A child of a round has the result of its round, whose version it binds,  *)
(* and was live as a whole.                                                 *)
LEMMA SnapshotsFollow ==
  ASSUME IInv
  PROVE  SnapshotsAreEarned
<1> SUFFICES ASSUME NEW i \in DOMAIN snapshots, i > 1
             PROVE  /\ [skill |-> snapshots[i].skill, policy |-> snapshots[i].policy] \in pairs
                    /\ \E r \in results : r.track = Component(i - 1)
                                          /\ r.v = snapshots[i][r.track].v
  BY DEF SnapshotsAreEarned
<1>1. FilesInv /\ i \in 2 .. Len(snapshots)
  BY Types DEF IInv
<1>2. PICK r \in results : r.track = Component(i - 1)
  BY <1>1 DEF FilesInv, SnapshotsInv, HasResult
<1>3. r.v = Evolved /\ snapshots[i][r.track].v = Evolved
  BY <1>1, <1>2 DEF FilesInv, SnapshotsInv, ResultsInv
<1> QED
  BY <1>1, <1>2, <1>3 DEF FilesInv, SnapshotsInv

(* Three decisions need three evaluations and three snapshots, and a child  *)
(* of either track; so there are two results and no more.                   *)
LEMMA EndAgrees ==
  ASSUME IInv
  PROVE  TerminalRoundsAgree
<1> SUFFICES ASSUME run # NoRun, ~Mutable
             PROVE  LET d == decisions[Len(decisions)] IN
                    /\ run.round + 1 = Len(snapshots) /\ Len(decisions) = Len(snapshots)
                    /\ (d.action = "stop") = (run.status = "stopped")
                    /\ run.status = "stopped" =>
                         /\ Pending(Tracks) = {}
                         /\ Outcome(Active) = [skill |-> TRUE, policy |-> TRUE]
  BY DEF TerminalRoundsAgree
<1>f. FilesInv
  BY DEF IInv
<1>1. /\ Len(decisions) = 3
      /\ (decisions[3].action = "stop") = (run.status = "stopped")
      /\ run.status = "stopped" => Pending(Tracks) = {}
  BY <1>f DEF FilesInv, EndInv
<1>2. Len(snapshots) = 3 /\ Len(evaluations) = 3
  <2>1. PICK s \in Nat : s = Len(snapshots)
    BY <1>f, Types
  <2>2. PICK e \in Nat : e = Len(evaluations)
    BY <1>f, Types
  <2>3. 3 <= e /\ e <= s /\ s <= 3
    BY <1>f, <1>1, <2>1, <2>2 DEF FilesInv, DecisionsInv, EvaluationsInv, SnapshotsInv
  <2> QED
    BY <2>1, <2>2, <2>3
<1>3. HasResult(1) /\ HasResult(2)
  <2>1. \A i \in {2, 3} : HasResult(i - 1)
    BY <1>f, <1>2 DEF FilesInv, SnapshotsInv
  <2> QED
    BY <2>1
<1>4. PICK a \in results, b \in results : a.track = "skill" /\ b.track = "policy"
  BY <1>3 DEF HasResult, Component
<1>5. results = {a, b} /\ a # b
  <2>1. \A r \in results : r.track \in {"skill", "policy"}
    BY <1>f, Types DEF Tracks
  <2>2. \A r \in results : r = a \/ r = b
    BY <1>f, <1>4, <2>1 DEF FilesInv, ResultsInv
  <2> QED
    BY <1>4, <2>2
<1>6. run.round = 2
  <2>1. IsFiniteSet({b}) /\ Cardinality({b}) = 1
    BY FS_Singleton
  <2>2. Cardinality({b} \cup {a}) = 2
    BY <1>5, <2>1, FS_AddElement
  <2>3. {b} \cup {a} = results
    BY <1>5
  <2> QED
    BY <1>f, <2>2, <2>3 DEF FilesInv, RunVerifies
<1>7. ASSUME run.status = "stopped" PROVE Outcome(Active) = [skill |-> TRUE, policy |-> TRUE]
  <2>1. decisions[3].action = "stop"
    BY <1>1, <1>7
  <2>2. evaluations[3].skill /\ evaluations[3].policy
    BY <1>f, <1>1, <2>1 DEF FilesInv, DecisionsInv
  <2>3. evaluations[3] = Outcome(Active)
    BY <1>f, <1>2 DEF FilesInv, EvaluationsInv, Active
  <2> QED
    BY <2>2, <2>3 DEF Outcome
<1> QED
  BY <1>1, <1>2, <1>6, <1>7

LEMMA FilesVerify ==
  ASSUME IInv
  PROVE  EverythingVerifies
<1>f. FilesInv
  BY DEF IInv
<1>l. /\ Len(snapshots) \in Nat /\ Len(evaluations) \in Nat /\ Len(decisions) \in Nat
      /\ Len(evaluations) <= Len(snapshots)
      /\ Len(decisions) <= Len(evaluations) /\ Len(evaluations) <= Len(decisions) + 1
  BY <1>f, Types DEF FilesInv, EvaluationsInv, DecisionsInv
<1>1. SnapshotsVerify
  BY <1>f, Types DEF FilesInv, SnapshotsInv, SnapshotsVerify
<1>2. EvaluationsVerify
  <2>1. Len(decisions) \in {Len(evaluations) - 1, Len(evaluations)}
    <3>1. PICK e \in Nat : e = Len(evaluations)
      BY <1>l
    <3>2. PICK d \in Nat : d = Len(decisions)
      BY <1>l
    <3> QED
      BY <1>l, <3>1, <3>2
  <2>2. \A i \in DOMAIN decisions : decisions[i].action # "continue" => i = Len(evaluations)
    BY <1>f, Types DEF FilesInv, DecisionsInv
  <2> QED
    BY <2>1, <2>2 DEF EvaluationsVerify
<1> QED
  BY <1>f, <1>l, <1>1, <1>2 DEF EverythingVerifies, LineageVerifies, FilesInv

(* Whatever moves while its components are read, a committed child binds    *)
(* versions that were live together, and the one that moved is the one that *)
(* the executor of its round was recorded with.                             *)
THEOREM CommittedChildrenAreEarned ==
  ASSUME MultiTrackAssumption
  PROVE  Spec => []SnapshotsAreEarned
  BY InvariantHolds, SnapshotsFollow, PTL

(* A run that has ended agrees with its lineage, and a stopped one left no  *)
(* case behind: its agent passes with both components.                      *)
THEOREM EndedRunsAgree ==
  ASSUME MultiTrackAssumption
  PROVE  Spec => []TerminalRoundsAgree
  BY InvariantHolds, EndAgrees, PTL

(* No file of the loop ever fails to verify, whatever two processes do.     *)
THEOREM FilesAlwaysVerify ==
  ASSUME MultiTrackAssumption
  PROVE  Spec => []EverythingVerifies
  BY InvariantHolds, FilesVerify, PTL

-----------------------------------------------------------------------------
(***************************************************************************)
(* The supervisor beside the run (Supervisor), for any batch of cases, any *)
(* processes and any limits of the policy.  A call is a chain of           *)
(* transactions, so the invariant says of every call in progress what it   *)
(* has seen of its case and nobody can undo: a claim is never taken back,  *)
(* what has ended stays as it ended, and the cases are admitted in their   *)
(* order, each after the one before it has ended (OrderInv).               *)
(***************************************************************************)
CONSTANTS BatchCase, Batch, route, CaseLimit, RoundLimit, budget, automatic, equipped,
          StopOnQuarantine
VARIABLES srun, scases, sjob, executions

Sup == INSTANCE Supervisor WITH
  run <- srun, cases <- scases, job <- sjob, Case <- BatchCase, MaxCases <- CaseLimit,
  MaxRounds <- RoundLimit

(* The instance has its own names for the operators of FiniteSets.          *)
LEMMA SameSets ==
  ASSUME NEW S
  PROVE  Sup!Cardinality(S) = Cardinality(S) /\ (Sup!IsFiniteSet(S) <=> IsFiniteSet(S))
  BY DEF Sup!Cardinality, Cardinality, Sup!IsFiniteSet, IsFiniteSet

Calls == {"start", "next", "admit", "claim", "route", "finalize", "derive", "finish",
          "transition", "verify"}
Outcomes == [status : {"none"} \cup Sup!Ended \cup Sup!RunEnds,
             by : {"nobody", "executor", "ticket"}, overBudget : BOOLEAN]
Runs == [status : {"absent"} \cup Sup!Mutable \cup Sup!RunEnds, rev : Nat]
Call == [pc : Calls, at : Nat \ {0}, rev : Nat, outcome : Outcomes]
Record == {r \in [status : {"pending", "running"} \cup Sup!Ended, rev : Nat, outcome : Outcomes] :
             IF r.status \in Sup!Ended THEN r.outcome.status = r.status
             ELSE r.outcome = Sup!NoOutcome}

SupTypes ==
  /\ srun \in Runs
  /\ scases \in [BatchCase -> {Sup!NoCase} \cup Record]
  /\ executions \in [BatchCase -> Nat]
  /\ sjob \in [Process -> {Sup!Idle} \cup Call]

(* What a call has seen of its case, and nobody can undo.                   *)
CallOf(j) ==
  /\ j.pc \in {"admit", "claim", "route", "finalize"} => j.at <= Len(Batch)
  /\ j.pc \in {"claim", "route", "finalize"} => scases[Batch[j.at]] # Sup!NoCase
  /\ j.pc \in {"route", "finalize"} => scases[Batch[j.at]].status # "pending"
  /\ j.pc = "route" => executions[Batch[j.at]] = 0
  /\ j.pc = "finalize" => j.outcome.status \in Sup!Ended
  /\ j.pc \in {"finish", "transition"} => j.outcome.status \in Sup!RunEnds

ExecutedOnce(k) ==
  /\ executions[k] <= 1
  /\ executions[k] > 0 => scases[k] # Sup!NoCase /\ scases[k].status # "pending"

Executed(t) == {k \in BatchCase : route[k] = t /\ executions[k] > 0}

ClaimsInv == \A p, q \in Process :
  sjob[p].pc = "route" /\ sjob[q].pc = "route" /\ Sup!At(p) = Sup!At(q) => p = q
BudgetInv == \A t \in DOMAIN budget : Cardinality(Executed(t)) <= budget[t]

BatchInv ==
  /\ SupTypes
  /\ \A p \in Process : CallOf(sjob[p])
  /\ ClaimsInv
  /\ \A k \in BatchCase : ExecutedOnce(k)
  /\ BudgetInv

Places == 1 .. Len(Batch)
Passed(i) ==
  /\ scases[Batch[i]].status \in Sup!Ended
  /\ StopOnQuarantine => scases[Batch[i]].status # "quarantined"
AllEnded == \A i \in Places : scases[Batch[i]].status \in Sup!Ended
Over == AllEnded \/ (StopOnQuarantine /\ \E i \in Places : scases[Batch[i]].status = "quarantined")

(* Cases are admitted in their order, each after the one before has passed. *)
OrderInv ==
  \A k \in BatchCase : scases[k] # Sup!NoCase =>
    \E i \in Places : k = Batch[i] /\ \A j \in 1 .. (i - 1) : Passed(j)
EndOf(j) ==
  /\ j # Sup!Idle => \A i \in Places : i < j.at => Passed(i)
  /\ j.pc = "derive" => AllEnded
  /\ j.pc \in {"finish", "transition"} => Over /\ j.outcome.status = Sup!Derived
RunEndInv == Sup!Terminal => Over /\ srun.status = Sup!Derived
BatchEndInv ==
  /\ OrderInv
  /\ \A p \in Process : EndOf(sjob[p])
  /\ RunEndInv

-----------------------------------------------------------------------------
(* What no step takes away *)

CasesGoOn ==
  \A k \in BatchCase :
    /\ scases[k] # Sup!NoCase => scases'[k] # Sup!NoCase
    /\ scases[k] # Sup!NoCase /\ scases[k].status # "pending" => scases'[k].status # "pending"
    /\ scases[k].status \in Sup!Ended => scases'[k] = scases[k]

ByCall(p, j) == sjob' = [sjob EXCEPT ![p] = j]

LEMMA CallFacts ==
  ASSUME SupTypes, Sup!SupervisorAssumption, NEW p \in Process
  PROVE  /\ sjob[p].pc \in Calls \cup {"idle"}
         /\ sjob[p].pc # "idle" => sjob[p] \in Call /\ sjob[p] # Sup!Idle
         /\ sjob[p] # Sup!Idle => sjob[p] \in Call /\ sjob[p].pc # "idle"
         /\ \A i \in Places : Batch[i] \in BatchCase
  BY DEF SupTypes, Call, Calls, Sup!Idle, Places, Sup!SupervisorAssumption

LEMMA OutcomeTypes ==
  /\ Sup!NoOutcome \in Outcomes /\ Sup!OverBudget \in Outcomes
  /\ \A s \in {"none"} \cup Sup!Ended \cup Sup!RunEnds, b \in {"nobody", "executor", "ticket"} :
       Sup!Outcome(s, b) \in Outcomes /\ Sup!Outcome(s, b).status = s /\ Sup!Outcome(s, b).by = b
  BY DEF Outcomes, Sup!NoOutcome, Sup!OverBudget, Sup!Outcome, Sup!Ended

LEMMA DerivedIsAnEnd == Sup!Derived \in Sup!RunEnds
  BY DEF Sup!Derived, Sup!RunEnds

LEMMA CaseFacts ==
  ASSUME SupTypes, NEW k \in BatchCase
  PROVE  /\ scases[k] # Sup!NoCase <=> scases[k].status # "absent"
         /\ scases[k] # Sup!NoCase => scases[k] \in Record
         /\ scases[k].status \in {"absent", "pending", "running"} \cup Sup!Ended
         /\ scases[k].status \in Sup!Ended => scases[k] # Sup!NoCase
  BY DEF SupTypes, Record, Sup!NoCase, Sup!Ended

(* A step of the call p to j that may change cases and executions.          *)
LEMMA BatchKept ==
  ASSUME BatchInv, Sup!SupervisorAssumption, CasesGoOn, SupTypes',
         NEW p \in Process, NEW j \in {Sup!Idle} \cup Call, ByCall(p, j), CallOf(j)',
         \A q \in Process \ {p} : sjob[q].pc = "route" =>
            /\ executions'[Sup!At(q)] = executions[Sup!At(q)]
            /\ j.pc = "route" => Batch[j.at] # Sup!At(q),
         \A k \in BatchCase : ExecutedOnce(k)', BudgetInv'
  PROVE  BatchInv'
<1>1. \A q \in Process : sjob'[q] = IF q = p THEN j ELSE sjob[q]
  BY DEF ByCall, BatchInv, SupTypes
<1>2. ASSUME NEW q \in Process PROVE CallOf(sjob[q])'
  <2>1. CASE q = p
    BY <1>1, <2>1 DEF CallOf
  <2>2. CASE q # p
    <3>1. sjob'[q] = sjob[q] /\ CallOf(sjob[q])
      BY <1>1, <2>2 DEF BatchInv
    <3>2. sjob[q].pc \in {"admit", "claim", "route", "finalize"} => Batch[sjob[q].at] \in BatchCase
      BY <3>1, CallFacts DEF BatchInv, CallOf, Places, Call
    <3> QED BY <2>2, <3>1, <3>2 DEF CallOf, CasesGoOn, Sup!At
  <2> QED BY <2>1, <2>2
<1>3. ClaimsInv'
  <2> SUFFICES ASSUME NEW q \in Process, NEW r \in Process, q # r,
                      sjob'[q].pc = "route", sjob'[r].pc = "route",
                      Batch[sjob'[q].at] = Batch[sjob'[r].at]
               PROVE  FALSE
    BY DEF ClaimsInv, Sup!At
  <2> QED BY <1>1 DEF BatchInv, ClaimsInv, Sup!At
<1> QED BY <1>2, <1>3 DEF BatchInv

(* What is passed or over stays so.                                         *)
LEMMA PassedStays ==
  ASSUME SupTypes, Sup!SupervisorAssumption, CasesGoOn
  PROVE  /\ \A i \in Places : Passed(i) => Passed(i)'
         /\ AllEnded => AllEnded'
         /\ Over => Over'
<1>1. \A i \in Places :
         scases[Batch[i]].status \in Sup!Ended => scases'[Batch[i]] = scases[Batch[i]]
  BY DEF CasesGoOn, Places, Sup!SupervisorAssumption
<1>2. "quarantined" \in Sup!Ended
  BY DEF Sup!Ended
<1> QED BY <1>1, <1>2 DEF Passed, AllEnded, Over

LEMMA DerivedStays ==
  ASSUME scases' = scases PROVE Sup!Derived' = Sup!Derived
  BY DEF Sup!Derived, Sup!Statuses, Sup!Admitted

(* Once it is over, every admitted case has ended and none is admitted.     *)
LEMMA OverIsOver ==
  ASSUME BatchInv, BatchEndInv, Sup!SupervisorAssumption, Over
  PROVE  /\ \A k \in BatchCase : scases[k] # Sup!NoCase => scases[k].status \in Sup!Ended
         /\ \A p \in Process : sjob[p].pc = "admit" => scases[Sup!At(p)] # Sup!NoCase
<1>1. CASE AllEnded
  <2>1. \A k \in BatchCase : scases[k] # Sup!NoCase => scases[k].status \in Sup!Ended
    BY <1>1 DEF AllEnded, BatchEndInv, OrderInv
  <2>2. ASSUME NEW p \in Process, sjob[p].pc = "admit" PROVE scases[Sup!At(p)] # Sup!NoCase
    BY <1>1, <2>2, CallFacts, CaseFacts DEF AllEnded, BatchInv, CallOf, Sup!At, Places, Call
  <2> QED BY <2>1, <2>2
<1>2. CASE ~AllEnded
  <2>1. PICK i \in Places : StopOnQuarantine /\ scases[Batch[i]].status = "quarantined"
    BY <1>2 DEF Over
  <2>2. Batch[i] \in BatchCase /\ scases[Batch[i]] # Sup!NoCase
    BY <2>1, CaseFacts DEF Places, Sup!SupervisorAssumption, BatchInv, Sup!Ended
  <2>3. \A j \in 1 .. (i - 1) : Passed(j)
    BY <2>2 DEF BatchEndInv, OrderInv, Sup!SupervisorAssumption, Places
  <2>4. ASSUME NEW m \in Places, \A j \in 1 .. (m - 1) : Passed(j) PROVE m <= i
    <3> SUFFICES ASSUME ~(m <= i) PROVE FALSE
      OBVIOUS
    <3>1. i \in 1 .. (m - 1)
      BY DEF Places, Sup!SupervisorAssumption
    <3> QED BY <2>1, <2>4, <3>1 DEF Passed
  <2>5. \A m \in Places : m <= i => scases[Batch[m]].status \in Sup!Ended
    BY <2>1, <2>3 DEF Passed, Places, Sup!SupervisorAssumption, Sup!Ended
  <2>6. \A k \in BatchCase : scases[k] # Sup!NoCase => scases[k].status \in Sup!Ended
    BY <2>4, <2>5 DEF BatchEndInv, OrderInv
  <2>7. ASSUME NEW p \in Process, sjob[p].pc = "admit" PROVE scases[Sup!At(p)] # Sup!NoCase
    <3>1. /\ sjob[p] \in Call /\ sjob[p] # Sup!Idle /\ sjob[p].at \in Places
      BY <2>7, CallFacts DEF BatchInv, CallOf, Call, Places, Sup!SupervisorAssumption
    <3>2. \A j \in 1 .. (sjob[p].at - 1) : Passed(j)
      BY <3>1 DEF BatchEndInv, EndOf, Places, Sup!SupervisorAssumption
    <3>3. scases[Batch[sjob[p].at]].status \in Sup!Ended
      BY <2>4, <2>5, <3>1, <3>2
    <3> QED BY <3>1, <3>3, CaseFacts, CallFacts DEF Sup!At, BatchInv
  <2> QED BY <2>6, <2>7
<1> QED BY <1>1, <1>2

LEMMA EndKept ==
  ASSUME BatchInv, BatchEndInv, Sup!SupervisorAssumption, CasesGoOn, SupTypes',
         Over => scases' = scases,
         NEW p \in Process, NEW j \in {Sup!Idle} \cup Call, ByCall(p, j), EndOf(j)',
         OrderInv', RunEndInv' \/ UNCHANGED srun
  PROVE  BatchEndInv'
<1>1. \A q \in Process : sjob'[q] = IF q = p THEN j ELSE sjob[q]
  BY DEF ByCall, BatchInv, SupTypes
<1>2. Over => Over' /\ Sup!Derived' = Sup!Derived
  BY PassedStays, DerivedStays DEF BatchInv
<1>3. ASSUME NEW q \in Process PROVE EndOf(sjob[q])'
  <2>1. CASE q = p
    BY <1>1, <2>1 DEF EndOf
  <2>2. CASE q # p
    <3>1. sjob'[q] = sjob[q] /\ EndOf(sjob[q])
      BY <1>1, <2>2 DEF BatchEndInv
    <3> QED BY <1>2, <3>1, PassedStays DEF EndOf, BatchInv
  <2> QED BY <2>1, <2>2
<1>4. RunEndInv'
  BY <1>2 DEF BatchEndInv, RunEndInv, Sup!Terminal
<1> QED BY <1>3, <1>4 DEF BatchEndInv

LEMMA OrderKept ==
  ASSUME SupTypes, Sup!SupervisorAssumption, CasesGoOn, OrderInv,
         \A k \in BatchCase : scases'[k] # Sup!NoCase => scases[k] # Sup!NoCase
  PROVE  OrderInv'
<1> SUFFICES ASSUME NEW k \in BatchCase, scases'[k] # Sup!NoCase
             PROVE  \E i \in Places : k = Batch[i] /\ \A m \in 1 .. (i - 1) : Passed(m)'
  BY DEF OrderInv
<1>1. PICK i \in Places : k = Batch[i] /\ \A m \in 1 .. (i - 1) : Passed(m)
  BY DEF OrderInv
<1>2. \A m \in 1 .. (i - 1) : Passed(m)'
  BY <1>1, PassedStays DEF Places, Sup!SupervisorAssumption
<1> QED BY <1>1, <1>2

Kept == BatchInv' /\ (Len(Batch) <= RoundLimit /\ BatchEndInv => BatchEndInv')

(* A step of the call p that leaves the cases alone.                        *)
LEMMA QuietStep ==
  ASSUME BatchInv, Sup!SupervisorAssumption, UNCHANGED <<scases, executions>>, srun' \in Runs,
         NEW p \in Process, NEW j \in {Sup!Idle} \cup Call, ByCall(p, j),
         j.pc \notin {"claim", "route", "finalize"}, j.pc = "admit" => j.at <= Len(Batch),
         j.pc \in {"finish", "transition"} => j.outcome.status \in Sup!RunEnds,
         Len(Batch) <= RoundLimit /\ BatchEndInv => EndOf(j) /\ (RunEndInv' \/ UNCHANGED srun)
  PROVE  Kept
<1>1. CasesGoOn
  BY DEF CasesGoOn
<1>2. SupTypes'
  BY DEF BatchInv, SupTypes, ByCall
<1>3. CallOf(j)'
  BY DEF CallOf
<1>4. BudgetInv' /\ \A k \in BatchCase : ExecutedOnce(k)'
  BY DEF BatchInv, BudgetInv, Executed, ExecutedOnce
<1>5. BatchInv'
  BY <1>1, <1>2, <1>3, <1>4, BatchKept
<1>6. ASSUME Len(Batch) <= RoundLimit, BatchEndInv PROVE BatchEndInv'
  <2>1. EndOf(j)'
    BY <1>6, DerivedStays DEF EndOf, Passed, AllEnded, Over
  <2>2. OrderInv'
    BY <1>6 DEF BatchEndInv, OrderInv, Passed
  <2> QED BY <1>1, <1>2, <1>6, <2>1, <2>2, EndKept
<1> QED BY <1>5, <1>6 DEF Kept
-----------------------------------------------------------------------------
(* The steps of a call that leave the cases alone                           *)

LEMMA TransitionTypes ==
  ASSUME SupTypes, NEW s \in {"running"} \cup Sup!RunEnds, NEW v \in Nat, Sup!TransitionRun(s, v)
  PROVE  srun' \in Runs /\ (srun' # srun => srun'.status = s)
  BY DEF Sup!TransitionRun, SupTypes, Runs, Sup!Mutable

LEMMA BeginStep ==
  ASSUME BatchInv, Sup!SupervisorAssumption, NEW p \in Process, Sup!Begin(p)
  PROVE  Kept
<1> DEFINE j == [pc |-> IF srun'.status = "open" THEN "start" ELSE "next",
                 at |-> 1, rev |-> srun'.rev, outcome |-> Sup!NoOutcome]
<1>1. srun' \in Runs
  BY DEF Sup!Begin, BatchInv, SupTypes, Runs, Sup!Mutable
<1>2. j \in Call
  BY <1>1, OutcomeTypes DEF Call, Calls, Runs
<1>3. EndOf(j)
  BY <1>2 DEF EndOf, Places
<1>4. RunEndInv' \/ UNCHANGED srun
  BY DEF Sup!Begin, RunEndInv, Sup!Terminal, Sup!RunEnds
<1>5. PICK i : i = j
  OBVIOUS
<1> QED BY <1>1, <1>2, <1>3, <1>4, <1>5, QuietStep DEF Sup!Begin, ByCall

LEMMA BatchStartStep ==
  ASSUME BatchInv, Sup!SupervisorAssumption, NEW p \in Process, Sup!Start(p)
  PROVE  Kept
<1>1. PICK j : j = [sjob[p] EXCEPT !.pc = "next"]
  OBVIOUS
<1>2. sjob[p] \in Call /\ sjob[p] # Sup!Idle
  BY CallFacts DEF Sup!Start, BatchInv
<1>3. j \in Call /\ j.pc = "next" /\ j.at = sjob[p].at
  BY <1>1, <1>2 DEF Call, Calls
<1>4. srun' \in Runs /\ (srun' # srun => srun'.status = "running")
  BY <1>2, TransitionTypes DEF Sup!Start, BatchInv, Call
<1>5. RunEndInv' \/ UNCHANGED srun
  BY <1>4 DEF RunEndInv, Sup!Terminal, Sup!RunEnds
<1>6. BatchEndInv => EndOf(j)
  BY <1>2, <1>3 DEF BatchEndInv, EndOf
<1>7. ByCall(p, j)
  BY <1>1 DEF Sup!Start, Sup!Goto, ByCall
<1> QED BY <1>3, <1>4, <1>5, <1>6, <1>7, QuietStep DEF Sup!Start

(* Whoever is past the last case has passed them all.                       *)
LEMMA PastTheLast ==
  ASSUME Sup!SupervisorAssumption, NEW j \in Call, \A i \in Places : i < j.at => Passed(i),
         j.at > Len(Batch)
  PROVE  AllEnded
  BY DEF Call, Places, Sup!SupervisorAssumption, AllEnded, Passed

LEMMA NextCaseStep ==
  ASSUME BatchInv, Sup!SupervisorAssumption, NEW p \in Process, Sup!NextCase(p)
  PROVE  Kept
<1>1. sjob[p] \in Call /\ sjob[p] # Sup!Idle /\ sjob[p].at \in Nat /\ Len(Batch) \in Nat
  BY CallFacts DEF Sup!NextCase, BatchInv, Call, Sup!SupervisorAssumption
<1>2. ASSUME NEW pc \in {"verify", "derive", "admit"}, Sup!Goto(p, pc),
             pc = "admit" => sjob[p].at <= Len(Batch),
             pc = "derive" => sjob[p].at > Len(Batch)
      PROVE  Kept
  <2>1. PICK j : j = [sjob[p] EXCEPT !.pc = pc]
    OBVIOUS
  <2>2. j \in Call /\ j.pc = pc /\ j.at = sjob[p].at /\ j.outcome = sjob[p].outcome
    BY <1>1, <2>1 DEF Call, Calls
  <2>3. BatchEndInv => EndOf(j)
    BY <1>1, <1>2, <2>2, PastTheLast DEF BatchEndInv, EndOf
  <2>4. ByCall(p, j)
    BY <1>2, <2>1 DEF Sup!Goto, ByCall
  <2>5. srun' \in Runs
    BY DEF Sup!NextCase, BatchInv, SupTypes
  <2> QED BY <1>2, <2>2, <2>3, <2>4, <2>5, QuietStep DEF Sup!NextCase
<1>3. ASSUME sjob[p].at <= Len(Batch), sjob[p].at > RoundLimit,
             sjob' = [sjob EXCEPT ![p].pc = "finish",
                                ![p].outcome = Sup!Outcome("budget_exhausted", "nobody")]
      PROVE  Kept
  <2>1. PICK j : j = [sjob[p] EXCEPT !.pc = "finish",
                                    !.outcome = Sup!Outcome("budget_exhausted", "nobody")]
    OBVIOUS
  <2>2. Sup!Outcome("budget_exhausted", "nobody") \in Outcomes
    BY OutcomeTypes DEF Sup!RunEnds
  <2>3. j \in Call /\ j.pc = "finish" /\ j.outcome.status = "budget_exhausted"
    BY <1>1, <2>1, <2>2, OutcomeTypes DEF Call, Calls, Sup!RunEnds
  <2>4. ~(Len(Batch) <= RoundLimit)
    BY <1>1, <1>3 DEF Sup!SupervisorAssumption
  <2>5. ByCall(p, j)
    BY <1>3, <2>1 DEF ByCall
  <2>6. srun' \in Runs
    BY DEF Sup!NextCase, BatchInv, SupTypes
  <2> QED BY <2>3, <2>4, <2>5, <2>6, QuietStep DEF Sup!NextCase, Sup!RunEnds
<1> QED BY <1>1, <1>2, <1>3 DEF Sup!NextCase

LEMMA DeriveStep ==
  ASSUME BatchInv, Sup!SupervisorAssumption, NEW p \in Process, Sup!Derive(p)
  PROVE  Kept
<1>1. PICK j : j = [sjob[p] EXCEPT !.pc = "finish", !.outcome = Sup!Outcome(Sup!Derived, "nobody")]
  OBVIOUS
<1>2. sjob[p] \in Call /\ sjob[p] # Sup!Idle
  BY CallFacts DEF Sup!Derive, BatchInv
<1>3. /\ Sup!Outcome(Sup!Derived, "nobody") \in Outcomes
      /\ Sup!Outcome(Sup!Derived, "nobody").status = Sup!Derived
  BY OutcomeTypes, DerivedIsAnEnd
<1>4. j \in Call /\ j.pc = "finish" /\ j.at = sjob[p].at /\ j.outcome.status = Sup!Derived
  BY <1>1, <1>2, <1>3 DEF Call, Calls
<1>5. BatchEndInv => EndOf(j)
  BY <1>2, <1>4 DEF BatchEndInv, EndOf, Sup!Derive, Over
<1>6. ByCall(p, j)
  BY <1>1 DEF Sup!Derive, ByCall
<1>7. srun' \in Runs
  BY DEF Sup!Derive, BatchInv, SupTypes
<1> QED BY <1>4, <1>5, <1>6, <1>7, DerivedIsAnEnd, QuietStep DEF Sup!Derive

LEMMA FinishLookStep ==
  ASSUME BatchInv, Sup!SupervisorAssumption, NEW p \in Process, Sup!FinishLook(p)
  PROVE  Kept
<1>1. PICK j : j = [sjob[p] EXCEPT !.pc = IF Sup!Terminal THEN "verify" ELSE "transition",
                                  !.rev = srun.rev]
  OBVIOUS
<1>2. sjob[p] \in Call /\ sjob[p] # Sup!Idle /\ srun.rev \in Nat
  BY CallFacts DEF Sup!FinishLook, BatchInv, SupTypes, Runs
<1>3. /\ j \in Call /\ j.pc \in {"verify", "transition"}
      /\ j.at = sjob[p].at /\ j.outcome = sjob[p].outcome
  BY <1>1, <1>2 DEF Call, Calls
<1>4. BatchEndInv => EndOf(j)
  BY <1>2, <1>3 DEF BatchEndInv, EndOf, Sup!FinishLook
<1>5. ByCall(p, j)
  BY <1>1 DEF Sup!FinishLook, ByCall
<1>6. srun' \in Runs
  BY DEF Sup!FinishLook, BatchInv, SupTypes
<1> QED BY <1>3, <1>4, <1>5, <1>6, QuietStep DEF Sup!FinishLook, BatchInv, CallOf

LEMMA FinishStep ==
  ASSUME BatchInv, Sup!SupervisorAssumption, NEW p \in Process, Sup!Finish(p)
  PROVE  Kept
<1>1. PICK j : j = [sjob[p] EXCEPT !.pc = "verify"]
  OBVIOUS
<1>2. sjob[p] \in Call /\ sjob[p] # Sup!Idle
  BY CallFacts DEF Sup!Finish, BatchInv
<1>3. j \in Call /\ j.pc = "verify" /\ j.at = sjob[p].at
  BY <1>1, <1>2 DEF Call, Calls
<1>4. BatchEndInv => EndOf(j)
  BY <1>2, <1>3 DEF BatchEndInv, EndOf
<1>5. ByCall(p, j)
  BY <1>1 DEF Sup!Finish, Sup!Goto, ByCall
<1>6. UNCHANGED srun \/ srun' = [status |-> sjob[p].outcome.status, rev |-> srun.rev + 1]
  BY DEF Sup!Finish, Sup!TransitionRun
<1>7. srun' \in Runs
  BY <1>6 DEF BatchInv, SupTypes, Runs, CallOf, Sup!Finish
<1>8. BatchEndInv => RunEndInv' \/ UNCHANGED srun
  BY <1>6, DerivedStays DEF BatchEndInv, EndOf, RunEndInv, Sup!Finish, Over, AllEnded
<1> QED BY <1>3, <1>4, <1>5, <1>7, <1>8, QuietStep DEF Sup!Finish

(* The call returns or raises, or its process is stopped.                   *)
LEMMA LeaveStep ==
  ASSUME BatchInv, Sup!SupervisorAssumption, NEW p \in Process, Sup!Return(p) \/ Sup!Stop(p)
  PROVE  Kept
<1>1. Sup!Idle.pc = "idle" /\ EndOf(Sup!Idle)
  BY DEF Sup!Idle, EndOf
<1>2. ByCall(p, Sup!Idle) /\ UNCHANGED <<srun, scases, executions>>
  BY DEF Sup!Return, Sup!Stop, Sup!Leave, ByCall
<1>3. srun' \in Runs
  BY <1>2 DEF BatchInv, SupTypes
<1> QED BY <1>1, <1>2, <1>3, QuietStep
-----------------------------------------------------------------------------
(* The steps that write cases and executions                                *)

(* A step that writes the record r of the case k.                           *)
Writes(k, r) == scases' = [scases EXCEPT ![k] = r]

LEMMA WriteFacts ==
  ASSUME SupTypes, NEW k \in BatchCase, NEW r \in Record, Writes(k, r),
         scases[k].status \notin Sup!Ended,
         r.status = "pending" => scases[k] = Sup!NoCase
  PROVE  /\ CasesGoOn
         /\ scases' \in [BatchCase -> {Sup!NoCase} \cup Record]
         /\ \A c \in BatchCase : scases'[c] = IF c = k THEN r ELSE scases[c]
         /\ scases'[k] # Sup!NoCase
<1>1. \A c \in BatchCase : scases'[c] = IF c = k THEN r ELSE scases[c]
  BY DEF SupTypes, Writes
<1>2. r # Sup!NoCase
  BY DEF Record, Sup!NoCase, Sup!Ended
<1>3. scases' \in [BatchCase -> {Sup!NoCase} \cup Record]
  BY DEF SupTypes, Writes
<1>4. scases[k] = Sup!NoCase \/ scases[k] \in Record
  BY DEF SupTypes
<1>5. CasesGoOn
  BY <1>1, <1>2, <1>4 DEF CasesGoOn, Sup!NoCase, Sup!Ended
<1> QED BY <1>1, <1>2, <1>3, <1>5

(* Where the call p goes after its case has ended.                          *)
LEMMA AfterCaseFacts ==
  ASSUME SupTypes, Sup!SupervisorAssumption, CasesGoOn, NEW p \in Process,
         sjob[p] \in Call, sjob[p].at <= Len(Batch), scases'[Sup!At(p)].status \in Sup!Ended,
         NEW j, j = Sup!AfterCase(p)
  PROVE  /\ j \in Call /\ j # Sup!Idle /\ j.pc \in {"next", "finish"}
         /\ j.pc = "finish" => j.outcome.status \in Sup!RunEnds
         /\ (\A i \in Places : i < sjob[p].at => Passed(i)) => EndOf(j)'
<1> PICK n : n = sjob[p].at
  OBVIOUS
<1> PICK k : k = Sup!At(p)
  OBVIOUS
<1>1. n \in Nat \ {0} /\ n \in Places /\ Len(Batch) \in Nat /\ k = Batch[n] /\ k \in BatchCase
  BY DEF Call, Places, Sup!SupervisorAssumption, Sup!At
<1>2. CASE scases'[k].status = "quarantined" /\ StopOnQuarantine
  <2>1. j = [sjob[p] EXCEPT !.pc = "finish", !.outcome = Sup!Outcome("quarantined", "nobody")]
    BY <1>2 DEF Sup!AfterCase
  <2>2. /\ Sup!Outcome("quarantined", "nobody") \in Outcomes
        /\ Sup!Outcome("quarantined", "nobody").status = "quarantined"
    BY OutcomeTypes DEF Sup!RunEnds
  <2>3. /\ j \in Call /\ j # Sup!Idle /\ j.pc = "finish" /\ j.at = n
        /\ j.outcome.status = "quarantined"
    BY <2>1, <2>2 DEF Call, Calls, Sup!Idle
  <2>4. scases'[k] # Sup!NoCase
    BY <1>2 DEF Sup!NoCase
  <2>5. Sup!Derived' = "quarantined"
    BY <1>1, <1>2, <2>4 DEF Sup!Derived, Sup!Statuses, Sup!Admitted
  <2>6. Over'
    BY <1>1, <1>2 DEF Over
  <2> QED BY <2>3, <2>5, <2>6, PassedStays DEF EndOf, Sup!RunEnds
<1>3. CASE ~(scases'[k].status = "quarantined" /\ StopOnQuarantine)
  <2>1. j = [sjob[p] EXCEPT !.pc = "next", !.at = @ + 1, !.outcome = Sup!NoOutcome]
    BY <1>3 DEF Sup!AfterCase
  <2>2. j \in Call /\ j # Sup!Idle /\ j.pc = "next" /\ j.at = n + 1
    <3>1. n + 1 \in Nat \ {0} /\ Sup!NoOutcome \in Outcomes /\ "next" \in Calls
      BY <1>1, OutcomeTypes DEF Calls
    <3>2. sjob[p].at + 1 = n + 1
      OBVIOUS
    <3> QED BY <2>1, <3>1, <3>2 DEF Call, Sup!Idle
  <2>3. Passed(n)'
    BY <1>1, <1>3 DEF Passed
  <2>4. ASSUME \A i \in Places : i < n => Passed(i),
               NEW i \in Places, i < n + 1
        PROVE  Passed(i)'
    BY <1>1, <2>3, <2>4, PassedStays DEF Places
  <2> QED BY <2>2, <2>4 DEF EndOf
<1> QED BY <1>2, <1>3

LEMMA AdmitStep ==
  ASSUME BatchInv, Sup!SupervisorAssumption, NEW p \in Process, Sup!Admit(p)
  PROVE  Kept
<1> DEFINE k == Sup!At(p)
           r == [status |-> "pending", rev |-> 0, outcome |-> Sup!NoOutcome]
<1>1. /\ sjob[p] \in Call /\ sjob[p] # Sup!Idle /\ sjob[p].at \in Places /\ sjob[p].at \in Nat \ {0}
      /\ sjob[p].at <= Len(Batch) /\ k = Batch[sjob[p].at] /\ k \in BatchCase
  BY CallFacts DEF Sup!Admit, BatchInv, CallOf, Call, Places, Sup!SupervisorAssumption, Sup!At
<1>2. r \in Record
  BY OutcomeTypes DEF Record, Sup!Ended
<1>3. scases[k] # Sup!NoCase => UNCHANGED scases
  BY DEF Sup!Admit, Sup!AdmitCase
<1>4. scases[k] = Sup!NoCase => Writes(k, r)
  BY DEF Sup!Admit, Sup!AdmitCase, Writes
<1>5. scases[k] = Sup!NoCase => scases[k].status \notin Sup!Ended
  BY DEF Sup!NoCase, Sup!Ended
<1>6. CasesGoOn /\ scases' \in [BatchCase -> {Sup!NoCase} \cup Record] /\ scases'[k] # Sup!NoCase
  <2>1. CASE scases[k] = Sup!NoCase
    BY <1>1, <1>2, <1>4, <1>5, <2>1, WriteFacts DEF BatchInv
  <2>2. CASE scases[k] # Sup!NoCase
    BY <1>3, <2>2 DEF BatchInv, SupTypes, CasesGoOn
  <2> QED BY <2>1, <2>2
<1>7. PICK j : j = Sup!AfterAdmission(p, scases'[k])
  OBVIOUS
<1>8. ByCall(p, j) /\ UNCHANGED <<srun, executions>>
  BY <1>7 DEF Sup!Admit, ByCall
<1>9. scases'[k] \in Record /\ scases'[k].rev \in Nat
      /\ scases'[k].status \in {"pending", "running"} \cup Sup!Ended
  BY <1>1, <1>6 DEF Record
<1>10. CASE scases'[k].status = "pending"
  <2>1. j = [sjob[p] EXCEPT !.pc = "claim", !.rev = scases'[k].rev]
    BY <1>7, <1>10 DEF Sup!AfterAdmission
  <2>2. j \in Call /\ j.pc = "claim" /\ j.at = sjob[p].at
    BY <1>1, <1>9, <2>1 DEF Call, Calls
  <2> QED
    <3>1. SupTypes'
      BY <1>6, <1>8, <2>2 DEF ByCall, BatchInv, SupTypes
    <3>2. CallOf(j)'
      BY <1>1, <1>6, <2>2 DEF CallOf
    <3>3. \A c \in BatchCase : ExecutedOnce(c)'
      BY <1>6, <1>8 DEF BatchInv, ExecutedOnce, CasesGoOn
    <3>4. BudgetInv'
      BY <1>8 DEF BatchInv, BudgetInv, Executed
    <3>5. BatchInv'
      BY <1>6, <1>8, <2>2, <3>1, <3>2, <3>3, <3>4, BatchKept
    <3>6. ASSUME BatchEndInv PROVE BatchEndInv'
      <4>1. Over => scases' = scases
        BY <1>3, <3>6, OverIsOver DEF Sup!Admit
      <4>2. EndOf(j)'
        BY <1>1, <1>6, <2>2, <3>6, PassedStays DEF EndOf, BatchEndInv, BatchInv
      <4>3. OrderInv'
        <5> SUFFICES ASSUME NEW c \in BatchCase, scases'[c] # Sup!NoCase
                     PROVE  \E i \in Places : c = Batch[i] /\ \A m \in 1 .. (i - 1) : Passed(m)'
          BY DEF OrderInv
        <5>1. CASE c = k
          <6>1. \A m \in 1 .. (sjob[p].at - 1) : Passed(m)'
            BY <1>1, <2>2, <4>2 DEF EndOf, Places, Call, Sup!Idle
          <6> QED BY <1>1, <5>1, <6>1
        <5>2. CASE c # k
          <6>1. scases[c] # Sup!NoCase
            BY <1>1, <1>2, <1>3, <1>4, <5>2, WriteFacts DEF BatchInv, SupTypes, Writes
          <6>2. PICK i \in Places : c = Batch[i] /\ \A m \in 1 .. (i - 1) : Passed(m)
            BY <3>6, <6>1 DEF BatchEndInv, OrderInv
          <6>3. \A m \in 1 .. (i - 1) : Passed(m)'
            BY <1>6, <6>2, PassedStays DEF Places, Sup!SupervisorAssumption, BatchInv
          <6> QED BY <6>2, <6>3
        <5> QED BY <5>1, <5>2
      <4> QED BY <1>6, <1>8, <2>2, <3>1, <3>6, <4>1, <4>2, <4>3, EndKept
    <3> QED BY <3>5, <3>6 DEF Kept
<1>11. CASE scases'[k].status # "pending"
  <2>1. UNCHANGED scases
    BY <1>1, <1>2, <1>3, <1>4, <1>5, <1>11, WriteFacts DEF BatchInv
  <2>3. CASE scases'[k].status = "running"
    <3>1. j = Sup!Idle
      BY <1>7, <2>3 DEF Sup!AfterAdmission
    <3>2. Sup!Idle.pc = "idle" /\ EndOf(Sup!Idle)
      BY DEF Sup!Idle, EndOf
    <3> QED BY <1>8, <2>1, <3>1, <3>2, QuietStep DEF BatchInv, SupTypes
  <2>4. CASE scases'[k].status \in Sup!Ended
    <3>1. j = Sup!AfterCase(p)
      BY <1>7, <2>4 DEF Sup!AfterAdmission, Sup!Ended
    <3>2. /\ j \in Call /\ j.pc \in {"next", "finish"}
          /\ j.pc = "finish" => j.outcome.status \in Sup!RunEnds
          /\ BatchEndInv => EndOf(j)'
      BY <1>1, <1>6, <2>4, <3>1, AfterCaseFacts DEF BatchInv, BatchEndInv, EndOf
    <3>3. BatchEndInv => EndOf(j)
      BY <2>1, <3>2, DerivedStays DEF EndOf, Passed, AllEnded, Over
    <3> QED BY <1>8, <2>1, <3>2, <3>3, QuietStep DEF BatchInv, SupTypes
  <2> QED BY <1>9, <1>11, <2>3, <2>4
<1> QED BY <1>10, <1>11

(* A step that writes an admitted case ends nothing that was over.          *)
LEMMA EndKeptByWrite ==
  ASSUME BatchInv, BatchEndInv, Sup!SupervisorAssumption, CasesGoOn, SupTypes',
         NEW k \in BatchCase, NEW r, Writes(k, r), scases[k] # Sup!NoCase,
         scases[k].status \notin Sup!Ended,
         UNCHANGED srun
  PROVE  /\ ~Over /\ OrderInv' /\ RunEndInv'
         /\ \A q \in Process : sjob'[q] = sjob[q] => EndOf(sjob[q])'
<1>1. ~Over
  BY OverIsOver
<1>2. OrderInv'
  <2>1. \A c \in BatchCase : scases'[c] # Sup!NoCase => scases[c] # Sup!NoCase
    BY DEF Writes, BatchInv, SupTypes
  <2> QED BY <2>1, OrderKept DEF BatchInv, BatchEndInv
<1>3. ~Sup!Terminal /\ ~Sup!Terminal'
  BY <1>1 DEF BatchEndInv, RunEndInv, Sup!Terminal
<1>4. ASSUME NEW q \in Process, sjob'[q] = sjob[q] PROVE EndOf(sjob[q])'
  <2>1. EndOf(sjob[q])
    BY DEF BatchEndInv
  <2> QED BY <1>1, <1>4, <2>1, PassedStays DEF EndOf, BatchInv
<1> QED BY <1>1, <1>2, <1>3, <1>4 DEF RunEndInv

LEMMA ClaimStep ==
  ASSUME BatchInv, Sup!SupervisorAssumption, NEW p \in Process, Sup!Claim(p)
  PROVE  Kept
<1> PICK k : k = Sup!At(p)
  OBVIOUS
<1>1. /\ sjob[p] \in Call /\ sjob[p] # Sup!Idle /\ sjob[p].at \in Places /\ sjob[p].rev \in Nat
      /\ sjob[p].at <= Len(Batch) /\ k = Batch[sjob[p].at] /\ k \in BatchCase
  BY CallFacts DEF Sup!Claim, BatchInv, CallOf, Call, Places, Sup!SupervisorAssumption, Sup!At
<1>2. scases[k].status = "pending" /\ scases[k] # Sup!NoCase /\ scases[k] \in Record
  BY <1>1, CaseFacts DEF Sup!Claim, Sup!ClaimCase, BatchInv, Sup!NoCase
<1>3. PICK r : r = [scases[k] EXCEPT !.status = "running", !.rev = @ + 1]
  OBVIOUS
<1>4. r \in Record /\ r.status = "running"
  <2>1. /\ scases[k] \in [status : {"pending", "running"} \cup Sup!Ended, rev : Nat,
                            outcome : Outcomes]
        /\ scases[k].outcome = Sup!NoOutcome /\ scases[k].rev + 1 \in Nat
    BY <1>2 DEF Record, Sup!Ended
  <2>2. /\ r \in [status : {"pending", "running"} \cup Sup!Ended, rev : Nat, outcome : Outcomes]
        /\ r.outcome = Sup!NoOutcome /\ r.status = "running"
    BY <1>3, <2>1
  <2> QED BY <2>2 DEF Record, Sup!Ended
<1>5. Writes(k, r)
  BY <1>1, <1>2, <1>3 DEF Sup!Claim, Sup!ClaimCase, Writes, BatchInv, SupTypes
<1>6. /\ CasesGoOn /\ scases' \in [BatchCase -> {Sup!NoCase} \cup Record]
      /\ scases'[k] # Sup!NoCase /\ scases'[k] = r
  BY <1>1, <1>2, <1>4, <1>5, WriteFacts DEF BatchInv, Sup!Ended
<1>7. PICK j : j = [sjob[p] EXCEPT !.pc = "route", !.rev = @ + 1]
  OBVIOUS
<1>8. j \in Call /\ j.pc = "route" /\ j.at = sjob[p].at
  <2>1. sjob[p].rev + 1 \in Nat /\ "route" \in Calls
    BY <1>1 DEF Calls
  <2> QED BY <1>1, <1>7, <2>1 DEF Call
<1>9. ByCall(p, j) /\ UNCHANGED <<srun, executions>>
  BY <1>1, <1>7 DEF Sup!Claim, ByCall, BatchInv, SupTypes
<1>10. SupTypes'
  BY <1>6, <1>8, <1>9 DEF ByCall, BatchInv, SupTypes
<1>11. executions[k] = 0
  BY <1>1, <1>2 DEF BatchInv, SupTypes, ExecutedOnce
<1>12. CallOf(j)'
  BY <1>1, <1>4, <1>6, <1>8, <1>9, <1>11 DEF CallOf
<1>13. \A q \in Process \ {p} : sjob[q].pc = "route" => Batch[j.at] # Sup!At(q)
  BY <1>1, <1>2, <1>8 DEF BatchInv, CallOf, Sup!At
<1>14. \A c \in BatchCase : ExecutedOnce(c)'
  BY <1>6, <1>9 DEF BatchInv, ExecutedOnce, CasesGoOn
<1>15. BudgetInv'
  BY <1>9 DEF BatchInv, BudgetInv, Executed
<1>16. BatchInv'
  BY <1>6, <1>8, <1>9, <1>10, <1>12, <1>13, <1>14, <1>15, BatchKept
<1>17. ASSUME BatchEndInv PROVE BatchEndInv'
  <2>1. ~Over /\ OrderInv' /\ RunEndInv'
    BY <1>1, <1>2, <1>5, <1>6, <1>9, <1>10, <1>17, EndKeptByWrite DEF Sup!Ended
  <2>2. EndOf(j)'
    BY <1>1, <1>6, <1>8, <1>17, PassedStays DEF EndOf, BatchEndInv, BatchInv
  <2> QED BY <1>6, <1>8, <1>9, <1>10, <1>17, <2>1, <2>2, EndKept
<1> QED BY <1>16, <1>17 DEF Kept

(* What is handed to an executor is within the budget of its track.         *)
LEMMA RoutedFacts ==
  ASSUME NEW t, NEW o \in Sup!Routed(t)
  PROVE  /\ o \in Outcomes /\ o.status \in Sup!Ended
         /\ o.by = "executor" => ~Sup!Exceeded(t)
<1>1. /\ Sup!OverBudget \in Outcomes
      /\ Sup!OverBudget.status = "blocked" /\ Sup!OverBudget.by = "nobody"
  BY OutcomeTypes DEF Sup!OverBudget
<1>2. \A s \in Sup!Ended, b \in {"nobody", "executor", "ticket"} :
         Sup!Outcome(s, b) \in Outcomes /\ Sup!Outcome(s, b).status = s /\ Sup!Outcome(s, b).by = b
  BY OutcomeTypes
<1>3. \/ \E s \in Sup!Ended, b \in {"nobody", "ticket"} : o = Sup!Outcome(s, b)
      \/ o = Sup!OverBudget
      \/ ~Sup!Exceeded(t) /\ \E s \in Sup!Ended : o = Sup!Outcome(s, "executor")
  BY DEF Sup!Routed, Sup!ExecutorOutcomes, Sup!Ended
<1> QED BY <1>1, <1>2, <1>3 DEF Sup!Ended

LEMMA BudgetKept ==
  ASSUME BatchInv, Sup!SupervisorAssumption, NEW k \in BatchCase,
         scases[k] # Sup!NoCase, ~Sup!Exceeded(route[k]),
         executions' = [executions EXCEPT ![k] = @ + 1]
  PROVE  BudgetInv'
<1> SUFFICES ASSUME NEW t \in DOMAIN budget
             PROVE  Cardinality(Executed(t)') <= budget[t]
  BY DEF BudgetInv
<1>1. \A c \in BatchCase : executions'[c] = IF c = k THEN executions[c] + 1 ELSE executions[c]
  BY DEF BatchInv, SupTypes
<1>2. CASE route[k] # t
  <2>1. Executed(t)' = Executed(t)
    BY <1>1, <1>2 DEF Executed
  <2> QED BY <2>1 DEF BatchInv, BudgetInv
<1>3. CASE route[k] = t
  <2> DEFINE S == {c \in Sup!Admitted : route[c] = t}
  <2>1. ~(Cardinality(S) > budget[t])
    BY <1>3, SameSets DEF Sup!Exceeded
  <2>2. IsFiniteSet(S)
    BY FS_Subset, SameSets DEF Sup!Admitted, Sup!SupervisorAssumption
  <2>3. Executed(t)' \subseteq S
    BY <1>1 DEF Executed, Sup!Admitted, BatchInv, ExecutedOnce
  <2>4. Cardinality(Executed(t)') <= Cardinality(S) /\ Cardinality(S) \in Nat
    BY <2>2, <2>3, FS_Subset, FS_CardinalityType
  <2>5. Cardinality(Executed(t)') \in Nat
    BY <2>2, <2>3, FS_Subset, FS_CardinalityType
  <2> QED BY <2>1, <2>4, <2>5 DEF Sup!SupervisorAssumption
<1> QED BY <1>2, <1>3

LEMMA RouteStep ==
  ASSUME BatchInv, Sup!SupervisorAssumption, NEW p \in Process, Sup!Route(p)
  PROVE  Kept
<1> PICK k : k = Sup!At(p)
  OBVIOUS
<1>1. /\ sjob[p] \in Call /\ sjob[p] # Sup!Idle /\ sjob[p].at \in Places
      /\ sjob[p].at <= Len(Batch) /\ k = Batch[sjob[p].at] /\ k \in BatchCase
  BY CallFacts DEF Sup!Route, BatchInv, CallOf, Call, Places, Sup!SupervisorAssumption, Sup!At
<1>2. scases[k] # Sup!NoCase /\ scases[k].status # "pending" /\ executions[k] = 0
  BY <1>1 DEF Sup!Route, BatchInv, CallOf
<1>3. PICK o \in Sup!Routed(route[k]) :
        /\ sjob' = [sjob EXCEPT ![p].pc = "finalize", ![p].outcome = o]
        /\ executions' = IF o.by = "executor" THEN [executions EXCEPT ![k] = @ + 1]
                         ELSE executions
  BY DEF Sup!Route
<1>4. o \in Outcomes /\ o.status \in Sup!Ended /\ (o.by = "executor" => ~Sup!Exceeded(route[k]))
  BY RoutedFacts
<1>5. PICK j : j = [sjob[p] EXCEPT !.pc = "finalize", !.outcome = o]
  OBVIOUS
<1>6. j \in Call /\ j.pc = "finalize" /\ j.at = sjob[p].at /\ j.outcome = o
  BY <1>1, <1>4, <1>5 DEF Call, Calls
<1>7. ByCall(p, j) /\ UNCHANGED <<srun, scases>>
  BY <1>1, <1>3, <1>5 DEF Sup!Route, ByCall, BatchInv, SupTypes
<1>8. /\ executions' \in [BatchCase -> Nat]
      /\ \A c \in BatchCase : c # k => executions'[c] = executions[c]
      /\ executions'[k] \in {0, 1}
  BY <1>1, <1>2, <1>3 DEF BatchInv, SupTypes
<1>9. SupTypes' /\ CasesGoOn
  BY <1>6, <1>7, <1>8 DEF ByCall, BatchInv, SupTypes, CasesGoOn
<1>10. CallOf(j)'
  BY <1>1, <1>2, <1>4, <1>6, <1>7 DEF CallOf
<1>11. ASSUME NEW q \in Process \ {p}, sjob[q].pc = "route"
       PROVE  executions'[Sup!At(q)] = executions[Sup!At(q)]
  <2>1. Sup!At(q) \in BatchCase
    BY <1>11, CallFacts DEF Sup!At, BatchInv, CallOf, Call, Places, Sup!SupervisorAssumption
  <2>2. Sup!At(q) # k
    BY <1>11 DEF BatchInv, ClaimsInv, Sup!Route
  <2> QED BY <1>8, <2>1, <2>2
<1>12. \A c \in BatchCase : ExecutedOnce(c)'
  BY <1>2, <1>7, <1>8 DEF BatchInv, ExecutedOnce
<1>13. BudgetInv'
  <2>1. CASE o.by = "executor"
    BY <1>1, <1>2, <1>3, <1>4, <2>1, BudgetKept
  <2>2. CASE o.by # "executor"
    BY <1>3, <2>2 DEF BatchInv, BudgetInv, Executed
  <2> QED BY <2>1, <2>2
<1>14. BatchInv'
  BY <1>6, <1>7, <1>9, <1>10, <1>11, <1>12, <1>13, BatchKept
<1>15. ASSUME BatchEndInv PROVE BatchEndInv'
  <2>1. OrderInv'
    BY <1>7, <1>15 DEF BatchEndInv, OrderInv, Passed
  <2>2. EndOf(j)'
    BY <1>1, <1>6, <1>7, <1>15 DEF EndOf, BatchEndInv, Passed
  <2> QED BY <1>6, <1>7, <1>9, <1>15, <2>1, <2>2, EndKept
<1> QED BY <1>14, <1>15 DEF Kept

(* The record of an outcome. *)
LEMMA OutcomeRecord ==
  ASSUME NEW o \in Outcomes, o.status \in Sup!Ended, NEW n \in Nat
  PROVE  [status |-> o.status, rev |-> n + 1, outcome |-> o] \in Record
  BY DEF Record

LEMMA FinalizeStep ==
  ASSUME BatchInv, Sup!SupervisorAssumption, NEW p \in Process, Sup!Finalize(p)
  PROVE  Kept
<1> PICK k : k = Sup!At(p)
  OBVIOUS
<1>1. /\ sjob[p] \in Call /\ sjob[p] # Sup!Idle /\ sjob[p].at \in Places /\ sjob[p].rev \in Nat
      /\ sjob[p].at <= Len(Batch) /\ k = Batch[sjob[p].at] /\ k \in BatchCase
      /\ sjob[p].outcome \in Outcomes /\ sjob[p].outcome.status \in Sup!Ended
  BY CallFacts DEF Sup!Finalize, BatchInv, CallOf, Call, Places, Sup!SupervisorAssumption, Sup!At
<1>2. scases[k].status = "running" /\ scases[k] # Sup!NoCase
  BY <1>1, CaseFacts DEF Sup!Finalize, Sup!FinalizeCase, BatchInv, Sup!NoCase
<1>3. PICK r : r = [status |-> sjob[p].outcome.status, rev |-> sjob[p].rev + 1,
                    outcome |-> sjob[p].outcome]
  OBVIOUS
<1>4. r \in Record /\ r.status \in Sup!Ended
  BY <1>1, <1>3, OutcomeRecord
<1>5. Writes(k, r) /\ UNCHANGED <<srun, executions>>
  BY <1>3 DEF Sup!Finalize, Sup!FinalizeCase, Writes
<1>6. /\ CasesGoOn /\ scases' \in [BatchCase -> {Sup!NoCase} \cup Record]
      /\ scases'[k] # Sup!NoCase /\ scases'[k] = r
  BY <1>1, <1>2, <1>4, <1>5, WriteFacts DEF BatchInv, Sup!Ended
<1>7. PICK j : j = Sup!AfterCase(p)
  OBVIOUS
<1>8. /\ j \in Call /\ j # Sup!Idle /\ j.pc \in {"next", "finish"}
      /\ j.pc = "finish" => j.outcome.status \in Sup!RunEnds
      /\ (\A i \in Places : i < sjob[p].at => Passed(i)) => EndOf(j)'
  BY <1>1, <1>4, <1>6, <1>7, AfterCaseFacts DEF BatchInv
<1>9. ByCall(p, j)
  BY <1>7 DEF Sup!Finalize, ByCall
<1>10. SupTypes'
  BY <1>5, <1>6, <1>8, <1>9 DEF ByCall, BatchInv, SupTypes
<1>11. CallOf(j)'
  BY <1>8 DEF CallOf
<1>12. \A c \in BatchCase : ExecutedOnce(c)'
  BY <1>5, <1>6 DEF BatchInv, ExecutedOnce, CasesGoOn
<1>13. BudgetInv'
  BY <1>5 DEF BatchInv, BudgetInv, Executed
<1>14. BatchInv'
  BY <1>5, <1>6, <1>8, <1>9, <1>10, <1>11, <1>12, <1>13, BatchKept
<1>15. ASSUME BatchEndInv PROVE BatchEndInv'
  <2>1. ~Over /\ OrderInv' /\ RunEndInv'
    BY <1>1, <1>2, <1>5, <1>6, <1>10, <1>15, EndKeptByWrite DEF Sup!Ended
  <2>2. EndOf(j)'
    BY <1>1, <1>8, <1>15 DEF BatchEndInv, EndOf
  <2> QED BY <1>6, <1>8, <1>9, <1>10, <1>15, <2>1, <2>2, EndKept
<1> QED BY <1>14, <1>15 DEF Kept

(* An operator ends the case k by hand.                                     *)
LEMMA RecoverStep ==
  ASSUME BatchInv, Sup!SupervisorAssumption, NEW k \in BatchCase, Sup!Recover(k)
  PROVE  Kept
<1>1. scases[k].status = "running" /\ scases[k] # Sup!NoCase /\ scases[k] \in Record
      /\ scases[k].rev \in Nat
  BY CaseFacts DEF Sup!Recover, BatchInv, Sup!NoCase, Record
<1>2. PICK s \in Sup!ByHand(route[k]) : Sup!FinalizeCase(k, Sup!Outcome(s, "nobody"), scases[k].rev)
  BY DEF Sup!Recover
<1>3. s \in Sup!Ended
  BY DEF Sup!ByHand, Sup!Ended
<1>4. PICK r : r = [status |-> Sup!Outcome(s, "nobody").status, rev |-> scases[k].rev + 1,
                    outcome |-> Sup!Outcome(s, "nobody")]
  OBVIOUS
<1>5. r \in Record /\ r.status \in Sup!Ended
  <2>1. PICK o : o = Sup!Outcome(s, "nobody")
    OBVIOUS
  <2>2. o \in Outcomes /\ o.status = s
    BY <1>3, <2>1, OutcomeTypes
  <2>3. r = [status |-> o.status, rev |-> scases[k].rev + 1, outcome |-> o]
    BY <1>4, <2>1
  <2> QED BY <1>1, <1>3, <2>2, <2>3, OutcomeRecord
<1>6. Writes(k, r) /\ UNCHANGED <<srun, sjob, executions>>
  BY <1>2, <1>4 DEF Sup!Recover, Sup!FinalizeCase, Writes
<1>7. CasesGoOn /\ scases' \in [BatchCase -> {Sup!NoCase} \cup Record]
  BY <1>1, <1>5, <1>6, WriteFacts DEF BatchInv, Sup!Ended
<1>8. SupTypes'
  BY <1>6, <1>7 DEF BatchInv, SupTypes
<1>9. ASSUME NEW q \in Process PROVE CallOf(sjob[q])'
  <2>1. CallOf(sjob[q])
    BY DEF BatchInv
  <2>2. sjob[q].pc \in {"admit", "claim", "route", "finalize"} => Batch[sjob[q].at] \in BatchCase
    BY <2>1, CallFacts DEF BatchInv, CallOf, Places, Call
  <2> QED BY <1>6, <1>7, <2>1, <2>2 DEF CallOf, CasesGoOn
<1>10. \A c \in BatchCase : ExecutedOnce(c)'
  BY <1>6, <1>7 DEF BatchInv, ExecutedOnce, CasesGoOn
<1>11. BudgetInv' /\ ClaimsInv'
  BY <1>6 DEF BatchInv, BudgetInv, Executed, ClaimsInv, Sup!At
<1>12. BatchInv'
  BY <1>8, <1>9, <1>10, <1>11 DEF BatchInv
<1>13. ASSUME BatchEndInv PROVE BatchEndInv'
  <2>1. /\ OrderInv' /\ RunEndInv'
        /\ \A q \in Process : sjob'[q] = sjob[q] => EndOf(sjob[q])'
    BY <1>1, <1>6, <1>7, <1>8, <1>13, EndKeptByWrite DEF Sup!Ended
  <2> QED BY <1>6, <2>1 DEF BatchEndInv
<1> QED BY <1>12, <1>13 DEF Kept

-----------------------------------------------------------------------------
LEMMA BatchStarts ==
  ASSUME Sup!SupervisorAssumption, Sup!Init
  PROVE  BatchInv /\ BatchEndInv
<1>1. SupTypes
  BY DEF Sup!Init, SupTypes, Runs, Sup!NoRun
<1>2. \A p \in Process : sjob[p] = Sup!Idle
  BY DEF Sup!Init
<1>3. \A p \in Process : CallOf(sjob[p]) /\ EndOf(sjob[p])
  BY <1>2 DEF CallOf, EndOf, Sup!Idle
<1>4. ClaimsInv
  BY <1>2 DEF ClaimsInv, Sup!Idle
<1>5. \A k \in BatchCase : ExecutedOnce(k) /\ scases[k] = Sup!NoCase
  BY DEF Sup!Init, ExecutedOnce
<1>6. BudgetInv
  <2>1. \A t \in DOMAIN budget : Executed(t) = {}
    BY DEF Sup!Init, Executed
  <2>2. ASSUME NEW t \in DOMAIN budget PROVE Cardinality(Executed(t)) <= budget[t]
    <3>1. Cardinality(Executed(t)) = 0 /\ budget[t] \in Nat
      BY <2>1, FS_EmptySet DEF Sup!SupervisorAssumption
    <3> QED BY <3>1
  <2> QED BY <2>2 DEF BudgetInv
<1>7. OrderInv
  BY <1>5 DEF OrderInv
<1>8. RunEndInv
  BY DEF Sup!Init, RunEndInv, Sup!Terminal, Sup!NoRun, Sup!RunEnds
<1> QED BY <1>1, <1>3, <1>4, <1>5, <1>6, <1>7, <1>8 DEF BatchInv, BatchEndInv

LEMMA BatchStep ==
  ASSUME BatchInv, Sup!SupervisorAssumption, [Sup!Next]_(Sup!vars)
  PROVE  Kept
<1>1. ASSUME NEW p \in Process,
             \/ Sup!Begin(p) \/ Sup!Start(p) \/ Sup!NextCase(p)
             \/ Sup!Admit(p) \/ Sup!Claim(p) \/ Sup!Route(p)
             \/ Sup!Finalize(p) \/ Sup!Derive(p) \/ Sup!FinishLook(p)
             \/ Sup!Finish(p) \/ Sup!Return(p) \/ Sup!Stop(p)
      PROVE  Kept
  BY <1>1, BeginStep, BatchStartStep, NextCaseStep, AdmitStep, ClaimStep, RouteStep, FinalizeStep,
     DeriveStep, FinishLookStep, FinishStep, LeaveStep
<1>2. ASSUME NEW k \in BatchCase, Sup!Recover(k) PROVE Kept
  BY <1>2, RecoverStep
<1>3. CASE UNCHANGED Sup!vars
  <2>1. BatchInv'
    BY <1>3 DEF Sup!vars, BatchInv, SupTypes, CallOf, ClaimsInv, Sup!At, ExecutedOnce, BudgetInv,
       Executed
  <2>2. BatchEndInv => BatchEndInv'
    BY <1>3, DerivedStays DEF Sup!vars, BatchEndInv, OrderInv, Passed, EndOf, Over, AllEnded,
       RunEndInv,
       Sup!Terminal
  <2> QED BY <2>1, <2>2 DEF Kept
<1> QED BY <1>1, <1>2, <1>3 DEF Sup!Next

(* process() of any number of processes and the operator's finalize_case:   *)
(* no case is given to an executor twice, and no track more often than its  *)
(* budget says, whoever stops or comes back where.                          *)
THEOREM ExecutionsWereBounded ==
  ASSUME Sup!SupervisorAssumption
  PROVE  Sup!Spec => []Sup!ExecutionsAreBounded
<1>1. Sup!Init => BatchInv
  BY BatchStarts
<1>2. BatchInv /\ [Sup!Next]_(Sup!vars) => BatchInv'
  BY BatchStep DEF Kept
<1>3. BatchInv => Sup!ExecutionsAreBounded
  BY SameSets DEF BatchInv, Sup!ExecutionsAreBounded, ExecutedOnce, BudgetInv, Executed
<1> QED BY <1>1, <1>2, <1>3, PTL DEF Sup!Spec

(* _finish_run and verify_state: a run that ended has no unfinished case    *)
(* and the status that its outcomes derive, if the policy allows as many    *)
(* rounds as the batch has cases.                                           *)
THEOREM EndedRunsVerify ==
  ASSUME Sup!SupervisorAssumption, Len(Batch) <= RoundLimit
  PROVE  Sup!Spec => []Sup!EndedRunVerifies
<1>1. Sup!Init => BatchInv /\ BatchEndInv
  BY BatchStarts
<1>2. BatchInv /\ BatchEndInv /\ [Sup!Next]_(Sup!vars) => BatchInv' /\ BatchEndInv'
  BY BatchStep DEF Kept
<1>3. BatchInv /\ BatchEndInv => Sup!EndedRunVerifies
  <2> SUFFICES ASSUME BatchInv, BatchEndInv PROVE Sup!EndedRunVerifies
    OBVIOUS
  <2>1. Sup!TypeOK
    <3>1. srun \in [status : {"absent"} \cup Sup!Mutable \cup Sup!RunEnds, rev : Nat]
      BY DEF BatchInv, SupTypes, Runs
    <3>2. ASSUME NEW k \in BatchCase, scases[k] # Sup!NoCase
          PROVE  /\ scases[k].status \in {"pending", "running"} \cup Sup!Ended
                 /\ scases[k].status \in Sup!Ended <=> scases[k].outcome # Sup!NoOutcome
                 /\ scases[k].status \in Sup!Ended => scases[k].outcome.status = scases[k].status
      <4>1. scases[k] \in Record
        BY <3>2 DEF BatchInv, SupTypes
      <4>2. Sup!NoOutcome.status \notin Sup!Ended
        BY DEF Sup!NoOutcome, Sup!Ended
      <4> QED BY <4>1, <4>2 DEF Record
    <3> QED BY <3>1, <3>2 DEF Sup!TypeOK
  <2>2. ASSUME Sup!Terminal PROVE Sup!Statuses \subseteq Sup!Ended /\ srun.status = Sup!Derived
    BY <2>2, OverIsOver DEF BatchEndInv, RunEndInv, Sup!Statuses, Sup!Admitted
  <2> QED BY <2>1, <2>2 DEF Sup!EndedRunVerifies
<1> QED BY <1>1, <1>2, <1>3, PTL DEF Sup!Spec
=============================================================================
