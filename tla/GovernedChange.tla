---------------------------- MODULE GovernedChange ----------------------------
(***************************************************************************)
(* What the governed registries of the program promise, whatever records,  *)
(* campaigns and databases they are made of.  Changes lie on one another:  *)
(* a change is proposed on top of the current one, people outside its team *)
(* vote for it, it is approved once two of them have, and it is applied    *)
(* when what it was proposed on is current.  Only the current change can   *)
(* be undone, which makes the one below it current again and is final; a   *)
(* registry may promise two votes for undoing, too.                        *)
(*                                                                         *)
(* ModelActivation and LocalPolicyLifecycle implement this specification.  *)
(***************************************************************************)
EXTENDS Naturals

CONSTANTS Change, NoChange,
          below,           \* the change that a change is proposed on
          UndoNeedsVotes   \* whether two votes are needed to undo

VARIABLES stage,     \* how far each change got
          votes,     \* how many people outside its team voted for it
          undoVotes, \* and how many voted for undoing it
          current    \* the change that is in force
vars == <<stage, votes, undoVotes, current>>

Init ==
  /\ stage = [x \in Change |-> "none"]
  /\ votes = [x \in Change |-> 0]
  /\ undoVotes = [x \in Change |-> 0]
  /\ current = NoChange

Found(x) ==
  /\ current = NoChange
  /\ stage[x] = "none"
  /\ current' = x
  /\ stage' = [stage EXCEPT ![x] = "applied"]
  /\ UNCHANGED <<votes, undoVotes>>

Propose(x) ==
  /\ stage[x] = "none"
  /\ current # NoChange /\ current = below[x]
  /\ stage' = [stage EXCEPT ![x] = "proposed"]
  /\ UNCHANGED <<votes, undoVotes, current>>

Vote(x) ==
  /\ stage[x] = "proposed"
  /\ votes' = [votes EXCEPT ![x] = @ + 1]
  /\ UNCHANGED <<stage, undoVotes, current>>

Approve(x) ==
  /\ stage[x] = "proposed"
  /\ votes[x] >= 2
  /\ stage' = [stage EXCEPT ![x] = "approved"]
  /\ UNCHANGED <<votes, undoVotes, current>>

Apply(x) ==
  /\ stage[x] = "approved"
  /\ current = below[x]
  /\ current' = x
  /\ stage' = [stage EXCEPT ![x] = "applied"]
  /\ UNCHANGED <<votes, undoVotes>>

VoteToUndo(x) ==
  /\ stage[x] = "applied"
  /\ undoVotes' = [undoVotes EXCEPT ![x] = @ + 1]
  /\ UNCHANGED <<stage, votes, current>>

Undo(x) ==
  /\ current = x /\ stage[x] = "applied"
  /\ below[x] # NoChange
  /\ UndoNeedsVotes => undoVotes[x] >= 2
  /\ current' = below[x]
  /\ stage' = [stage EXCEPT ![x] = "undone"]
  /\ UNCHANGED <<votes, undoVotes>>

Next ==
  \E x \in Change :
    \/ Found(x) \/ Propose(x) \/ Vote(x) \/ Approve(x) \/ Apply(x)
    \/ VoteToUndo(x) \/ Undo(x)

Spec == Init /\ [][Next]_vars
=============================================================================
