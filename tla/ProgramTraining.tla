--------------------------- MODULE ProgramTraining --------------------------
(***************************************************************************)
(* How the local training of a policy is bound to a generation of the      *)
(* evolution program, in two ways.                                         *)
(*   src/evoagent/local_rl/program_binding*.py: a ticket is written on a   *)
(*   running generation and its approvals, the package is trained under it *)
(*   and a receipt of completion binds both.                               *)
(*   src/evoagent/program_rl/: a running generation is attested, an intent *)
(*   is written and authorized, the result of the package bound to it, and *)
(*   the evidence then passed from hand to hand, each of which verifies    *)
(*   all that came before, until it is accepted against trusted anchors.   *)
(*                                                                         *)
(* What counts is who makes each document and which time it states.  Times *)
(* are stated by the maker; a document needs those whose hashes it holds.  *)
(* Hashes, budgets and scores are compared field by field and left out.    *)
(***************************************************************************)
EXTENDS Integers, FiniteSets, FiniteSetsExt

CONSTANTS
  Person,
  Reviewers,   \* producer, ingestor, attributor, planner and evaluator of the generation
  Governors,   \* who approved, authorized and started it
  Origins,     \* producer, attributor and planner
  PlanApprovers,   \* those of the governors who approved it
  Time, Started  \* when the generation started

Roles == {"attestor", "author", "authorizer", "registrar", "trainer", "specAuthor",
          "reviewer", "verifier", "executor", "binder", "runtimeAcceptor",
          "acceptor", "anchorer", "receiver", "ticketer", "completer"}

BindingAssumption ==
  /\ Reviewers \cup Governors \subseteq Person /\ Reviewers \cap Governors = {}
  /\ Origins \subseteq Reviewers /\ PlanApprovers \subseteq Governors
  /\ Time \subseteq Nat /\ Started \in Time

VARIABLES generation,  \* "running" or "over"
          governed,    \* the actors that the intent names
          doc          \* who made what is there of each role, and at which time
vars == <<generation, governed, doc>>

Init ==
  /\ generation = "running"
  /\ governed = {} /\ doc = <<>>

Made(r) == r \in DOMAIN doc
By(r) == doc[r].by
At(r) == doc[r].at
Hands(rs) == {By(r) : r \in rs}

With(r, by, at, docs) ==
  [q \in DOMAIN docs \cup {r} |-> IF q = r THEN [by |-> by, at |-> at] ELSE docs[q]]
Write(r, by, at) ==
  /\ ~Made(r)
  /\ doc' = With(r, by, at, doc)

(* The controller ends the generation whatever is trained under it.         *)
EndGeneration ==
  /\ generation = "running"
  /\ generation' = "over"
  /\ UNCHANGED <<governed, doc>>

(* The package of LocalTraining, of which anybody may be the registrar and  *)
(* the trainer (who stands for the evaluator and the selector, too); its    *)
(* audit events state a time.                                               *)
TrainLocally(by, at) ==
  /\ ~Made("trainer")
  /\ \E trainer \in Person \ {by} :
       doc' = With("trainer", trainer, at, With("registrar", by, at, doc))
  /\ UNCHANGED <<generation, governed>>

-----------------------------------------------------------------------------
(* By ticket                                                                *)

(* The ingestor, the evaluator and whoever authorized or started the        *)
(* generation without approving it may train.                               *)
Privileged == Origins \cup PlanApprovers

(* A ticket is written on the records of a running generation, which the    *)
(* caller hands over; whether it still runs is not looked at.               *)
WriteTicket(by, at) ==
  /\ by \notin Privileged
  /\ at >= Started
  /\ Write("ticketer", by, at)
  /\ UNCHANGED <<generation, governed>>

LocalHandsAreFree == By("trainer") \notin Privileged \cup {By("ticketer")}
CompleteTicket(by, at) ==
  /\ Made("ticketer") /\ Made("trainer")
  /\ By("registrar") = By("ticketer") /\ LocalHandsAreFree
  /\ At("registrar") >= At("ticketer") /\ at >= At("trainer")
  /\ by \notin Privileged \cup Hands({"ticketer", "trainer"})
  /\ Write("completer", by, at)
  /\ UNCHANGED <<generation, governed>>

-----------------------------------------------------------------------------
(* By intent                                                                *)

(* The registry shows the generation running, at the external anchors.      *)
Attest(by, at) ==
  /\ generation = "running"
  /\ by \notin Reviewers \cup Governors
  /\ at >= Started
  /\ Write("attestor", by, at)
  /\ UNCHANGED <<generation, governed>>

(* An intent is built from the attestation, and then names all the actors   *)
(* that it attests, or from the records of the program, and then names      *)
(* those that its author hands over; what binds it to the attestation looks *)
(* for the attestor alone.                                                  *)
Nameable == {g \in SUBSET (Reviewers \cup Governors) : Origins \subseteq g}
WriteIntent(by, at) ==
  /\ Made("attestor") /\ at >= At("attestor") /\ by # By("attestor")
  /\ Write("author", by, at)
  /\ \E named \in Nameable :
       by \notin named /\ governed' = named \cup {By("attestor")}
  /\ UNCHANGED generation

Authorize(by, at) ==
  /\ Made("author")
  /\ by \notin governed \cup Hands({"author"})
  /\ at >= At("author")
  /\ Write("authorizer", by, at)
  /\ UNCHANGED <<generation, governed>>

(* What is executed is stated with the times of its start, after the        *)
(* authorization, and its end, which counts here; that the package was      *)
(* trained by the executor, and then, is not asked.                         *)
BindResult(by, at) ==
  /\ Made("authorizer") /\ Made("trainer")
  /\ by \notin governed \cup Hands({"author", "authorizer"})
  /\ at >= At("authorizer")
  /\ Write("executor", by, at)
  /\ UNCHANGED <<generation, governed>>

(* The specification of the projection and the contract of the classes,     *)
(* made by whomever and checked later.                                      *)
WriteSpec(by, at) ==
  /\ Write("specAuthor", by, at)
  /\ UNCHANGED <<generation, governed>>
ReviewContract(by, at) ==
  /\ Made("specAuthor")
  /\ Write("reviewer", by, at)
  /\ UNCHANGED <<generation, governed>>

(* The runtime attestor verifies the package by its manager and projects    *)
(* it; who verifies is compared with the makers of the package by the       *)
(* attestor of native packages only, which the later stages do not require. *)
VerifyPackage(by, at) ==
  /\ Made("trainer") /\ Made("reviewer")
  /\ Write("verifier", by, at)
  /\ UNCHANGED <<generation, governed>>

Makers == governed \cup Hands({"author", "authorizer", "executor", "verifier"})

BindAttested(by, at) ==
  /\ Made("executor") /\ Made("verifier")
  /\ At("verifier") >= At("executor") /\ at >= At("verifier")
  /\ by \notin Makers
  /\ Write("binder", by, at)
  /\ UNCHANGED <<generation, governed>>

(* What is a file by now is verified from the beginning by those who accept *)
(* it: the intent, the authorization and the result, what binds them to the *)
(* running generation and to the native package, and who specified and      *)
(* reviewed the projection of that.                                         *)
ResultIsBound ==
  /\ By("author") \notin governed
  /\ By("authorizer") \notin governed \cup Hands({"author"})
  /\ At("authorizer") >= At("author")
  /\ By("executor") \notin governed \cup Hands({"author", "authorizer"})
  /\ At("executor") >= At("authorizer")
IntentIsBound == By("attestor") \in governed /\ At("author") >= At("attestor")
AttestedIsBound == By("binder") \notin Makers /\ At("binder") >= At("verifier")
SpecIsIndependent ==
  /\ By("specAuthor") \notin Makers \cup Hands({"binder"})
  /\ At("specAuthor") <= At("verifier")
ReviewerIsIndependent_OfMakers ==
  /\ By("reviewer") \notin Makers
  /\ At("reviewer") <= At("verifier")
ReviewerIsIndependent ==
  /\ By("reviewer") \notin Makers \cup Hands({"binder", "specAuthor"})
  /\ At("reviewer") <= At("verifier")
RuntimeIsBound == ResultIsBound /\ AttestedIsBound /\ SpecIsIndependent /\ ReviewerIsIndependent

AcceptRuntime(by, at) ==
  /\ Made("binder") /\ RuntimeIsBound
  /\ by \notin Makers \cup Hands({"binder", "specAuthor", "reviewer"})
  /\ at >= At("binder")
  /\ Write("runtimeAcceptor", by, at)
  /\ UNCHANGED <<generation, governed>>

AcceptPackage(by, at) ==
  /\ Made("runtimeAcceptor") /\ IntentIsBound /\ RuntimeIsBound
  /\ by \notin Makers \cup Hands({"binder", "specAuthor", "reviewer", "runtimeAcceptor"})
  /\ at >= At("runtimeAcceptor")
  /\ Write("acceptor", by, at)
  /\ UNCHANGED <<generation, governed>>

(* The anchors are written down apart from the package.                     *)
Anchor(by, at) ==
  /\ Made("attestor") /\ Made("reviewer") /\ Made("trainer")
  /\ Write("anchorer", by, at)
  /\ UNCHANGED <<generation, governed>>

Accept(by, at) ==
  /\ Made("acceptor") /\ Made("anchorer")
  /\ by \notin Makers \cup Hands({"binder", "specAuthor", "reviewer",
                                  "runtimeAcceptor", "acceptor", "anchorer"})
  /\ at >= Max({At("acceptor"), At("anchorer")})
  /\ Write("receiver", by, at)
  /\ UNCHANGED <<generation, governed>>

Next ==
  \/ EndGeneration
  \/ \E by \in Person, at \in Time :
       \/ TrainLocally(by, at) \/ WriteTicket(by, at) \/ CompleteTicket(by, at)
       \/ Attest(by, at) \/ WriteIntent(by, at) \/ Authorize(by, at) \/ BindResult(by, at)
       \/ WriteSpec(by, at) \/ ReviewContract(by, at) \/ VerifyPackage(by, at)
       \/ BindAttested(by, at) \/ AcceptRuntime(by, at) \/ AcceptPackage(by, at)
       \/ Anchor(by, at) \/ Accept(by, at)

Spec == Init /\ [][Next]_vars

-----------------------------------------------------------------------------
(* Properties *)

(* Who may be the same person in accepted evidence: the verifier and those  *)
(* whose work is verified, the anchorer and whoever is not the receiver,    *)
(* and those who trained and everybody.                                     *)
Chain == {"attestor", "author", "authorizer", "executor", "verifier", "binder",
          "specAuthor", "reviewer", "runtimeAcceptor", "acceptor", "receiver"}
Apart(r, q) ==
  /\ r # q
  /\ ~({r, q} \subseteq {"verifier", "attestor", "author", "authorizer", "executor"}
         /\ "verifier" \in {r, q})

Before == {<<"attestor", "author">>, <<"author", "authorizer">>, <<"authorizer", "executor">>,
           <<"executor", "verifier">>, <<"specAuthor", "verifier">>, <<"reviewer", "verifier">>,
           <<"verifier", "binder">>, <<"binder", "runtimeAcceptor">>,
           <<"runtimeAcceptor", "acceptor">>, <<"acceptor", "receiver">>,
           <<"anchorer", "receiver">>}

(* docs/24: evidence that is accepted has gone through eleven hands, none   *)
(* of them twice and none of those the program was planned by, at times     *)
(* that agree with what each had before it; and training under a ticket was *)
(* registered by who wrote the ticket, not before, and done by others than  *)
(* those who judged the program, whoever else took part where.              *)
TrainingIsGoverned ==
  /\ Made("receiver") =>
       /\ \A r, q \in Chain : Apart(r, q) => By(r) # By(q)
       /\ Origins \cap Hands(Chain \ {"verifier"}) = {}
       /\ By("anchorer") # By("receiver")
       /\ \A b \in Before : At(b[1]) <= At(b[2])
       /\ At("attestor") >= Started
  /\ Made("completer") =>
       /\ By("registrar") = By("ticketer") /\ At("registrar") >= At("ticketer")
       /\ Hands({"ticketer", "trainer", "completer"}) \cap (Origins \cup PlanApprovers) = {}
       /\ Cardinality(Hands({"ticketer", "trainer", "completer"})) = 3
       /\ At("ticketer") >= Started /\ At("completer") >= At("trainer")

(* docs/24:245: a completed package must never be converted retroactively   *)
(* into a pre-execution intent.  The times of a result are stated by who    *)
(* binds it, and those of the package are compared with none of them.       *)
TrainingFollowsIntent == Made("receiver") => At("trainer") >= At("author")
=============================================================================
