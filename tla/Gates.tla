------------------------------- MODULE Gates -------------------------------
(***************************************************************************)
(* CI's two kinds of gates: a behaviour is a commit of the vector checkout *)
(* with its two jobs, or one of the side-channel review manifest with its  *)
(* two modes.                                                              *)
(***************************************************************************)
EXTENDS VectorCi

CONSTANTS ReviewModules, FirstReviews, MaxReviewEdits   \* of the side-channel gate

VARIABLES component, review_manifest, review_edits, review_gate, review_position, known, blockers

reviewVars == <<review_manifest, review_edits, review_gate, review_position, known, blockers>>
gatesVars  == <<component, vars, reviewVars>>

SideChannel == INSTANCE SideChannelGate WITH
  RequiredModules <- ReviewModules, InitialManifest <- FirstReviews, MaxEdits <- MaxReviewEdits,
  manifest <- review_manifest, edits <- review_edits, gate <- review_gate,
  position <- review_position

GatesInit == component \in {"vectors", "side channel"} /\ Init /\ SideChannel!Init

StepVectors(A) == component = "vectors" /\ A /\ UNCHANGED <<component, reviewVars>>

GatesNext ==
  \/ StepVectors(Next)
  \/ component = "side channel" /\ SideChannel!Next /\ UNCHANGED <<component, vars>>

GatesSpec == GatesInit /\ [][GatesNext]_gatesVars

(* A review manifest that passes tracks the two reviews production waits for. *)
ReviewsStayTracked == SideChannel!ReviewsStayTracked
=============================================================================
