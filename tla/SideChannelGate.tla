-------------------------- MODULE SideChannelGate --------------------------
(***************************************************************************)
(* The side-channel review gate, scripts/check-side-channel-manifest.py,   *)
(* over the review manifest that people edit as reviews go on: the plain   *)
(* run of CI and the strict run with --require-complete, on one commit.    *)
(* Each walks through the manifest in order and stops at the first error.  *)
(***************************************************************************)
EXTENDS Integers, Sequences, FiniteSets

CONSTANTS
  RequiredModules,   \* REQUIRED_MODULE_IDS
  InitialManifest,   \* the manifest as first committed
  MaxEdits           \* bound on the edits before a commit

(* What the constants have to be. *)
ConstantsAssumption ==
  /\ {"findings"} \subseteq DOMAIN InitialManifest
  /\ InitialManifest.findings \in
       Seq({InitialManifest.findings[i] : i \in DOMAIN InitialManifest.findings})

Modes   == {"plain", "strict"}
Reviews == {"decapsulation_failure", "signing_rejection"}   \* required_reviews

VARIABLES
  manifest,   \* [complete, production, modules, findings, reviews]
  edits,      \* edits made so far
  gate,       \* per mode: "idle", "findings", "reviews", "passed" or "failed"
  position,   \* per mode: findings or reviews looked at
  known,      \* per mode: finding_ids, the ids met so far
  blockers    \* per mode: production_blockers

gateVars == <<gate, position, known, blockers>>
vars == <<manifest, edits, gateVars>>

ReviewOrder == <<"decapsulation_failure", "signing_rejection">>
Findings == {manifest.findings[i] : i \in DOMAIN manifest.findings}

-----------------------------------------------------------------------------
Init ==
  /\ manifest = InitialManifest /\ edits = 0
  /\ gate = [m \in Modes |-> "idle"] /\ position = [m \in Modes |-> 0]
  /\ known = [m \in Modes |-> {}] /\ blockers = [m \in Modes |-> 0]

(* Reviewers' edits; the gate's jobs run on what is committed then. *)
Edited(new) ==
  /\ edits < MaxEdits /\ \A m \in Modes : gate[m] = "idle"
  /\ manifest' = new /\ edits' = edits + 1 /\ UNCHANGED gateVars

SetComplete(b)   == Edited([manifest EXCEPT !.complete = b])
SetProduction(b) == Edited([manifest EXCEPT !.production = b])
CloseFinding(i, blocker) ==
  LET closed == [manifest.findings[i] EXCEPT !.status = "closed", !.blocker = blocker]
  IN  Edited([manifest EXCEPT !.findings = [@ EXCEPT ![i] = closed]])
RemoveModule(id) == Edited([manifest EXCEPT !.modules = @ \ {id}])
RemoveFinding(i) ==
  Len(manifest.findings) > 1 /\
  Edited([manifest EXCEPT !.findings = [j \in 1 .. Len(@) - 1 |-> IF j < i THEN @[j] ELSE @[j + 1]]])
PointReview(r, id) == Edited([manifest EXCEPT !.reviews[r].finding = id])

Edit ==
  \/ \E b \in BOOLEAN : SetComplete(b) \/ SetProduction(b)
  \/ \E i \in DOMAIN manifest.findings, b \in BOOLEAN : CloseFinding(i, b)
  \/ \E id \in manifest.modules : RemoveModule(id)
  \/ \E i \in DOMAIN manifest.findings : RemoveFinding(i)
  \/ \E r \in Reviews, f \in Findings : PointReview(r, f.id)

-----------------------------------------------------------------------------
(* Status and modules: everything before the loop over the findings. *)
CheckHead(m) ==
  /\ gate[m] = "idle"
  /\ gate' = [gate EXCEPT ![m] =
       IF /\ manifest.production => manifest.complete
          /\ RequiredModules \subseteq manifest.modules
       THEN "findings" ELSE "failed"]
  /\ UNCHANGED <<manifest, edits, position, known, blockers>>

Acceptable(finding) ==
  /\ finding.module \in manifest.modules
  /\ finding.status = "closed" => manifest.complete

CheckFinding(m) ==
  /\ gate[m] = "findings" /\ position[m] < Len(manifest.findings)
  /\ LET finding == manifest.findings[position[m] + 1] IN
     IF Acceptable(finding)
     THEN /\ position' = [position EXCEPT ![m] = @ + 1]
          /\ known' = [known EXCEPT ![m] = @ \cup {finding.id}]
          /\ blockers' = [blockers EXCEPT ![m] = @ + (IF finding.blocker THEN 1 ELSE 0)]
          /\ UNCHANGED gate
     ELSE gate' = [gate EXCEPT ![m] = "failed"] /\ UNCHANGED <<position, known, blockers>>
  /\ UNCHANGED <<manifest, edits>>

CheckBlockers(m) ==
  /\ gate[m] = "findings" /\ position[m] = Len(manifest.findings)
  /\ gate' = [gate EXCEPT ![m] = IF blockers[m] = 0 THEN "failed" ELSE "reviews"]
  /\ position' = [position EXCEPT ![m] = 0]
  /\ UNCHANGED <<manifest, edits, known, blockers>>

ReviewHoldsModuleOnly(m, review) == review.module \in manifest.modules /\ review.blocker

(* validate_required_review. *)
ReviewHolds(m, review) ==
  review.module \in manifest.modules /\ review.finding \in known[m] /\ review.blocker

CheckReview(m) ==
  /\ gate[m] = "reviews" /\ position[m] < Len(ReviewOrder)
  /\ IF ReviewHolds(m, manifest.reviews[ReviewOrder[position[m] + 1]])
     THEN position' = [position EXCEPT ![m] = @ + 1] /\ UNCHANGED gate
     ELSE gate' = [gate EXCEPT ![m] = "failed"] /\ UNCHANGED position
  /\ UNCHANGED <<manifest, edits, known, blockers>>

Verdict(m) ==
  /\ gate[m] = "reviews" /\ position[m] = Len(ReviewOrder)
  /\ gate' = [gate EXCEPT ![m] =
       IF m = "strict" /\ ~manifest.complete THEN "failed" ELSE "passed"]
  /\ UNCHANGED <<manifest, edits, position, known, blockers>>

Step(m) == CheckHead(m) \/ CheckFinding(m) \/ CheckBlockers(m) \/ CheckReview(m) \/ Verdict(m)

Next == Edit \/ \E m \in Modes : Step(m)

Spec == Init /\ [][Next]_vars

-----------------------------------------------------------------------------

(* A manifest that passes tracks the two reviews production waits for: each
   stands under a finding of the manifest, whatever findings came and went. *)
ReviewsStayTracked ==
  \A m \in Modes : gate[m] = "passed" =>
    \A r \in Reviews : \E f \in Findings : f.id = manifest.reviews[r].finding
=============================================================================
