-------------------------- MODULE RejectionSampler --------------------------
(***************************************************************************)
(* What a rejection sampler promises, whatever bytes its candidates come   *)
(* from: it examines the candidates once each and in order, keeps the      *)
(* acceptable ones until it has Needed of them, and gives up only when     *)
(* every candidate of the stream has been examined.  Candidates that come  *)
(* after the polynomial is full are ignored.                               *)
(***************************************************************************)
EXTENDS Integers, Sequences

CONSTANT Needed   \* how many values the polynomial holds

VARIABLES
  candidates,   \* the candidates the stream holds: records [ok, value]
  taken,        \* how many of them were examined
  output,       \* the values kept
  status        \* "sampling", "full" or "short"

samplerVars == <<candidates, taken, output, status>>

Init == taken = 0 /\ output = <<>> /\ status = "sampling"

Take ==
  /\ status = "sampling" /\ taken < Len(candidates)
  /\ LET next == candidates[taken + 1] IN
       output' = IF next.ok THEN Append(output, next.value) ELSE output
  /\ taken' = taken + 1
  /\ status' = IF Len(output') = Needed THEN "full" ELSE "sampling"
  /\ UNCHANGED candidates

GiveUp ==
  /\ status = "sampling" /\ taken = Len(candidates)
  /\ status' = "short"
  /\ UNCHANGED <<candidates, taken, output>>

Ignore ==
  /\ status = "full" /\ taken < Len(candidates)
  /\ taken' = taken + 1
  /\ UNCHANGED <<candidates, output, status>>

Next == Take \/ GiveUp \/ Ignore

Spec == Init /\ [][Next]_samplerVars
=============================================================================
