----------------------------- MODULE Selection -----------------------------
(***************************************************************************)
(* What the last step of decapsulation promises, free of how it is coded:  *)
(* the candidate secret when the re-encrypted ciphertext equals the        *)
(* received one, the fallback secret otherwise; strings of different       *)
(* lengths are refused.                                                    *)
(***************************************************************************)
EXTENDS Sequences

CONSTANTS Strings, Secrets

VARIABLES lhs, rhs, candidate, fallback,   \* the arguments
          outcome                          \* "running", "refused" or "selected", with the secret

vars == <<lhs, rhs, candidate, fallback, outcome>>

Init ==
  /\ lhs \in Strings /\ rhs \in Strings /\ candidate \in Secrets /\ fallback \in Secrets
  /\ outcome = <<"running">>

Return ==
  /\ outcome = <<"running">>
  /\ outcome' = IF Len(lhs) # Len(rhs) THEN <<"refused">>
                ELSE <<"selected", IF lhs = rhs THEN candidate ELSE fallback>>
  /\ UNCHANGED <<lhs, rhs, candidate, fallback>>

Spec == Init /\ [][Return]_vars
=============================================================================
