------------------------------ MODULE MCMlDsa ------------------------------
(* Two parameter sets, one with fewer hints allowed than rows.  Contexts may be
   one byte long; context <<1>> with message <<0>> and the empty context with
   message <<1, 0>> concatenate to the same bytes. *)
EXTENDS MlDsa

MCParameterSets == {[name |-> "small", k |-> 2, l |-> 2, omega |-> 1],
                    [name |-> "large", k |-> 2, l |-> 3, omega |-> 3]}
MCMessages == {<<0>>, <<1, 0>>}
MCContexts == {<<>>, <<1>>, <<1, 1>>}
=============================================================================
