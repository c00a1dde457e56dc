----------------------------- MODULE ByteStrings -----------------------------
(***************************************************************************)
(* Byte strings as the code lays them out: sequences of parts, each with   *)
(* what it holds, whose it is and its size in bytes.  Cutting one at other *)
(* places than between its parts gives bytes of no meaning.                *)
(***************************************************************************)
EXTENDS Integers, Sequences

Part(what, of, size) == [what |-> what, of |-> of, size |-> size]

(* Where each part ends. *)
Ends(s) ==
  LET end[i \in 0 .. Len(s)] == IF i = 0 THEN 0 ELSE end[i - 1] + s[i].size IN end

Size(s) == Ends(s)[Len(s)]

Cuts(s, at) == {i \in 0 .. Len(s) : Ends(s)[i] = at}

Refused == <<Part("refused", "none", 0)>>
Garbled == <<Part("garbled", "none", 0)>>

(* byte_slice and ml_dsa_byte_slice. *)
Slice(s, offset, length) ==
  IF offset + length > Size(s) THEN Refused
  ELSE IF Cuts(s, offset) = {} \/ Cuts(s, offset + length) = {} THEN Garbled
  ELSE LET from == CHOOSE i \in Cuts(s, offset) : TRUE
           to   == CHOOSE i \in Cuts(s, offset + length) : TRUE
       IN  SubSeq(s, from + 1, to)

(* The parts of s that hold one of the given things lie side by side, and make up slice. *)
IsAllOf(slice, s, things) ==
  \E from, to \in DOMAIN s :
    /\ {i \in DOMAIN s : s[i].what \in things} = from .. to
    /\ slice = SubSeq(s, from, to)
=============================================================================
