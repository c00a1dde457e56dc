---------------------------- MODULE Coefficients ----------------------------
(***************************************************************************)
(* encoding.hpp and dsa_helpers.hpp: a behaviour is a pair of calls of the *)
(* byte codec, a coefficient's way through compression, or a coefficient's *)
(* hint, made and used.                                                    *)
(***************************************************************************)
EXTENDS Field, Sequences

CONSTANTS
  ByteBits, Length, MaxWidth, CodecQ, Arrays(_), Strings(_), CalledWidths,  \* the codec
  CodeWidths,                                                               \* compression
  RoundingSets, RoundingSamples(_)                                          \* hints

VARIABLES
  what,                                                   \* "codec", "compression" or "rounding"
  b_pc, b_first, argument, b_width, array, bytes, index,    \* ByteEncode, ByteDecode
  stage, width, value, code, received, recoded,           \* Compress, Decompress
  selected, r, z, hint, recovered, phase                  \* MakeHint, UseHint

codecVars == <<b_pc, b_first, argument, b_width, array, bytes, index>>
compressionVars == <<stage, width, value, code, received, recoded>>
roundingVars == <<selected, r, z, hint, recovered, phase>>

Codec == INSTANCE ByteCodec WITH
  Coefficients <- Length, Q <- CodecQ, pc <- b_pc, first <- b_first, width <- b_width

Coefficient == INSTANCE Compression WITH Widths <- CodeWidths

Rounding == INSTANCE MlDsaRounding WITH
  ParameterSets <- RoundingSets, Samples <- RoundingSamples, pc <- phase

(* Not called. *)
CodecIdle ==
  /\ b_pc = "idle" /\ b_first = "idle" /\ argument = <<>> /\ b_width = 0 /\ array = <<>>
  /\ bytes = <<>> /\ index = 0
CompressionIdle ==
  /\ stage = "idle" /\ width = 0 /\ value = 0 /\ code = 0 /\ received = 0 /\ recoded = 0
RoundingIdle ==
  /\ selected = CHOOSE p \in RoundingSets : TRUE
  /\ r = 0 /\ z = 0 /\ hint = FALSE /\ recovered = 0 /\ phase = "idle"

CoefficientsInit ==
  \/ what = "codec" /\ Codec!Init /\ CompressionIdle /\ RoundingIdle
  \/ what = "compression" /\ CodecIdle /\ Coefficient!Init /\ RoundingIdle
  \/ what = "rounding" /\ CodecIdle /\ CompressionIdle /\ Rounding!Init

CoefficientsNext ==
  \/ what = "codec" /\ Codec!Next /\ UNCHANGED <<what, compressionVars, roundingVars>>
  \/ what = "compression" /\ Coefficient!Next /\ UNCHANGED <<what, codecVars, roundingVars>>
  \/ what = "rounding" /\ Rounding!Next /\ UNCHANGED <<what, codecVars, compressionVars>>

CoefficientsSpec ==
  CoefficientsInit /\ [][CoefficientsNext]_<<what, codecVars, compressionVars, roundingVars>>

(* Whatever ByteEncode accepts, ByteDecode gives back. *)
ArraysRoundTrip == Codec!ArraysRoundTrip

(* ByteDecode's results encode again, to the string they were decoded from
   exactly if no field of it is q or more. *)
OnlyCanonicalStringsRoundTrip == Codec!OnlyCanonicalStringsRoundTrip

(* Compression's error stays within the rounding bound, around the circle. *)
SmallError == Coefficient!SmallError

(* Codes survive decompression, tolerated noise and compression. *)
CodesSurvive == Coefficient!CodesSurvive

(* The verifier recovers the high bits of r + z from r and the hint. *)
HintRecovers == Rounding!HintRecovers

(* Both splittings of a coefficient put it together again, within bounds. *)
Recomposes == Rounding!Recomposes

(* Changes within the room the low part has left need no hint. *)
SmallChangesKeepHighBits == Rounding!SmallChangesKeepHighBits
=============================================================================
