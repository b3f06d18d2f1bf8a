-------------------------------- MODULE MuLaw --------------------------------
(***************************************************************************)
(* codec/mu_law.cr: one sample on its way through encode_sample and        *)
(* decode_sample, in the integer widths of the code, against a definition  *)
(* of the segments that uses neither the table nor bits.                   *)
(***************************************************************************)
EXTENDS Integers, Sequences

CONSTANTS Samples  \* the samples that are encoded

Int16 == -32768 .. 32767

ASSUME SamplesAssumption == Samples \subseteq Int16

VARIABLES
  sample,   \* pcm[a]
  encoded,  \* encoded[a], once encoded
  decoded   \* what decode makes of it, once decoded

vars == <<sample, encoded, decoded>>

None == 65536  \* outside every type

-----------------------------------------------------------------------------

CBIAS == 132
CCLIP == 32635
EXP_LUT == <<0, 132, 396, 924, 1980, 4092, 8316, 16764>>

\* The exponent of the eight bits above the lowest seven.
TABLE(i) == CHOOSE e \in 0..7 : (e = 0 \/ 2^e <= i) /\ i < 2^(e + 1)

\* -sample in 16 bits: -32768 stays what it is.
Negated(s) == IF s = -32768 THEN s ELSE -s

\* Mutant of Clipped: the bias is added to a sample that was not clipped.
ClippedNot(magnitude) == magnitude

Clipped(magnitude) == IF magnitude > CCLIP THEN CCLIP ELSE magnitude

\* encode_sample: sign, exponent and mantissa, all bits inverted.  \div and %
\* are the arithmetic shift and the mask, of a negative number too.
encode_sample(s) ==
  LET sign == IF s < 0 THEN 1 ELSE 0
      biased == Clipped(IF s < 0 THEN Negated(s) ELSE s) + CBIAS
      exponent == TABLE((biased \div 2^7) % 256)
      mantissa == (biased \div 2^(exponent + 3)) % 16
  IN  255 - (128 * sign + 16 * exponent + mantissa)

\* << on a UInt8
Shl(x, n) == (x * 2^n) % 256

\* Mutant of decode_sample: the mantissa is shifted by the exponent alone.
decode_sampleShort(byte) ==
  LET b == 255 - byte
      s == EXP_LUT[((b \div 16) % 8) + 1] + Shl(b % 16, (b \div 16) % 8)
  IN  IF b >= 128 THEN -s ELSE s

\* decode_sample.  The mantissa is shifted as a UInt8.
decode_sample(byte) ==
  LET b == 255 - byte
      exponent == (b \div 16) % 8
      mantissa == b % 16
      s == EXP_LUT[exponent + 1] + Shl(mantissa, exponent + 3)
  IN  IF b >= 128 THEN -s ELSE s

-----------------------------------------------------------------------------

\* encode and decode, which go from sample to sample
encode ==
  /\ encoded = None
  /\ encoded' = encode_sample(sample)
  /\ UNCHANGED <<sample, decoded>>

decode ==
  /\ encoded # None
  /\ decoded = None
  /\ decoded' = decode_sample(encoded)
  /\ UNCHANGED <<sample, encoded>>

Init == sample \in Samples /\ encoded = None /\ decoded = None

Next == encode \/ decode

Spec == Init /\ [][Next]_vars

-----------------------------------------------------------------------------
(* Properties *)

Abs(x) == IF x < 0 THEN -x ELSE x

\* The exponent of a byte
Exponent(byte) == ((255 - byte) \div 16) % 8

\* The magnitude that the standard gives a byte: the segments start at EXP_LUT
\* and have 16 steps of 8, 16, 32 and so on.
Level(byte) == EXP_LUT[Exponent(byte) + 1] + ((255 - byte) % 16) * 2^(Exponent(byte) + 3)

\* encode_sample gives every sample the byte of its sign and of the level that
\* it is at most half a step away from, after clipping: the table, the bias and
\* the clipping (mu_law.cr:111 to :116) agree with the standard's levels.  The
\* one sample for which this fails is -32768: its negation wraps (:110), so it
\* is not clipped, and the loudest sample gets the byte of silence, 0x7f.
EncodesToLevel ==
  encoded # None /\ sample # -32768 =>
    LET half == 2^(Exponent(encoded) + 2)
        magnitude == IF Abs(sample) > 32635 THEN 32635 ELSE Abs(sample)
    IN  /\ (encoded < 128) = (sample < 0)
        /\ magnitude \in (Level(encoded) - half) .. (Level(encoded) + half - 1)

\* decode_sample shifts the mantissa as a UInt8 (mu_law.cr:93), which loses its
\* upper bits from the third segment on.  Still the sign is right, the two
\* lowest segments are exact and in the others the magnitude stays in its
\* segment and is not above the standard's: decode(0x2e) is -4092, as
\* mu_law_spec.cr:20 has it.
DecodesInSegment ==
  decoded # None =>
    LET e == Exponent(encoded)
    IN  /\ decoded # 0 => (decoded < 0) = (sample < 0)
        /\ Abs(decoded) \in EXP_LUT[e + 1] .. Level(encoded)
        /\ e < 2 => Abs(decoded) = Level(encoded)
=============================================================================
