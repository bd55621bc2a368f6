---------------------------- MODULE LengthValue ----------------------------
(***************************************************************************)
(* The length-value encoding under every wire message and every hash input *)
(* (length_value.go).  A byte is a number below 2 * Radix, its upper half  *)
(* being the LEB128 continuation bit: the code has Radix = 128, a model a  *)
(* smaller one, so that short strings have prefixes of several bytes.      *)
(***************************************************************************)
EXTENDS Naturals, Sequences, SequencesExt

CONSTANT Radix      \* values of one LEB128 digit

ASSUME RadixAtLeastTwo == Radix \in Nat /\ Radix >= 2

Byte == 0 .. 2 * Radix - 1

-----------------------------------------------------------------------------
\* appendLEB128: the low digit first, every byte but the last continued.
leb128[n \in Nat] ==
  IF n < Radix THEN <<n>> ELSE <<(n % Radix) + Radix>> \o leb128[n \div Radix]

\* leb128LenInt, which counts the digits without writing them.
leb128Len[n \in Nat] == IF n < Radix THEN 1 ELSE 1 + leb128Len[n \div Radix]
lengthValueLen(n) == leb128Len[n] + n

\* appendLengthValue, on an empty destination.
lengthValue(data) == leb128[Len(data)] \o data

\* Slip: the fields are joined without their lengths.
lvCatWithoutLengths(fields) == FlattenSeq(fields)

\* The loop over the fields.
lvCat(fields) ==
  LET upTo[f \in 0 .. Len(fields)] ==
        IF f = 0 THEN <<>> ELSE upTo[f - 1] \o lengthValue(fields[f])
  IN  upTo[Len(fields)]
=============================================================================
