--------------------------- MODULE MessageReader ---------------------------
(***************************************************************************)
(* Decoding one wire message (framing.go): a messageReader works through   *)
(* its buffer, first the header, then for each field of the message's      *)
(* specification the LEB128 prefix byte by byte and the field, at last the *)
(* check that nothing follows.  Every refusal is ErrMessage.               *)
(*                                                                         *)
(* The code has three specifications (A, B and C), of fields whose length  *)
(* is capped or exact (caps.go); the model takes one as a parameter.       *)
(***************************************************************************)
EXTENDS LengthValue

CONSTANTS
  MaxPrefix,     \* maxLEB128BytesForField
  MaxMessage,    \* maxMessageLength
  Header,        \* format version, suite and role of the expected message
  MessageSpec,   \* the fields of the message: a sequence of [length, exact]
  Buffers        \* what a transport may hand to the decoder

ASSUME WireConstants ==
  /\ MaxPrefix \in Nat \ {0} /\ MaxMessage \in Nat
  /\ Header \in Seq(Byte) /\ Buffers \subseteq Seq(Byte)
  /\ MessageSpec \in Seq([length : Nat, exact : BOOLEAN]) /\ MessageSpec # <<>>

\* What a power is, as far as it is used here.
ASSUME PowersOfRadix ==
  Radix ^ 0 = 1 /\ \A d \in 0 .. MaxPrefix : Radix ^ d \in Nat /\ Radix ^ (d + 1) = Radix * Radix ^ d

\* The compile-time checks of framing.go: a prefix can state every length
\* within the caps, and the aggregate cap exceeds every valid message.
ASSUME PrefixCoversCaps ==
  \A f \in DOMAIN MessageSpec : MessageSpec[f].length < Radix ^ MaxPrefix

\* With every prefix and every field as long as they may be.
maxValidMessageLength ==
  LET upTo[f \in 0 .. Len(MessageSpec)] ==
        IF f = 0 THEN Len(Header) ELSE upTo[f - 1] + MaxPrefix + MessageSpec[f].length
  IN  upTo[Len(MessageSpec)]

ASSUME AggregateCapCoversFields == maxValidMessageLength < MaxMessage

VARIABLES
  buf,      \* the bytes to decode
  off,      \* how many of them have been consumed
  i,        \* how many bytes of the current length prefix have been read
  n,        \* the length they add up to
  fields,   \* the fields decoded so far
  phase     \* what comes next, or the verdict: "ok" or "ErrMessage"

vars == <<buf, off, i, n, fields, phase>>

-----------------------------------------------------------------------------
\* Slip: a capped field must stay below its cap.
ValidLengthBelowCap(field, length) ==
  IF field.exact THEN length = field.length ELSE length < field.length

\* validateMessageLength: an exact field has its length, a capped one at most.
ValidLength(field, length) ==
  IF field.exact THEN length = field.length ELSE length <= field.length

\* messageSpec.encode; it panics unless it is given one value per field.
encode(values) == Header \o lvCat(values)

\* The capacity encode reserves for values of these lengths.
capacity(lengths) ==
  LET upTo[f \in 0 .. Len(lengths)] ==
        IF f = 0 THEN Len(Header) ELSE upTo[f - 1] + lengthValueLen(lengths[f])
  IN  upTo[Len(lengths)]

-----------------------------------------------------------------------------
Init ==
  /\ buf \in Buffers
  /\ off = 0
  /\ i = 0
  /\ n = 0
  /\ fields = <<>>
  /\ phase = "header"

\* Every error return of the reader.
Refuse == phase' = "ErrMessage" /\ UNCHANGED <<buf, off, i, n, fields>>

\* newMessageReader.
ReadHeader ==
  /\ phase = "header"
  /\ \/ /\ ~IsPrefix(Header, buf) \/ Len(buf) > MaxMessage
        /\ Refuse
     \/ /\ IsPrefix(Header, buf)
        /\ Len(buf) <= MaxMessage
        /\ off' = Len(Header)
        /\ phase' = "prefix"
        /\ UNCHANGED <<buf, i, n, fields>>

\* Slip: prefixes with superfluous digits are read too.
ReadPrefixByteLenient ==
  /\ phase = "prefix"
  /\ \/ off = Len(buf) /\ Refuse
     \/ /\ off < Len(buf)
        /\ off' = off + 1
        /\ n' = n + (buf[off + 1] % Radix) * Radix ^ i
        /\ \/ /\ buf[off + 1] >= Radix
              /\ i' = i + 1
              /\ phase' = IF i + 1 < MaxPrefix THEN "prefix" ELSE "ErrMessage"
           \/ /\ buf[off + 1] < Radix
              /\ phase' = "value"
              /\ UNCHANGED i
        /\ UNCHANGED <<buf, fields>>

\* One turn of the loop in readLEB128.
ReadPrefixByte ==
  /\ phase = "prefix"
  /\ \/ off = Len(buf) /\ Refuse
     \/ /\ off < Len(buf)
        /\ LET b     == buf[off + 1]
               value == n + (b % Radix) * Radix ^ i
           IN  \/ /\ b >= Radix
                  /\ off' = off + 1
                  /\ i' = i + 1
                  /\ n' = value
                  /\ phase' = IF i + 1 < MaxPrefix THEN "prefix" ELSE "ErrMessage"
               \/ /\ b < Radix
                  /\ off' = off + 1
                  /\ n' = value
                  /\ phase' = IF i > 0 /\ value < Radix ^ i THEN "ErrMessage" ELSE "value"
                  /\ UNCHANGED i
        /\ UNCHANGED <<buf, fields>>

\* Slip: the room left in the buffer is not looked at.
ReadValueWithoutBound ==
  /\ phase = "value"
  /\ LET field == MessageSpec[Len(fields) + 1]
     IN  \/ ~ValidLength(field, n) /\ Refuse
         \/ /\ ValidLength(field, n)
            /\ fields' = Append(fields, [j \in 1 .. n |-> 0])
            /\ off' = off + n
            /\ i' = 0
            /\ n' = 0
            /\ phase' = IF Len(fields) + 1 < Len(MessageSpec) THEN "prefix" ELSE "done"
            /\ UNCHANGED buf

\* The rest of readField: the cap, the room left in the buffer, the copy.
ReadValue ==
  /\ phase = "value"
  /\ LET field == MessageSpec[Len(fields) + 1]
         fits  == ValidLength(field, n) /\ n <= Len(buf) - off
     IN  \/ ~fits /\ Refuse
         \/ /\ fits
            /\ fields' = Append(fields, SubSeq(buf, off + 1, off + n))
            /\ off' = off + n
            /\ i' = 0
            /\ n' = 0
            /\ phase' = IF Len(fields) + 1 < Len(MessageSpec) THEN "prefix" ELSE "done"
            /\ UNCHANGED buf

\* messageReader.done.
CheckTrailing ==
  /\ phase = "done"
  /\ phase' = IF off = Len(buf) THEN "ok" ELSE "ErrMessage"
  /\ UNCHANGED <<buf, off, i, n, fields>>

Next == ReadHeader \/ ReadPrefixByte \/ ReadValue \/ CheckTrailing

Spec == Init /\ [][Next]_vars

-----------------------------------------------------------------------------
\* Every variable holds a value of its kind.
TypeOK ==
  /\ buf \in Seq(Byte)
  /\ off \in Nat /\ i \in Nat /\ n \in Nat
  /\ fields \in Seq(Seq(Byte))
  /\ phase \in {"header", "prefix", "value", "done", "ok", "ErrMessage"}

\* The reader never indexes or slices past the buffer, which would panic, and
\* a length never takes more than MaxPrefix digits, so that it cannot overflow.
StaysInBounds ==
  /\ off <= Len(buf)
  /\ i <= MaxPrefix
  /\ n < Radix ^ MaxPrefix

\* Whatever is accepted is the encoding of the fields it was decoded into: a
\* message has one wire form, with shortest prefixes and nothing after it.  It
\* has exactly the length that encode computes beforehand as its capacity.
AcceptsOnlyEncodings ==
  phase = "ok" =>
    /\ buf = encode(fields)
    /\ Len(buf) = capacity([f \in DOMAIN fields |-> Len(fields[f])])

\* buf is what encode makes of values with these lengths: cut them out of it
\* and put them together again.
Cut(lengths) ==
  [f \in DOMAIN lengths |->
     LET end == capacity(SubSeq(lengths, 1, f)) IN SubSeq(buf, end - lengths[f] + 1, end)]

IsEncoding ==
  LET Lengths(field) == IF field.exact THEN {field.length} ELSE 0 .. field.length
      PerField == {Lengths(MessageSpec[f]) : f \in DOMAIN MessageSpec}
  IN  \E lengths \in [DOMAIN MessageSpec -> UNION PerField] :
        /\ \A f \in DOMAIN MessageSpec : lengths[f] \in Lengths(MessageSpec[f])
        /\ Len(buf) = capacity(lengths)
        /\ buf = encode(Cut(lengths))

\* Nothing that a peer's encode produces from values within the caps is ever
\* refused, by the aggregate cap, a field's cap or the length of its prefix.
AcceptsEveryEncoding == phase = "ErrMessage" => ~IsEncoding
=============================================================================
