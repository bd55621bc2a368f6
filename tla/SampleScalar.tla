---------------------------- MODULE SampleScalar ----------------------------
(***************************************************************************)
(* sampleScalar of crypto.go: the rejection loop that draws the secret     *)
(* scalar.  io.ReadFull fills the scratch buffer byte by byte, and the     *)
(* reader may fail after any of them; the draw is masked, read as a        *)
(* number, and taken unless it is not canonical or zero.  A byte is below  *)
(* Base (256 in the code), the buffer has Size of them (32), the mask      *)
(* leaves a last byte below MaskLimit (16), the group has Order elements   *)
(* (2^252 + 27742...), and the loop gives up after MaxTries (128).         *)
(***************************************************************************)
EXTENDS Naturals, Sequences, FiniteSets

CONSTANTS Base, Size, MaskLimit, Order, MaxTries

RandomBytes == 0..(Base - 1)
Draws == [1..Size -> RandomBytes]
Zeros == [j \in 1..Size |-> 0]

\* What the constants of the code satisfy.  The comment at crypto.go:64: masking
\* bounds the value below 2^252, L is above.
ASSUME ConstantsFit ==
  /\ Base \in Nat /\ Size \in Nat /\ MaskLimit \in Nat /\ Order \in Nat /\ MaxTries \in Nat
  /\ Base >= 1 /\ Size >= 1 /\ MaxTries >= 1
  /\ MaskLimit >= 1 /\ Base % MaskLimit = 0
  /\ MaskLimit * Base ^ (Size - 1) < Order /\ Order < Base ^ Size

\* What a power is, as far as it is used here.
ASSUME PowersOfBase ==
  Base ^ 0 = 1 /\ \A k \in 0..Size : Base ^ k \in Nat /\ Base ^ (k + 1) = Base * Base ^ k

VARIABLES
  scratch, \* the buffer b
  filled,  \* how many bytes of it the current ReadFull has read
  draws,   \* the buffers filled so far, before masking; one for each try
  pc,      \* "draw", or how the call ended: "scalar", "reader", "exhausted"
  scalar   \* what it returned, 0 for nil

sampling == <<scratch, filled, draws, pc, scalar>>

SampleInit ==
  /\ scratch = Zeros
  /\ filled = 0
  /\ draws = <<>>
  /\ pc = "draw"
  /\ scalar = 0

Drawing == pc = "draw" /\ filled < Size

ReadByte ==
  /\ Drawing
  /\ \E byte \in RandomBytes : scratch' = [scratch EXCEPT ![filled + 1] = byte]
  /\ filled' = filled + 1
  /\ UNCHANGED <<draws, pc, scalar>>

\* The deferred clear runs on every way out.
ReaderFails ==
  /\ Drawing
  /\ pc' = "reader"
  /\ scratch' = Zeros
  /\ UNCHANGED <<filled, draws, scalar>>

\* The number in the buffer, little endian: from the last byte down.
Value(d) ==
  LET top[k \in 0..Size] == IF k = 0 THEN 0 ELSE d[Size - k + 1] + Base * top[k - 1]
  IN  top[Size]

\* Slip: the top bits of the draw are left in place.
MaskedNot(d) == d

\* Slip: the draw is reduced modulo the order.
MaskedByReduction(d) == CHOOSE c \in Draws : Value(c) = Value(d) % Order

\* b[31] &= 0x0f
Masked(d) == [d EXCEPT ![Size] = @ % MaskLimit]

\* SetCanonicalBytes takes numbers below the order of the group only.
Usable(n) == n < Order /\ n # 0

Judge ==
  /\ pc = "draw"
  /\ filled = Size
  /\ draws' = Append(draws, scratch)
  /\ LET n == Value(Masked(scratch)) IN
       \/ /\ Usable(n)
          /\ pc' = "scalar"
          /\ scalar' = n
          /\ scratch' = Zeros
          /\ UNCHANGED filled
       \/ /\ ~Usable(n)
          /\ Len(draws') < MaxTries
          /\ scratch' = Masked(scratch)
          /\ filled' = 0
          /\ UNCHANGED <<pc, scalar>>
       \/ /\ ~Usable(n)
          /\ Len(draws') >= MaxTries
          /\ pc' = "exhausted"
          /\ scratch' = Zeros
          /\ UNCHANGED <<filled, scalar>>

SampleNext == ReadByte \/ ReaderFails \/ Judge

SampleSpec == SampleInit /\ [][SampleNext]_sampling
-----------------------------------------------------------------------------
\* The comment "SetCanonicalBytes cannot reject a masked sample" and the text of the
\* error: the loop gives up only if the reader delivered MaxTries buffers in full and
\* each of them masked to zero.  A buffer that is rejected for its size would make
\* sampling fail on readers that work.
GivesUpOnlyOnZeros ==
  pc = "exhausted" =>
    Len(draws) = MaxTries /\ \A try \in 1..MaxTries : Value(Masked(draws[try])) = 0

\* How many of the equally likely draws are read as n.
Odds(n) == Cardinality({d \in Draws : Value(Masked(d)) = n})

\* No scalar is likelier than another, whatever is rejected, and none is zero or beyond
\* the group.  The buffer is cleared when the call returns, also halfway through a draw.
EvenOdds ==
  /\ pc # "draw" => scratch = Zeros
  /\ pc = "scalar" =>
       /\ scalar \in 1..(Order - 1)
       /\ \A n \in 1..(Order - 1) : Odds(n) \in {0, Odds(scalar)}
=============================================================================
