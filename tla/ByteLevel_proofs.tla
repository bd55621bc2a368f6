-------------------------- MODULE ByteLevel_proofs --------------------------
(***************************************************************************)
(* Proofs about the three models of the package at the level of bytes, for *)
(* every value of their constants: the message decoder stays within its    *)
(* buffer, accepts nothing but encodings and refuses none of values within *)
(* the caps; no two lists of parts make one hash input; and a scalar is    *)
(* drawn evenly, giving up on nothing but zeros.                           *)
(*                                                                         *)
(* The first part makes recursion usable: induction stated as a fact about *)
(* a set of numbers, and the existence and uniqueness of the functions     *)
(* that leb128, lvCat and capacity define by recursion.  The second says   *)
(* what the encoding is made of.                                           *)
(*                                                                         *)
(* The decoder: the invariant IInv reads it as an encoder, what it has     *)
(* consumed is what encode writes for what it has decoded; OnTrack follows *)
(* it through the encoding of given values.                                *)
(*                                                                         *)
(* The hash inputs: no length prefix begins another one, so of two equal   *)
(* texts that begin with a field, the fields are equal and so are the      *)
(* rests; the zero padding is the one part that is computed from another.  *)
(*                                                                         *)
(* The scalar: what a draw is worth is bounded by the mask and tells the   *)
(* draw, so that a masked value comes from one draw for each value of the  *)
(* bits that were masked; LoopInv is the invariant of the loop.            *)
(***************************************************************************)
EXTENDS MessageReader, Preimages, SampleScalar, SequenceTheorems, FiniteSetTheorems,
        WellFoundedInduction, TLAPS

-----------------------------------------------------------------------------
(* Recursion.                                                              *)

\* Induction, as a fact about a set of numbers.
LEMMA NumbersByInduction ==
  ASSUME NEW P \in SUBSET Nat, 0 \in P, \A k \in P : k + 1 \in P
  PROVE  \A k \in Nat : k \in P
<1> DEFINE N == Nat \ P
<1> SUFFICES ASSUME N # {} PROVE FALSE
  OBVIOUS
<1>1. PICK k \in N : \A m \in N : ~(<<m, k>> \in OpToRel(<, Nat))
  BY NatLessThanWellFounded, WFMin
<1>2. k - 1 \in Nat /\ k - 1 \notin P
  BY k # 0
<1>3. <<k - 1, k>> \in OpToRel(<, Nat)
  BY <1>2 DEF OpToRel
<1> QED BY <1>1, <1>2, <1>3

\* Induction on all smaller numbers.
LEMMA NumbersByDescent ==
  ASSUME NEW P \in SUBSET Nat, \A k \in Nat : (\A m \in 0 .. k - 1 : m \in P) => k \in P
  PROVE  \A k \in Nat : k \in P
<1> DEFINE N == Nat \ P
<1> SUFFICES ASSUME N # {} PROVE FALSE
  OBVIOUS
<1>1. PICK k \in N : \A m \in N : ~(<<m, k>> \in OpToRel(<, Nat))
  BY NatLessThanWellFounded, WFMin
<1>2. ASSUME NEW m \in 0 .. k - 1 PROVE m \in P
  <2>1. m \in Nat /\ m < k
    OBVIOUS
  <2>2. <<m, k>> \in OpToRel(<, Nat)
    BY <2>1 DEF OpToRel
  <2> QED BY <1>1, <2>1, <2>2
<1> QED BY <1>1, <1>2

\* A function defined by recursion on the digits of a number exists.
Digits(V, base, next, dom, g) ==
  /\ g \in [dom -> V]
  /\ \A k \in dom : g[k] = IF k < Radix THEN base[k] ELSE next[<<k, g[k \div Radix]>>]

\* What a number of several digits is made of.
LEMMA Quotient ==
  ASSUME NEW k \in Nat, k >= Radix
  PROVE  /\ k \div Radix \in Nat \ {0} /\ k \div Radix < k
         /\ k % Radix \in 0 .. Radix - 1 /\ k = (k \div Radix) * Radix + (k % Radix)
<1> DEFINE q == k \div Radix  r == k % Radix
<1>1. q \in Int /\ r \in 0 .. Radix - 1 /\ k = q * Radix + r
  BY RadixAtLeastTwo
<1> HIDE DEF q, r
<1>2. q > 0
  BY <1>1, RadixAtLeastTwo
<1>3. q * Radix \in Int /\ q < q * Radix
  BY <1>1, <1>2, RadixAtLeastTwo
<1>4. q \in Nat \ {0} /\ q < k
  BY <1>1, <1>2, <1>3
<1> QED BY <1>1, <1>4 DEF q, r

\* Two functions that follow the recursion agree where both are defined.
LEMMA DigitsAgree ==
  ASSUME NEW V, NEW base, NEW next, NEW a \in Nat, NEW b \in Nat, NEW g, NEW h,
         Digits(V, base, next, 0 .. a, g), Digits(V, base, next, 0 .. b, h)
  PROVE  \A k \in (0 .. a) \cap (0 .. b) : g[k] = h[k]
<1> DEFINE P == {k \in Nat : k \in (0 .. a) \cap (0 .. b) => g[k] = h[k]}
<1>1. ASSUME NEW k \in Nat, \A m \in 0 .. k - 1 : m \in P PROVE k \in P
  <2> SUFFICES ASSUME k \in (0 .. a) \cap (0 .. b) PROVE g[k] = h[k]
    OBVIOUS
  <2>1. CASE k < Radix
    BY <2>1 DEF Digits
  <2>2. CASE k >= Radix
    <3>1. k \div Radix \in 0 .. k - 1 /\ k \div Radix \in (0 .. a) \cap (0 .. b)
      BY <2>2, Quotient
    <3>2. g[k \div Radix] = h[k \div Radix]
      BY <1>1, <3>1
    <3> QED BY <2>2, <3>2, RadixAtLeastTwo DEF Digits
  <2> QED BY <2>1, <2>2, RadixAtLeastTwo
<1>2. \A k \in Nat : k \in P
  <2> HIDE DEF P
  <2>1. P \in SUBSET Nat
    BY DEF P
  <2> QED BY <1>1, <2>1, NumbersByDescent
<1> QED BY <1>2

\* There is one on all numbers up to a.
LEMMA DigitsUpTo ==
  ASSUME NEW V, NEW base \in [Nat -> V], NEW next \in [Nat \X V -> V], NEW a \in Nat
  PROVE  \E g : Digits(V, base, next, 0 .. a, g)
<1> DEFINE P == {k \in Nat : \E g : Digits(V, base, next, 0 .. k, g)}
<1>1. 0 \in P
  <2>1. Digits(V, base, next, 0 .. 0, [k \in 0 .. 0 |-> base[k]])
    BY RadixAtLeastTwo DEF Digits
  <2> QED BY <2>1
<1>2. ASSUME NEW k \in P PROVE k + 1 \in P
  <2>1. PICK g : Digits(V, base, next, 0 .. k, g)
    OBVIOUS
  <2> DEFINE h == [m \in 0 .. k + 1 |-> IF m \in 0 .. k THEN g[m]
                     ELSE IF m < Radix THEN base[m] ELSE next[<<m, g[m \div Radix]>>]]
  <2>2. ASSUME NEW m \in 0 .. k + 1, ~(m < Radix)
        PROVE  m \div Radix \in 0 .. k /\ h[m \div Radix] = g[m \div Radix]
    <3>1. k \in Nat /\ m \in Nat /\ m >= Radix
      BY <2>2, RadixAtLeastTwo
    <3>2. m \div Radix \in Nat /\ m \div Radix < m
      BY <3>1, Quotient
    <3> QED BY <3>1, <3>2
  <2>3. h \in [0 .. k + 1 -> V]
    <3> SUFFICES ASSUME NEW m \in 0 .. k + 1, m \notin 0 .. k, ~(m < Radix)
                 PROVE  next[<<m, g[m \div Radix]>>] \in V
      BY <2>1 DEF Digits
    <3>1. m \div Radix \in 0 .. k
      BY <2>2
    <3>2. <<m, g[m \div Radix]>> \in Nat \X V
      BY <2>1, <3>1 DEF Digits
    <3> QED BY <3>2
  <2>4. ASSUME NEW m \in 0 .. k + 1
        PROVE  h[m] = IF m < Radix THEN base[m] ELSE next[<<m, h[m \div Radix]>>]
    <3>1. CASE m < Radix
      BY <2>1, <3>1 DEF Digits
    <3>2. CASE ~(m < Radix)
      <4>1. h[m \div Radix] = g[m \div Radix]
        BY <2>2, <3>2
      <4>2. h[m] = next[<<m, g[m \div Radix]>>]
        BY <2>1, <3>2 DEF Digits
      <4> QED BY <3>2, <4>1, <4>2
    <3> QED BY <3>1, <3>2
  <2>5. Digits(V, base, next, 0 .. k + 1, h)
    <3> HIDE DEF h
    <3> QED BY <2>3, <2>4 DEF Digits
  <2> QED BY <2>5
<1>3. \A k \in Nat : k \in P
  <2> HIDE DEF P
  <2>1. P \in SUBSET Nat
    BY DEF P
  <2> QED BY <1>1, <1>2, <2>1, NumbersByInduction
<1> QED BY <1>3

\* And so on all numbers.
LEMMA DigitsExist ==
  ASSUME NEW V, NEW base \in [Nat -> V], NEW next \in [Nat \X V -> V]
  PROVE  \E g : Digits(V, base, next, Nat, g)
<1> DEFINE Upto(k) == CHOOSE g : Digits(V, base, next, 0 .. k, g)
           f == [k \in Nat |-> Upto(k)[k]]
<1>1. \A k \in Nat : Digits(V, base, next, 0 .. k, Upto(k))
  BY DigitsUpTo
<1> HIDE DEF Upto
<1>2. ASSUME NEW k \in Nat PROVE f[k] \in V
  BY <1>1 DEF Digits
<1>3. ASSUME NEW k \in Nat PROVE f[k] = IF k < Radix THEN base[k] ELSE next[<<k, f[k \div Radix]>>]
  <2>1. f[k] = IF k < Radix THEN base[k] ELSE next[<<k, Upto(k)[k \div Radix]>>]
    BY <1>1 DEF Digits
  <2>2. ASSUME ~(k < Radix) PROVE Upto(k)[k \div Radix] = f[k \div Radix]
    <3> DEFINE q == k \div Radix
    <3>1. q \in Nat /\ q < k
      BY <2>2, Quotient, RadixAtLeastTwo
    <3> HIDE DEF q
    <3>2. Digits(V, base, next, 0 .. k, Upto(k)) /\ Digits(V, base, next, 0 .. q, Upto(q))
      BY <1>1, <3>1
    <3>3. q \in (0 .. k) \cap (0 .. q)
      BY <3>1
    <3>4. Upto(k)[q] = Upto(q)[q]
      BY <3>1, <3>2, <3>3, DigitsAgree
    <3>5. f[q] = Upto(q)[q]
      BY <3>1
    <3> QED BY <3>4, <3>5 DEF q
  <2> QED BY <2>1, <2>2
<1>4. Digits(V, base, next, Nat, f)
  <2> HIDE DEF f
  <2>1. f \in [Nat -> V]
    BY <1>2 DEF f
  <2> QED BY <1>3, <2>1 DEF Digits
<1> QED BY <1>4

\* Two loops that go on alike from alike beginnings agree.
GoAlike(a, g, h) == g[0] = h[0] /\ \A k \in 1 .. a : g[k - 1] = h[k - 1] => g[k] = h[k]
SameUpTo(a, g, h) == \A k \in 0 .. a : g[k] = h[k]

\* A loop over the first a numbers is determined by where it begins and how it goes on.
LEMMA LoopsAgree ==
  ASSUME NEW a \in Nat, NEW g, NEW h, GoAlike(a, g, h)
  PROVE  SameUpTo(a, g, h)
<1> USE DEF GoAlike, SameUpTo
<1> DEFINE P == {k \in Nat : k <= a => g[k] = h[k]}
<1>1. 0 \in P
  OBVIOUS
<1>2. ASSUME NEW k \in P PROVE k + 1 \in P
  <2> SUFFICES ASSUME k + 1 <= a PROVE g[k + 1] = h[k + 1]
    OBVIOUS
  <2>1. k + 1 \in 1 .. a /\ (k + 1) - 1 = k /\ g[k] = h[k]
    OBVIOUS
  <2> QED BY <2>1
<1>3. \A k \in Nat : k \in P
  <2> HIDE DEF P
  <2>1. P \in SUBSET Nat
    BY DEF P
  <2> QED BY <1>1, <1>2, <2>1, NumbersByInduction
<1> QED BY <1>3

\* A loop from base by next has its values.
LoopOf(V, a, base, next, g) ==
  g \in [0 .. a -> V] /\ g[0] = base /\ \A k \in 1 .. a : g[k] = next[<<k, g[k - 1]>>]

\* There is such a loop, whatever it does.
LEMMA LoopExists ==
  ASSUME NEW V, NEW a \in Nat, NEW base \in V, NEW next \in [(1 .. a) \X V -> V]
  PROVE  \E g : LoopOf(V, a, base, next, g)
<1> USE DEF LoopOf
<1> DEFINE Loop(k, g) == g[0] = base /\ \A m \in 1 .. k : g[m] = next[<<m, g[m - 1]>>]
           P == {k \in Nat : k <= a => \E g \in [0 .. k -> V] : Loop(k, g)}
<1>1. 0 \in P
  <2>1. [k \in 0 .. 0 |-> base] \in [0 .. 0 -> V] /\ Loop(0, [k \in 0 .. 0 |-> base])
    OBVIOUS
  <2> QED BY <2>1
<1>2. ASSUME NEW k \in P, k + 1 <= a PROVE \E h \in [0 .. k + 1 -> V] : Loop(k + 1, h)
  <2>1. k \in Nat /\ k <= a
    BY <1>2
  <2>2. PICK g \in [0 .. k -> V] : Loop(k, g)
    BY <2>1
  <2> DEFINE h == [m \in 0 .. k + 1 |-> IF m <= k THEN g[m] ELSE next[<<k + 1, g[k]>>]]
  <2>3. <<k + 1, g[k]>> \in (1 .. a) \X V
    BY <1>2, <2>1
  <2>4. h \in [0 .. k + 1 -> V]
    BY <2>1, <2>3
  <2>5. \A m \in 0 .. k : h[m] = g[m]
    BY <2>1
  <2>6. h[k + 1] = next[<<k + 1, g[k]>>]
    BY <2>1
  <2> HIDE DEF h
  <2>7. h[0] = base
    BY <2>1, <2>2, <2>5
  <2>8. ASSUME NEW m \in 1 .. k + 1 PROVE h[m] = next[<<m, h[m - 1]>>]
    <3>1. CASE m = k + 1
      <4>1. m - 1 = k /\ k \in 0 .. k
        BY <2>1, <3>1
      <4>2. h[m - 1] = g[k]
        BY <2>5, <4>1
      <4> QED BY <2>6, <3>1, <4>2
    <3>2. CASE m \in 1 .. k
      <4>1. m \in 0 .. k /\ m - 1 \in 0 .. k
        BY <2>1, <3>2
      <4> QED BY <2>2, <2>5, <3>2, <4>1
    <3> QED BY <2>1, <3>1, <3>2
  <2> QED BY <2>4, <2>7, <2>8
<1>3. \A k \in Nat : k \in P
  <2>1. \A k \in P : k + 1 \in P
    BY <1>2
  <2> HIDE DEF P
  <2>2. P \in SUBSET Nat
    BY DEF P
  <2> QED BY <1>1, <2>1, <2>2, NumbersByInduction
<1> QED BY <1>3

-----------------------------------------------------------------------------
(* The length-value encoding.                                              *)

\* The recursion of leb128.
LEMMA Leb128Unfolds ==
  leb128 = [k \in Nat |-> IF k < Radix THEN <<k>> ELSE <<(k % Radix) + Radix>> \o leb128[k \div Radix]]
<1> DEFINE V == Seq(Byte)
           base == [k \in Nat |-> IF k < Radix THEN <<k>> ELSE <<>>]
           next == [p \in Nat \X V |-> <<(p[1] % Radix) + Radix>> \o p[2]]
           Eq(f) == f = [k \in Nat |-> IF k < Radix THEN <<k>> ELSE <<(k % Radix) + Radix>> \o f[k \div Radix]]
<1>1. \A k \in Nat : (k % Radix) + Radix \in Byte /\ (k < Radix => k \in Byte)
  BY RadixAtLeastTwo DEF Byte
<1>2. base \in [Nat -> V] /\ next \in [Nat \X V -> V]
  <2>1. \A d \in Byte : <<d>> \in V
    OBVIOUS
  <2>2. \A d \in Byte, s \in V : <<d>> \o s \in V
    BY <2>1, ConcatProperties
  <2>3. <<>> \in V
    BY EmptySeq
  <2> HIDE DEF V
  <2> QED BY <1>1, <2>1, <2>2, <2>3
<1>3. PICK g : Digits(V, base, next, Nat, g)
  <2> HIDE DEF base, next, V
  <2> QED BY <1>2, DigitsExist
<1>4. g = [k \in Nat |-> IF k < Radix THEN <<k>> ELSE <<(k % Radix) + Radix>> \o g[k \div Radix]]
  <2>1. ASSUME NEW k \in Nat
        PROVE  g[k] = IF k < Radix THEN <<k>> ELSE <<(k % Radix) + Radix>> \o g[k \div Radix]
    <3>1. CASE k < Radix
      BY <1>3, <3>1 DEF Digits
    <3>2. CASE ~(k < Radix)
      <4>1. k \div Radix \in Nat
        BY <3>2, Quotient, RadixAtLeastTwo
      <4>2. g[k] = next[<<k, g[k \div Radix]>>] /\ <<k, g[k \div Radix]>> \in Nat \X V
        BY <1>3, <3>2, <4>1 DEF Digits
      <4> QED BY <3>2, <4>2
    <3> QED BY <3>1, <3>2
  <2>2. g \in [Nat -> V]
    BY <1>3 DEF Digits
  <2> QED BY <2>1, <2>2
<1>5. leb128 = CHOOSE f : Eq(f)
  BY DEF leb128
<1>6. Eq(g)
  BY <1>4
<1> HIDE DEF Eq
<1>7. Eq(leb128)
  BY <1>5, <1>6
<1> QED BY <1>7 DEF Eq

\* The recursion of leb128Len.
LEMMA Leb128LenUnfolds ==
  leb128Len = [k \in Nat |-> IF k < Radix THEN 1 ELSE 1 + leb128Len[k \div Radix]]
<1> DEFINE base == [k \in Nat |-> 1]
           next == [p \in Nat \X Nat |-> 1 + p[2]]
           Eq(f) == f = [k \in Nat |-> IF k < Radix THEN 1 ELSE 1 + f[k \div Radix]]
<1>1. PICK g : Digits(Nat, base, next, Nat, g)
  <2>1. base \in [Nat -> Nat] /\ next \in [Nat \X Nat -> Nat]
    OBVIOUS
  <2> HIDE DEF base, next
  <2> QED BY <2>1, DigitsExist
<1>2. ASSUME NEW k \in Nat PROVE g[k] = IF k < Radix THEN 1 ELSE 1 + g[k \div Radix]
  <2>1. CASE k < Radix
    BY <1>1, <2>1 DEF Digits
  <2>2. CASE ~(k < Radix)
    <3>1. k \div Radix \in Nat
      BY <2>2, Quotient, RadixAtLeastTwo
    <3>2. g[k] = next[<<k, g[k \div Radix]>>] /\ <<k, g[k \div Radix]>> \in Nat \X Nat
      BY <1>1, <2>2, <3>1 DEF Digits
    <3> QED BY <2>2, <3>2
  <2> QED BY <2>1, <2>2
<1>3. Eq(g)
  <2>1. g \in [Nat -> Nat]
    BY <1>1 DEF Digits
  <2> QED BY <1>2, <2>1
<1>4. leb128Len = CHOOSE f : Eq(f)
  BY DEF leb128Len
<1> HIDE DEF Eq
<1>5. Eq(leb128Len)
  BY <1>3, <1>4
<1> QED BY <1>5 DEF Eq

\* The digits of a number, and how many they are.
LEMMA Leb128 ==
  ASSUME NEW k \in Nat
  PROVE  /\ leb128[k] \in Seq(Byte) /\ Len(leb128[k]) = leb128Len[k] /\ leb128Len[k] \in Nat \ {0}
         /\ k < Radix => leb128[k] = <<k>>
         /\ k >= Radix => leb128[k] = <<(k % Radix) + Radix>> \o leb128[k \div Radix]
<1> DEFINE P == {m \in Nat : leb128[m] \in Seq(Byte) /\ Len(leb128[m]) = leb128Len[m] /\ leb128Len[m] \in Nat \ {0}}
<1>1. ASSUME NEW x \in Nat, \A m \in 0 .. x - 1 : m \in P PROVE x \in P
  <2>1. CASE x < Radix
    <3>1. leb128[x] = <<x>> /\ leb128Len[x] = 1 /\ x \in Byte
      BY <2>1, Leb128Unfolds, Leb128LenUnfolds, RadixAtLeastTwo DEF Byte
    <3>2. <<x>> \in Seq(Byte) /\ Len(<<x>>) = 1
      BY <3>1
    <3>3. leb128[x] \in Seq(Byte) /\ Len(leb128[x]) = leb128Len[x] /\ leb128Len[x] \in Nat \ {0}
      <4>1. Len(leb128[x]) = 1 /\ leb128[x] \in Seq(Byte)
        BY <3>1, <3>2
      <4> QED BY <3>1, <4>1
    <3> QED BY <1>1, <3>3
  <2>2. CASE ~(x < Radix)
    <3> DEFINE q == x \div Radix  d == (x % Radix) + Radix
    <3>1. q \in 0 .. x - 1 /\ d \in Byte
      BY <2>2, Quotient, RadixAtLeastTwo DEF Byte
    <3>2. leb128[x] = <<d>> \o leb128[q] /\ leb128Len[x] = 1 + leb128Len[q]
      BY <2>2, Leb128Unfolds, Leb128LenUnfolds
    <3>3. q \in P
      BY <1>1, <3>1
    <3> HIDE DEF q, d
    <3>4. <<d>> \in Seq(Byte) /\ Len(<<d>>) = 1
      BY <3>1
    <3>5. <<d>> \o leb128[q] \in Seq(Byte) /\ Len(<<d>> \o leb128[q]) = 1 + Len(leb128[q])
      BY <3>3, <3>4, ConcatProperties
    <3>6. leb128Len[x] \in Nat \ {0}
      BY <3>2, <3>3
    <3> QED BY <1>1, <3>2, <3>3, <3>5, <3>6
  <2> QED BY <2>1, <2>2
<1>2. \A m \in Nat : m \in P
  <2> HIDE DEF P
  <2>1. P \in SUBSET Nat
    BY DEF P
  <2> QED BY <1>1, <2>1, NumbersByDescent
<1>3. /\ k < Radix => leb128[k] = <<k>>
      /\ k >= Radix => leb128[k] = <<(k % Radix) + Radix>> \o leb128[k \div Radix]
  <2>1. leb128[k] = IF k < Radix THEN <<k>> ELSE <<(k % Radix) + Radix>> \o leb128[k \div Radix]
    BY Leb128Unfolds
  <2>2. k >= Radix => ~(k < Radix)
    BY RadixAtLeastTwo
  <2> QED BY <2>1, <2>2
<1> QED BY <1>2, <1>3

\* Strings of bytes may be joined in any order.
LEMMA BytesRegroup == \A s, t, u \in Seq(Byte) : (s \o t) \o u = s \o (t \o u)
BY ConcatAssociative

\* A field with its length in front.
LEMMA FieldAndLength ==
  ASSUME NEW v \in Seq(Byte)
  PROVE  lengthValue(v) \in Seq(Byte) /\ Len(lengthValue(v)) = lengthValueLen(Len(v))
<1>1. Len(v) \in Nat
  OBVIOUS
<1>2. leb128[Len(v)] \in Seq(Byte) /\ Len(leb128[Len(v)]) = leb128Len[Len(v)] /\ leb128Len[Len(v)] \in Nat
  BY <1>1, Leb128
<1>3. leb128[Len(v)] \o v \in Seq(Byte) /\ Len(leb128[Len(v)] \o v) = Len(leb128[Len(v)]) + Len(v)
  BY <1>2, ConcatProperties
<1> QED BY <1>2, <1>3 DEF lengthValue, lengthValueLen

\* The loop of lvCat.
LvLoop(fs, g) ==
  /\ g \in [0 .. Len(fs) -> Seq(Byte)]
  /\ g[0] = <<>>
  /\ \A k \in 1 .. Len(fs) : g[k] = g[k - 1] \o lengthValue(fs[k])

\* lvCat gives what its loop has at the end.
LEMMA LvCatLoops ==
  ASSUME NEW fs \in Seq(Seq(Byte))
  PROVE  \E g : LvLoop(fs, g) /\ lvCat(fs) = g[Len(fs)]
<1> DEFINE a == Len(fs)
           V == Seq(Byte)
           next == [p \in (1 .. a) \X V |-> p[2] \o lengthValue(fs[p[1]])]
           Eq(g) == g = [f \in 0 .. Len(fs) |-> IF f = 0 THEN <<>> ELSE g[f - 1] \o lengthValue(fs[f])]
<1>0. a \in Nat
  OBVIOUS
<1>1. a \in Nat /\ <<>> \in V
  BY <1>0, EmptySeq
<1>2. next \in [(1 .. a) \X V -> V]
  <2>1. ASSUME NEW k \in 1 .. a, NEW s \in V PROVE s \o lengthValue(fs[k]) \in V
    <3>1. fs[k] \in Seq(Byte)
      OBVIOUS
    <3>2. lengthValue(fs[k]) \in Seq(Byte)
      BY <3>1, FieldAndLength
    <3> QED BY <3>2, ConcatProperties
  <2> HIDE DEF V
  <2> QED BY <2>1
<1>3. PICK g : LoopOf(V, a, <<>>, next, g)
  <2>1. <<>> \in V
    BY EmptySeq
  <2> HIDE DEF next, V, a
  <2> QED BY <1>0, <1>2, <2>1, LoopExists
<1>4. \A k \in 1 .. a : k - 1 \in 0 .. a /\ g[k] = g[k - 1] \o lengthValue(fs[k])
  <2> TAKE k \in 1 .. a
  <2>1. k - 1 \in 0 .. a
    BY <1>1
  <2>2. <<k, g[k - 1]>> \in (1 .. a) \X V
    BY <1>3, <2>1 DEF LoopOf
  <2> HIDE DEF a, V
  <2> QED BY <1>3, <2>1, <2>2 DEF LoopOf
<1>5. LvLoop(fs, g)
  BY <1>3, <1>4 DEF LvLoop, LoopOf
<1>6. Eq(g)
  <2>1. \A f \in 0 .. a : g[f] = IF f = 0 THEN <<>> ELSE g[f - 1] \o lengthValue(fs[f])
    <3> TAKE f \in 0 .. a
    <3>1. f = 0 \/ f \in 1 .. a
      BY <1>1
    <3> HIDE DEF a
    <3> QED BY <1>3, <1>4, <3>1 DEF LoopOf
  <2>2. g \in [0 .. Len(fs) -> V]
    BY <1>3 DEF LoopOf
  <2> QED BY <2>1, <2>2
<1> DEFINE c == CHOOSE h : Eq(h)
<1>7. Eq(c)
  <2> HIDE DEF Eq
  <2> QED BY <1>6
<1>8. lvCat(fs) = c[Len(fs)]
  BY DEF lvCat
<1> HIDE DEF c
<1>9. SameUpTo(a, c, g)
  <2>1. c[0] = g[0]
    BY <1>1, <1>3, <1>7 DEF LoopOf
  <2>2. \A k \in 1 .. a : c[k - 1] = g[k - 1] => c[k] = g[k]
    <3> TAKE k \in 1 .. a
    <3>1. k \in 0 .. a /\ k # 0
      BY <1>1
    <3>2. c[k] = c[k - 1] \o lengthValue(fs[k])
      BY <1>7, <3>1
    <3> QED BY <1>4, <3>2
  <2>3. GoAlike(a, c, g)
    BY <2>1, <2>2 DEF GoAlike
  <2> HIDE DEF a
  <2> QED BY <1>0, <2>3, LoopsAgree
<1> QED BY <1>1, <1>5, <1>8, <1>9 DEF SameUpTo

\* What is left to a loop that has reached one field more.
LEMMA LvCatGrows ==
  /\ lvCat(<<>>) = <<>>
  /\ \A fs \in Seq(Seq(Byte)), v \in Seq(Byte) :
       lvCat(fs) \in Seq(Byte) /\ lvCat(Append(fs, v)) = lvCat(fs) \o lengthValue(v)
<1>1. lvCat(<<>>) = <<>>
  <2>1. <<>> \in Seq(Seq(Byte)) /\ Len(<<>>) = 0
    BY EmptySeq
  <2> QED BY <2>1, LvCatLoops DEF LvLoop
<1>2. ASSUME NEW fs \in Seq(Seq(Byte)), NEW v \in Seq(Byte)
      PROVE  lvCat(fs) \in Seq(Byte) /\ lvCat(Append(fs, v)) = lvCat(fs) \o lengthValue(v)
  <2> DEFINE a == Len(fs)  gs == Append(fs, v)
  <2>1. gs \in Seq(Seq(Byte)) /\ Len(gs) = a + 1 /\ gs[a + 1] = v /\ a \in Nat
        /\ \A k \in 1 .. a : gs[k] = fs[k]
    BY AppendProperties
  <2> HIDE DEF gs
  <2>2. PICK g : LvLoop(fs, g) /\ lvCat(fs) = g[a]
    BY LvCatLoops
  <2>3. PICK h : LvLoop(gs, h) /\ lvCat(gs) = h[a + 1]
    BY <2>1, LvCatLoops
  <2> HIDE DEF a
  <2>4. g[0] = h[0]
    BY <2>2, <2>3 DEF LvLoop
  <2>5. \A k \in 1 .. a : g[k - 1] = h[k - 1] => g[k] = h[k]
    <3> TAKE k \in 1 .. a
    <3>1. k \in 1 .. Len(fs) /\ k \in 1 .. Len(gs)
      BY <2>1 DEF a
    <3> QED BY <2>1, <2>2, <2>3, <3>1 DEF LvLoop
  <2>6. \A k \in 0 .. a : g[k] = h[k]
    <3>1. a \in Nat
      BY <2>1
    <3>2. GoAlike(a, g, h)
      BY <2>4, <2>5 DEF GoAlike
    <3> QED BY <3>1, <3>2, LoopsAgree DEF SameUpTo
  <2>7. a + 1 \in 1 .. Len(gs) /\ (a + 1) - 1 = a /\ a \in 0 .. a
    BY <2>1
  <2>8. h[a + 1] = h[a] \o lengthValue(gs[a + 1])
    BY <2>3, <2>7 DEF LvLoop
  <2>9. g[a] \in Seq(Byte)
    BY <2>1, <2>2, <2>7 DEF LvLoop, a
  <2> QED BY <2>1, <2>2, <2>3, <2>6, <2>7, <2>8, <2>9 DEF gs
<1> QED BY <1>1, <1>2

\* What encode reserves is what it writes.
LEMMA CapacityIsLength ==
  ASSUME NEW fs \in Seq(Seq(Byte))
  PROVE  /\ encode(fs) \in Seq(Byte)
         /\ Len(encode(fs)) = capacity([f \in DOMAIN fs |-> Len(fs[f])])
<1> DEFINE lengths == [f \in DOMAIN fs |-> Len(fs[f])]
           a == Len(fs)
           Eq(g) == g = [f \in 0 .. Len(lengths) |->
                           IF f = 0 THEN Len(Header) ELSE g[f - 1] + lengthValueLen(lengths[f])]
           c == CHOOSE h : Eq(h)
<1>1. a \in Nat /\ DOMAIN fs = 1 .. a
  OBVIOUS
<1>2. lengths \in Seq(Nat) /\ Len(lengths) = a /\ \A k \in 1 .. a : lengths[k] = Len(fs[k])
  <2>1. \A k \in 1 .. a : Len(fs[k]) \in Nat
    <3> TAKE k \in 1 .. a
    <3>1. fs[k] \in Seq(Byte)
      OBVIOUS
    <3> QED BY <3>1
  <2>2. lengths = [k \in 1 .. a |-> Len(fs[k])]
    BY <1>1
  <2> HIDE DEF lengths, a
  <2> QED BY <1>1, <2>1, <2>2
<1> HIDE DEF lengths, a
<1>3. PICK g : LvLoop(fs, g) /\ lvCat(fs) = g[a]
  BY LvCatLoops DEF a
<1> DEFINE h == [k \in 0 .. a |-> Len(Header) + Len(g[k])]
<1>4. Header \in Seq(Byte) /\ Len(Header) \in Nat
  BY WireConstants
<1>5. ASSUME NEW k \in 1 .. a
      PROVE  k - 1 \in 0 .. a /\ h[k] = h[k - 1] + lengthValueLen(lengths[k])
  <2>1. k - 1 \in 0 .. a /\ k \in 0 .. a
    BY <1>1
  <2>2. g[k] = g[k - 1] \o lengthValue(fs[k]) /\ g[k - 1] \in Seq(Byte)
    BY <1>3, <2>1 DEF LvLoop, a
  <2>3. fs[k] \in Seq(Byte)
    BY <1>1
  <2>4. lengthValue(fs[k]) \in Seq(Byte) /\ Len(lengthValue(fs[k])) = lengthValueLen(lengths[k])
    BY <1>2, <2>3, FieldAndLength
  <2>5. Len(g[k - 1] \o lengthValue(fs[k])) = Len(g[k - 1]) + Len(lengthValue(fs[k]))
    BY <2>2, <2>4, ConcatProperties
  <2>6. Len(g[k - 1]) \in Nat /\ Len(lengthValue(fs[k])) \in Nat
    BY <2>2, <2>4
  <2>7. Len(g[k]) = Len(g[k - 1]) + lengthValueLen(lengths[k])
    BY <2>2, <2>4, <2>5
  <2>8. h[k] = Len(Header) + Len(g[k]) /\ h[k - 1] = Len(Header) + Len(g[k - 1])
    BY <2>1
  <2> HIDE DEF h
  <2> QED BY <1>4, <2>1, <2>4, <2>6, <2>7, <2>8
<1>6. h[0] = Len(Header)
  <2>1. g[0] = <<>> /\ 0 \in 0 .. a
    BY <1>1, <1>3 DEF LvLoop
  <2> QED BY <1>4, <2>1, EmptySeq
<1>7. Eq(h)
  <2>1. \A k \in 0 .. a : h[k] = IF k = 0 THEN Len(Header) ELSE h[k - 1] + lengthValueLen(lengths[k])
    <3> TAKE k \in 0 .. a
    <3>1. k = 0 \/ k \in 1 .. a
      BY <1>1
    <3> HIDE DEF h
    <3> QED BY <1>5, <1>6, <3>1
  <2> QED BY <1>2, <2>1
<1>8. Eq(c)
  <2> HIDE DEF Eq
  <2> QED BY <1>7
<1>9. capacity(lengths) = c[a]
  BY <1>2 DEF capacity
<1> HIDE DEF c
<1>10. SameUpTo(a, c, h)
  <2>1. c[0] = h[0]
    BY <1>1, <1>2, <1>6, <1>8
  <2>2. \A k \in 1 .. a : c[k - 1] = h[k - 1] => c[k] = h[k]
    <3> TAKE k \in 1 .. a
    <3>1. k \in 0 .. Len(lengths) /\ k # 0
      BY <1>1, <1>2
    <3>2. c[k] = c[k - 1] + lengthValueLen(lengths[k])
      BY <1>8, <3>1
    <3> HIDE DEF h
    <3> QED BY <1>5, <3>2
  <2>3. GoAlike(a, c, h)
    <3> HIDE DEF h
    <3> QED BY <2>1, <2>2 DEF GoAlike
  <2> HIDE DEF h
  <2> QED BY <1>1, <2>3, LoopsAgree
<1>11. c[a] = Len(Header) + Len(lvCat(fs))
  BY <1>1, <1>3, <1>10 DEF SameUpTo
<1>12. lvCat(fs) \in Seq(Byte)
  BY <1>1, <1>3 DEF LvLoop, a
<1>13. encode(fs) \in Seq(Byte) /\ Len(encode(fs)) = Len(Header) + Len(lvCat(fs))
  BY <1>4, <1>12, ConcatProperties DEF encode
<1> QED BY <1>9, <1>11, <1>13 DEF lengths

-----------------------------------------------------------------------------
(* Powers, quotients and pieces of the buffer.                             *)

\* What a digit in place d counts.
Weight(d) == Radix ^ d

\* Places count more and more, each Radix times the one before.
LEMMA Weights ==
  /\ Weight(0) = 1
  /\ \A d \in 0 .. MaxPrefix : Weight(d) \in Nat \ {0} /\ Weight(d + 1) = Radix * Weight(d)
  /\ \A d \in 0 .. MaxPrefix : \A e \in 0 .. d : Weight(e) <= Weight(d)
<1> MaxPrefix \in Nat /\ Radix \in Nat /\ Radix >= 2
  BY WireConstants, RadixAtLeastTwo
<1>1. Weight(0) = 1 /\ \A d \in 0 .. MaxPrefix : Weight(d) \in Nat /\ Weight(d + 1) = Radix * Weight(d)
  BY PowersOfRadix DEF Weight
<1> HIDE DEF Weight
<1> DEFINE P == {d \in Nat : d <= MaxPrefix =>
                   Weight(d) >= 1 /\ \A e \in 0 .. d : Weight(e) <= Weight(d)}
<1>2. 0 \in P
  BY <1>1
<1>3. ASSUME NEW d \in P PROVE d + 1 \in P
  <2> SUFFICES ASSUME d + 1 <= MaxPrefix
               PROVE  Weight(d + 1) >= 1 /\ \A e \in 0 .. d + 1 : Weight(e) <= Weight(d + 1)
    OBVIOUS
  <2>1. d \in 0 .. MaxPrefix /\ Weight(d) \in Nat /\ Weight(d) >= 1 /\ Weight(d + 1) = Radix * Weight(d)
    BY <1>1
  <2>2. Radix * Weight(d) >= Weight(d) /\ Radix * Weight(d) \in Nat
    BY <2>1
  <2>3. ASSUME NEW e \in 0 .. d + 1 PROVE Weight(e) <= Weight(d + 1)
    <3>1. CASE e = d + 1
      BY <3>1, <2>1, <2>2
    <3>2. CASE e \in 0 .. d
      <4>1. Weight(e) <= Weight(d) /\ e \in 0 .. MaxPrefix
        BY <2>1, <3>2
      <4>2. Weight(e) \in Nat
        BY <1>1, <4>1
      <4> QED BY <2>1, <2>2, <4>1, <4>2
    <3> QED BY <2>1, <3>1, <3>2
  <2> QED BY <2>1, <2>2, <2>3
<1>4. \A d \in Nat : d \in P
  <2> HIDE DEF P
  <2>1. P \in SUBSET Nat
    BY DEF P
  <2> QED BY <1>2, <1>3, <2>1, NumbersByInduction
<1> QED BY <1>1, <1>4

\* A number is determined by its last digit and the others.
LEMMA LastDigit ==
  ASSUME NEW k \in Nat, NEW d \in 0 .. Radix - 1
  PROVE  (d + k * Radix) \div Radix = k /\ (d + k * Radix) % Radix = d
<1> Radix \in Nat /\ Radix >= 2
  BY RadixAtLeastTwo
<1> DEFINE x == d + k * Radix  q == x \div Radix  r == x % Radix
<1>1. k * Radix \in Nat /\ x \in Nat
  OBVIOUS
<1>2. q \in Int /\ r \in 0 .. Radix - 1 /\ x = q * Radix + r
  BY <1>1
<1> HIDE DEF q, r
<1>3. (q - k) * Radix = d - r
  BY <1>2
<1>4. q - k = 0
  <2>1. CASE q - k >= 1
    <3>1. (q - k) * Radix >= Radix
      BY <1>2, <2>1
    <3> QED BY <1>2, <1>3, <3>1
  <2>2. CASE q - k <= -1
    <3>1. (q - k) * Radix <= -Radix
      BY <1>2, <2>2
    <3> QED BY <1>2, <1>3, <3>1
  <2> QED BY <1>2, <2>1, <2>2
<1>5. q = k /\ r = d
  BY <1>2, <1>3, <1>4
<1> QED BY <1>5 DEF q, r

\* The bytes of the buffer after the first a, up to number c.
Bytes(a, c) == SubSeq(buf, a + 1, c)

\* Pieces of the buffer that follow one another make one.
LEMMA Pieces ==
  ASSUME buf \in Seq(Byte), NEW a \in Nat, NEW c \in a .. Len(buf)
  PROVE  /\ Bytes(a, c) \in Seq(Byte) /\ Len(Bytes(a, c)) = c - a
         /\ \A j \in 1 .. c - a : Bytes(a, c)[j] = buf[a + j]
         /\ \A k \in c .. Len(buf) : Bytes(a, c) \o Bytes(c, k) = Bytes(a, k)
<1>1. Len(buf) \in Nat /\ a + 1 \in 1 .. Len(buf) + 1 /\ c \in Nat /\ a <= c /\ c <= Len(buf)
  OBVIOUS
<1>2. \A k \in a + 1 .. c : buf[k] \in Byte
  <2> TAKE k \in a + 1 .. c
  <2>1. k \in 1 .. Len(buf)
    BY <1>1
  <2> QED BY <2>1, ElementOfSeq
<1>3. /\ SubSeq(buf, a + 1, c) \in Seq(Byte)
      /\ Len(SubSeq(buf, a + 1, c)) = IF a + 1 <= c THEN c - (a + 1) + 1 ELSE 0
      /\ \A j \in 1 .. c - (a + 1) + 1 : SubSeq(buf, a + 1, c)[j] = buf[a + 1 + j - 1]
  BY <1>1, <1>2, SubSeqProperties
<1>4. Len(Bytes(a, c)) = c - a
  BY <1>1, <1>3 DEF Bytes
<1>5. ASSUME NEW k \in c .. Len(buf) PROVE Bytes(a, c) \o Bytes(c, k) = Bytes(a, k)
  <2>1. c \in (a + 1) - 1 .. Len(buf)
    BY <1>1
  <2> QED BY <1>1, <1>5, <2>1, ConcatAdjacentSubSeq DEF Bytes
<1>6. ASSUME NEW j \in 1 .. c - a PROVE Bytes(a, c)[j] = buf[a + j]
  <2>1. j \in 1 .. c - (a + 1) + 1 /\ a + 1 + j - 1 = a + j
    BY <1>1
  <2> QED BY <1>3, <2>1 DEF Bytes
<1> QED BY <1>3, <1>4, <1>5, <1>6 DEF Bytes

\* The piece that one turn of readLEB128 reads.
LEMMA OneByte ==
  ASSUME buf \in Seq(Byte), NEW a \in 0 .. Len(buf) - 1
  PROVE  buf[a + 1] \in Byte /\ Bytes(a, a + 1) = <<buf[a + 1]>>
<1>1. a \in Nat /\ a + 1 \in 1 .. Len(buf) /\ a + 1 \in a + 1 .. Len(buf) /\ Len(buf) \in Nat
  OBVIOUS
<1>2. buf[a + 1] \in Byte
  BY <1>1, ElementOfSeq
<1>3. SubSeq(buf, a + 1, a + 1) = <<buf[a + 1]>> \o SubSeq(buf, a + 2, a + 1)
  <2>1. (a + 1) + 1 = a + 2
    BY <1>1
  <2> QED BY <1>1, <2>1, SubSeqRecursiveFirst
<1>4. SubSeq(buf, a + 2, a + 1) = <<>>
  BY <1>1, SubSeqEmpty
<1>5. <<buf[a + 1]>> \o <<>> = <<buf[a + 1]>>
  <2>1. <<buf[a + 1]>> \in Seq(Byte)
    BY <1>2
  <2> QED BY <2>1, ConcatEmptySeq
<1> QED BY <1>2, <1>3, <1>4, <1>5 DEF Bytes

-----------------------------------------------------------------------------
(* The invariant: what has been read so far is the encoding of the fields  *)
(* decoded so far, and the digits of a prefix are those of all numbers     *)
(* that begin with them.                                                   *)

AtHeader == phase = "header" => off = 0 /\ i = 0 /\ n = 0 /\ fields = <<>>

\* However the number goes on (it does, after a first digit), its encoding begins
\* with the bytes that have been read of it.
AtPrefix ==
  phase = "prefix" =>
    /\ i < MaxPrefix /\ i <= off
    /\ n < Weight(i)
    /\ Bytes(0, off - i) = encode(fields)
    /\ \A m \in Nat : i = 0 \/ m # 0 =>
         leb128[n + m * Weight(i)] = Bytes(off - i, off) \o leb128[m]

AtValue ==
  phase = "value" =>
    /\ i < MaxPrefix /\ i < off
    /\ Bytes(0, off - i - 1) = encode(fields)
    /\ leb128[n] = Bytes(off - i - 1, off)

AtEnd ==
  /\ phase \in {"done", "ok"} => Bytes(0, off) = encode(fields)
  /\ phase = "ok" => off = Len(buf)

IInv == TypeOK /\ StaysInBounds /\ AtHeader /\ AtPrefix /\ AtValue /\ AtEnd

\* It holds before the header is read.
LEMMA InitInv == Init => IInv
<1> SUFFICES ASSUME Init PROVE IInv
  OBVIOUS
<1>1. buf \in Seq(Byte) /\ Len(buf) \in Nat
  BY WireConstants DEF Init
<1>2. TypeOK
  BY <1>1, EmptySeq DEF Init, TypeOK
<1>3. StaysInBounds
  <2>1. MaxPrefix \in Nat /\ Weight(MaxPrefix) \in Nat \ {0}
    BY WireConstants, Weights
  <2> QED BY <1>1, <2>1 DEF Init, StaysInBounds, Weight
<1> QED BY <1>2, <1>3 DEF Init, IInv, AtHeader, AtPrefix, AtValue, AtEnd

\* A refusal keeps the rest as it was.
LEMMA RefuseKeeps == IInv /\ Refuse => IInv'
BY DEF Refuse, IInv, TypeOK, StaysInBounds, AtHeader, AtPrefix, AtValue, AtEnd

\* Before the first digit of a prefix nothing is known of the number.
LEMMA NoDigitYet ==
  ASSUME buf \in Seq(Byte), NEW c \in 0 .. Len(buf)
  PROVE  0 < Weight(0) /\ \A m \in Nat : leb128[0 + m * Weight(0)] = Bytes(c, c) \o leb128[m]
<1>1. Bytes(c, c) = <<>>
  <2>1. c + 1 \in Int /\ c \in Int /\ c < c + 1
    OBVIOUS
  <2> QED BY <2>1, SubSeqEmpty DEF Bytes
<1>2. ASSUME NEW m \in Nat PROVE leb128[0 + m * Weight(0)] = Bytes(c, c) \o leb128[m]
  <2>1. 0 + m * Weight(0) = m
    BY Weights
  <2>2. <<>> \o leb128[m] = leb128[m]
    BY Leb128, ConcatEmptySeq
  <2> QED BY <1>1, <2>1, <2>2
<1> QED BY <1>2, Weights

\* newMessageReader consumes what encode writes before the first field.
LEMMA ReadHeaderKeeps == IInv /\ ReadHeader => IInv'
<1> SUFFICES ASSUME IInv, ReadHeader PROVE IInv'
  OBVIOUS
<1>1. CASE Refuse
  BY <1>1, RefuseKeeps
<1>2. CASE /\ IsPrefix(Header, buf)
           /\ off' = Len(Header)
           /\ phase' = "prefix"
           /\ UNCHANGED <<buf, i, n, fields>>
  <2>1. buf \in Seq(Byte) /\ TypeOK /\ StaysInBounds /\ i = 0 /\ n = 0 /\ fields = <<>>
    BY DEF ReadHeader, IInv, TypeOK, AtHeader
  <2>2. Header \in Seq(Byte) /\ Len(Header) \in 0 .. Len(buf) /\ MaxPrefix \in Nat \ {0}
    BY <1>2, <2>1, WireConstants DEF IsPrefix
  <2>3. Bytes(0, Len(Header)) = Header
    BY <1>2, <2>2, SubSeqFull DEF IsPrefix, Bytes
  <2>4. encode(<<>>) = Header
    BY <2>2, LvCatGrows, ConcatEmptySeq DEF encode
  <2>5. TypeOK' /\ StaysInBounds'
    BY <1>2, <2>1, <2>2 DEF TypeOK, StaysInBounds
  <2>6. AtPrefix'
    <3>1. 0 < Weight(0) /\ \A m \in Nat : leb128[0 + m * Weight(0)] = Bytes(Len(Header), Len(Header)) \o leb128[m]
      BY <2>1, <2>2, NoDigitYet
    <3>2. off' - i' = off' /\ i' < MaxPrefix /\ i' <= off'
      BY <1>2, <2>1, <2>2
    <3> QED BY <1>2, <2>1, <2>3, <2>4, <3>1, <3>2 DEF AtPrefix, Bytes
  <2> QED BY <1>2, <2>5, <2>6 DEF IInv, AtHeader, AtValue, AtEnd
<1> QED BY <1>1, <1>2 DEF ReadHeader

\* done adds that nothing is left.
LEMMA CheckTrailingKeeps == IInv /\ CheckTrailing => IInv'
<1> SUFFICES ASSUME IInv, CheckTrailing PROVE IInv'
  OBVIOUS
<1> USE DEF CheckTrailing, IInv
<1>1. TypeOK' /\ StaysInBounds'
  BY DEF TypeOK, StaysInBounds
<1>2. AtEnd'
  BY DEF AtEnd, Bytes
<1> QED BY <1>1, <1>2 DEF AtHeader, AtPrefix, AtValue

\* A byte that is read is one digit more of all the numbers the prefix may still become;
\* the last one, unless it is a superfluous zero, decides which.
LEMMA ReadPrefixByteKeeps == IInv /\ ReadPrefixByte => IInv'
<1> SUFFICES ASSUME IInv, ReadPrefixByte PROVE IInv'
  OBVIOUS
<1> DEFINE b == buf[off + 1]
           w == Weight(i)
           d == b % Radix
           value == n + d * w
<1>1. CASE Refuse
  BY <1>1, RefuseKeeps
<1>2. CASE off < Len(buf) /\ ~Refuse
  <2>1. TypeOK /\ StaysInBounds /\ AtPrefix /\ phase = "prefix"
    BY DEF IInv, ReadPrefixByte
  <2>2. buf \in Seq(Byte) /\ off \in Nat /\ i \in Nat /\ n \in Nat /\ Len(buf) \in Nat
    BY <2>1 DEF TypeOK
  <2>3. i < MaxPrefix /\ i <= off /\ n < w /\ Bytes(0, off - i) = encode(fields)
    BY <2>1 DEF AtPrefix
  <2>4. \A m \in Nat : i = 0 \/ m # 0 => leb128[n + m * w] = Bytes(off - i, off) \o leb128[m]
    BY <2>1 DEF AtPrefix
  <2>5. MaxPrefix \in Nat \ {0} /\ Radix \in Nat /\ Radix >= 2
    BY WireConstants, RadixAtLeastTwo
  <2>6. w \in Nat \ {0} /\ Weight(i + 1) = Radix * w /\ Weight(i + 1) <= Weight(MaxPrefix)
    <3>1. i \in 0 .. MaxPrefix /\ i + 1 \in 0 .. MaxPrefix /\ MaxPrefix \in 0 .. MaxPrefix
      BY <2>2, <2>3, <2>5
    <3> QED BY <3>1, Weights
  <2>7. Weight(MaxPrefix) \in Nat
    BY <2>5, Weights
  <2>8. b \in Byte /\ Bytes(off, off + 1) = <<b>>
    <3>1. off \in 0 .. Len(buf) - 1
      BY <1>2, <2>2
    <3> QED BY <2>2, <3>1, OneByte
  <2>9. b \in Nat /\ b < 2 * Radix
    BY <2>5, <2>8 DEF Byte
  <2>10. \/ /\ b >= Radix
            /\ off' = off + 1 /\ i' = i + 1 /\ n' = value
            /\ phase' = IF i + 1 < MaxPrefix THEN "prefix" ELSE "ErrMessage"
            /\ UNCHANGED <<buf, fields>>
         \/ /\ b < Radix
            /\ off' = off + 1 /\ i' = i /\ n' = value
            /\ phase' = IF i > 0 /\ value < w THEN "ErrMessage" ELSE "value"
            /\ UNCHANGED <<buf, fields>>
    BY <1>2 DEF ReadPrefixByte, Weight
  <2>11. b % Radix \in 0 .. Radix - 1 /\ b % Radix = IF b >= Radix THEN b - Radix ELSE b
    <3>1. CASE b >= Radix
      <4>1. b - Radix \in 0 .. Radix - 1 /\ (b - Radix) + 1 * Radix = b /\ 1 \in Nat
        BY <2>5, <2>9, <3>1
      <4>2. ((b - Radix) + 1 * Radix) % Radix = b - Radix
        BY <4>1, LastDigit
      <4> QED BY <3>1, <4>1, <4>2
    <3>2. CASE ~(b >= Radix)
      <4>1. b \in 0 .. Radix - 1 /\ b + 0 * Radix = b /\ 0 \in Nat
        BY <2>5, <2>9, <3>2
      <4>2. (b + 0 * Radix) % Radix = b
        BY <4>1, LastDigit
      <4> QED BY <3>2, <4>1, <4>2
    <3> QED BY <3>1, <3>2
  <2>12. d \in Nat /\ value \in Nat /\ value < Weight(i + 1)
    <3> HIDE DEF b, w, d
    <3>0. d \in 0 .. Radix - 1
      BY <2>11 DEF d
    <3>1. d * w \in Nat /\ d * w <= (Radix - 1) * w /\ (Radix - 1) * w = Radix * w - w
      BY <2>5, <2>6, <3>0
    <3> DEFINE x == d * w  y == Radix * w
    <3>2. x \in Nat /\ y \in Nat /\ x <= y - w
      BY <2>5, <2>6, <3>1
    <3>3. value = n + x /\ Weight(i + 1) = y
      BY <2>6
    <3> HIDE DEF value, x, y
    <3> QED BY <2>2, <2>3, <2>6, <3>0, <3>2, <3>3
  <2>13. n' = value /\ off' = off + 1 /\ buf' = buf /\ fields' = fields
    BY <2>10
  <2>14. StaysInBounds'
    <3>1. i' <= MaxPrefix
      BY <2>2, <2>3, <2>5, <2>10
    <3>2. n' < Radix ^ MaxPrefix
      <4>1. n' < Weight(MaxPrefix)
        <5> HIDE DEF value
        <5>1. Weight(i + 1) \in Nat
          BY <2>5, <2>6
        <5> QED BY <2>6, <2>7, <2>12, <2>13, <5>1
      <4> QED BY <4>1 DEF Weight
    <3> QED BY <1>2, <2>2, <2>13, <3>1, <3>2 DEF StaysInBounds
  <2>15. TypeOK'
    <3>1. off' \in Nat /\ i' \in Nat /\ n' \in Nat
      BY <2>2, <2>10, <2>12, <2>13
    <3> QED BY <2>1, <2>10, <3>1 DEF TypeOK
  <2>16. Bytes(off - i, off) \in Seq(Byte) /\ Bytes(off - i, off) \o <<b>> = Bytes(off - i, off + 1)
    <3>1. off - i \in Nat /\ off \in off - i .. Len(buf) /\ off + 1 \in off .. Len(buf)
      BY <1>2, <2>2, <2>3
    <3> QED BY <2>2, <2>8, <3>1, Pieces
  <2>17. AtPrefix'
    <3> SUFFICES ASSUME phase' = "prefix" PROVE AtPrefix'
      BY DEF AtPrefix
    <3>1. b >= Radix /\ i' = i + 1 /\ i + 1 < MaxPrefix
      BY <2>10
    <3>2. d + Radix = b
      BY <2>5, <2>9, <2>11, <3>1
    <3>3. ASSUME NEW m \in Nat, m # 0
          PROVE  leb128[value + m * Weight(i + 1)] = Bytes(off - i, off + 1) \o leb128[m]
      <4> DEFINE k == d + m * Radix
      <4>1. k \in Nat /\ k >= Radix
        <5> HIDE DEF d
        <5>1. m * Radix \in Nat /\ m * Radix >= Radix
          BY <2>5, <3>3
        <5> QED BY <2>5, <2>12, <5>1
      <4>2. k \div Radix = m /\ k % Radix = d
        BY <2>11, LastDigit
      <4>3. value + m * Weight(i + 1) = n + k * w
        <5> HIDE DEF b, w, d
        <5>1. (d + m * Radix) * w = d * w + m * (Radix * w)
          BY <2>5, <2>6, <2>12
        <5>2. d * w \in Nat /\ m * (Radix * w) \in Nat
          BY <2>5, <2>6, <2>12
        <5> QED BY <2>2, <2>6, <5>1, <5>2
      <4>4. leb128[k] = <<b>> \o leb128[m]
        <5>1. leb128[k] = <<(k % Radix) + Radix>> \o leb128[k \div Radix]
          <6> HIDE DEF k
          <6> QED BY <4>1, Leb128
        <5> QED BY <3>2, <4>2, <5>1
      <4>5. leb128[n + k * w] = Bytes(off - i, off) \o leb128[k]
        <5>1. k # 0
          BY <2>5, <4>1
        <5> HIDE DEF k
        <5> QED BY <2>4, <4>1, <5>1
      <4>6. (Bytes(off - i, off) \o <<b>>) \o leb128[m] = Bytes(off - i, off) \o (<<b>> \o leb128[m])
        <5>1. leb128[m] \in Seq(Byte)
          BY Leb128
        <5> HIDE DEF b
        <5>2. <<b>> \in Seq(Byte)
          BY <2>8
        <5> DEFINE before == Bytes(off - i, off)  middle == <<b>>  after == leb128[m]
        <5>3. before \in Seq(Byte) /\ middle \in Seq(Byte) /\ after \in Seq(Byte)
          BY <2>16, <5>1, <5>2
        <5> HIDE DEF before, middle, after
        <5>4. (before \o middle) \o after = before \o (middle \o after)
          BY <5>3, BytesRegroup
        <5> QED BY <5>4 DEF before, middle, after
      <4> QED BY <2>16, <4>3, <4>4, <4>5, <4>6
    <3>4. off' - i' = off - i /\ i' # 0 /\ i' <= off'
      BY <2>2, <2>3, <2>13, <3>1
    <3> HIDE DEF value
    <3> QED BY <2>3, <2>12, <2>13, <3>1, <3>3, <3>4 DEF AtPrefix, Bytes
  <2>18. AtValue'
    <3> SUFFICES ASSUME phase' = "value" PROVE AtValue'
      BY DEF AtValue
    <3>1. b < Radix /\ i' = i /\ ~(i > 0 /\ value < w)
      BY <2>10
    <3>2. d = b
      BY <2>5, <2>9, <2>11, <3>1
    <3>3. i = 0 \/ b # 0
      <4>1. b = 0 => value = n
        <5> HIDE DEF b, w
        <5> QED BY <2>2, <2>6, <3>2
      <4> QED BY <2>2, <2>3, <3>1, <4>1
    <3>4. leb128[value] = Bytes(off - i, off) \o leb128[b]
      <4>1. value = n + b * w
        BY <3>2
      <4> QED BY <2>4, <2>9, <3>3, <4>1
    <3>5. leb128[b] = <<b>>
      BY <2>9, <3>1, Leb128
    <3>6. off' - i' - 1 = off - i /\ i' < off' /\ i' < MaxPrefix
      BY <2>2, <2>3, <2>13, <3>1
    <3> HIDE DEF value
    <3> QED BY <2>3, <2>13, <2>16, <3>4, <3>5, <3>6 DEF AtValue, Bytes
  <2>19. phase' \in {"prefix", "value", "ErrMessage"}
    BY <2>10
  <2> QED BY <2>14, <2>15, <2>17, <2>18, <2>19 DEF IInv, AtHeader, AtEnd
<1> QED BY <1>1, <1>2 DEF ReadPrefixByte

\* One field more, encoded.
LEMMA EncodeGrows ==
  ASSUME NEW fs \in Seq(Seq(Byte)), NEW v \in Seq(Byte)
  PROVE  /\ encode(fs) \in Seq(Byte)
         /\ encode(Append(fs, v)) = encode(fs) \o lengthValue(v)
<1>1. Header \in Seq(Byte) /\ lvCat(fs) \in Seq(Byte) /\ lengthValue(v) \in Seq(Byte)
  BY WireConstants, LvCatGrows, FieldAndLength
<1>2. lvCat(Append(fs, v)) = lvCat(fs) \o lengthValue(v)
  BY LvCatGrows
<1> DEFINE before == lvCat(fs)  more == lengthValue(v)
<1>3. before \in Seq(Byte) /\ more \in Seq(Byte)
  BY <1>1
<1> HIDE DEF before, more
<1>4. (Header \o before) \o more = Header \o (before \o more)
  BY <1>1, <1>3, BytesRegroup
<1>5. Header \o before \in Seq(Byte)
  BY <1>1, <1>3, ConcatProperties
<1> QED BY <1>2, <1>4, <1>5 DEF encode, before, more

\* A field that is read completes the encoding of one field more.
LEMMA ReadValueKeeps == IInv /\ ReadValue => IInv'
<1> SUFFICES ASSUME IInv, ReadValue PROVE IInv'
  OBVIOUS
<1>1. CASE Refuse
  BY <1>1, RefuseKeeps
<1>2. CASE ~Refuse
  <2> DEFINE v == Bytes(off, off + n)
             start == off - i - 1
  <2>1. TypeOK /\ StaysInBounds /\ AtValue /\ phase = "value"
    BY DEF IInv, ReadValue
  <2>2. buf \in Seq(Byte) /\ off \in Nat /\ i \in Nat /\ n \in Nat /\ Len(buf) \in Nat
        /\ fields \in Seq(Seq(Byte)) /\ MaxPrefix \in Nat \ {0}
    BY <2>1, WireConstants DEF TypeOK
  <2>3. i < off /\ Bytes(0, start) = encode(fields) /\ leb128[n] = Bytes(start, off)
    BY <2>1 DEF AtValue
  <2>4. /\ n <= Len(buf) - off
        /\ fields' = Append(fields, v)
        /\ off' = off + n /\ i' = 0 /\ n' = 0 /\ buf' = buf
        /\ phase' \in {"prefix", "done"}
    BY <1>2 DEF ReadValue, Bytes
  <2>5. /\ start \in Nat /\ start \in 0 .. Len(buf) /\ off \in start .. Len(buf) /\ off + n \in off .. Len(buf)
        /\ off + n \in 0 .. Len(buf) /\ off + n \in Nat /\ (off + n) - off = n
    BY <2>2, <2>3, <2>4
  <2>6. v \in Seq(Byte) /\ Len(v) = n
    BY <2>2, <2>5, Pieces
  <2> HIDE DEF start, v
  <2>7. lengthValue(v) = Bytes(start, off + n)
    <3>1. Bytes(start, off) \o v = Bytes(start, off + n)
      BY <2>2, <2>5, Pieces DEF v
    <3> QED BY <2>3, <2>6, <3>1 DEF lengthValue
  <2>8. Bytes(0, off + n) = encode(Append(fields, v))
    <3>1. Bytes(0, start) \o Bytes(start, off + n) = Bytes(0, off + n)
      <4>1. 0 \in Nat /\ off + n \in start .. Len(buf)
        BY <2>2, <2>5
      <4> QED BY <2>2, <2>5, <4>1, Pieces
    <3> QED BY <2>2, <2>3, <2>6, <2>7, <3>1, EncodeGrows
  <2>9. TypeOK'
    <3>1. Append(fields, v) \in Seq(Seq(Byte))
      BY <2>2, <2>6, AppendProperties
    <3> QED BY <2>2, <2>4, <2>5, <3>1 DEF TypeOK
  <2>10. StaysInBounds'
    <3>1. Weight(MaxPrefix) \in Nat \ {0}
      BY <2>2, Weights
    <3>2. off' <= Len(buf') /\ i' <= MaxPrefix
      BY <2>2, <2>4, <2>5
    <3> QED BY <2>4, <3>1, <3>2 DEF StaysInBounds, Weight
  <2>11. AtPrefix'
    <3>1. 0 < Weight(0) /\ \A m \in Nat : leb128[0 + m * Weight(0)] = Bytes(off + n, off + n) \o leb128[m]
      BY <2>2, <2>5, NoDigitYet
    <3>2. off' - i' = off + n /\ i' < MaxPrefix /\ i' <= off'
      BY <2>2, <2>4
    <3> QED BY <2>4, <2>8, <3>1, <3>2 DEF AtPrefix, Bytes
  <2>12. AtEnd'
    BY <2>4, <2>8 DEF AtEnd, Bytes
  <2> QED BY <2>4, <2>9, <2>10, <2>11, <2>12 DEF IInv, AtHeader, AtValue
<1> QED BY <1>1, <1>2

\* Every step of the reader keeps it.
LEMMA StepInv == IInv /\ [Next]_vars => IInv'
<1> SUFFICES ASSUME IInv, [Next]_vars PROVE IInv'
  OBVIOUS
<1>1. CASE ReadHeader
  BY <1>1, ReadHeaderKeeps
<1>2. CASE ReadPrefixByte
  BY <1>2, ReadPrefixByteKeeps
<1>3. CASE ReadValue
  BY <1>3, ReadValueKeeps
<1>4. CASE CheckTrailing
  BY <1>4, CheckTrailingKeeps
<1>5. CASE UNCHANGED vars
  BY <1>5 DEF vars, IInv, TypeOK, StaysInBounds, AtHeader, AtPrefix, AtValue, AtEnd, Bytes
<1> QED BY <1>1, <1>2, <1>3, <1>4, <1>5 DEF Next

\* What the reader has consumed is always the encoding of what it has decoded.
THEOREM Invariance == Spec => []IInv
<1> QED BY InitInv, StepInv, PTL DEF Spec

\* No message makes the reader index or slice past its buffer, or a length overflow,
\* whatever its bytes: readLEB128 and readField look before they take.
THEOREM ReaderStaysInBounds == Spec => []StaysInBounds
<1>1. IInv => StaysInBounds
  BY DEF IInv
<1> QED BY Invariance, <1>1, PTL

\* A message that is accepted is the one string that encode makes of its fields, with
\* shortest prefixes and nothing after them, and as long as encode's capacity says.
THEOREM ReaderAcceptsOnlyEncodings == Spec => []AcceptsOnlyEncodings
<1>1. IInv => AcceptsOnlyEncodings
  <2> SUFFICES ASSUME IInv, phase = "ok"
               PROVE  buf = encode(fields) /\ Len(buf) = capacity([f \in DOMAIN fields |-> Len(fields[f])])
    BY DEF AcceptsOnlyEncodings
  <2>1. buf \in Seq(Byte) /\ fields \in Seq(Seq(Byte))
    BY DEF IInv, TypeOK
  <2>2. Bytes(0, Len(buf)) = encode(fields)
    BY DEF IInv, AtEnd
  <2>3. buf = encode(fields)
    BY <2>1, <2>2, SubSeqFull DEF Bytes
  <2> QED BY <2>1, <2>3, CapacityIsLength
<1> QED BY Invariance, <1>1, PTL

-----------------------------------------------------------------------------
(* Encodings of values within the caps.                                    *)

\* The encoding of the first k values begins that of all.
LEMMA EncodePrefixes ==
  ASSUME NEW vs \in Seq(Seq(Byte)), NEW k \in 0 .. Len(vs)
  PROVE  \E rest \in Seq(Byte) : encode(vs) = encode(SubSeq(vs, 1, k)) \o rest
<1> DEFINE first == encode(SubSeq(vs, 1, k))
           P == {t \in Nat : k + t <= Len(vs) =>
                   \E rest \in Seq(Byte) : encode(SubSeq(vs, 1, k + t)) = first \o rest}
<1>1. Len(vs) \in Nat /\ k \in Nat
  OBVIOUS
<1>2. ASSUME NEW m \in 0 .. Len(vs) PROVE SubSeq(vs, 1, m) \in Seq(Seq(Byte)) /\ Len(SubSeq(vs, 1, m)) = m
  <2>1. \A j \in 1 .. m : vs[j] \in Seq(Byte)
    OBVIOUS
  <2> QED BY <1>1, <2>1, SubSeqProperties
<1>3. first \in Seq(Byte)
  <2>1. <<>> \in Seq(Byte)
    BY EmptySeq
  <2> QED BY <1>2, <2>1, EncodeGrows
<1>4. 0 \in P
  <2>1. first \o <<>> = first /\ <<>> \in Seq(Byte)
    BY <1>3, ConcatEmptySeq, EmptySeq
  <2>2. k + 0 = k
    BY <1>1
  <2> HIDE DEF first
  <2> QED BY <2>1, <2>2 DEF first
<1>5. ASSUME NEW t \in P PROVE t + 1 \in P
  <2> HIDE DEF first
  <2> SUFFICES ASSUME k + (t + 1) <= Len(vs)
               PROVE  \E rest \in Seq(Byte) : encode(SubSeq(vs, 1, k + (t + 1))) = first \o rest
    <3>1. t + 1 \in Nat
      OBVIOUS
    <3> QED BY <3>1
  <2> DEFINE a == k + t  more == lengthValue(vs[a + 1])
  <2>1. a \in 0 .. Len(vs) /\ a + 1 \in 1 .. Len(vs) /\ k + (t + 1) = a + 1 /\ t \in Nat /\ k + t <= Len(vs)
    BY <1>1
  <2>2. PICK rest \in Seq(Byte) : encode(SubSeq(vs, 1, k + t)) = first \o rest
    BY <2>1
  <2> HIDE DEF a
  <2>3. vs[a + 1] \in Seq(Byte)
    BY <2>1
  <2>4. SubSeq(vs, 1, a + 1) = Append(SubSeq(vs, 1, a), vs[a + 1])
    <3>1. 1 \in 1 .. Len(vs) /\ a + 1 \in 1 .. Len(vs) /\ (a + 1) - 1 = a
      BY <1>1, <2>1
    <3>2. SubSeq(vs, 1, a + 1) = SubSeq(vs, 1, a) \o <<vs[a + 1]>>
      BY <3>1, SubSeqRecursiveSecond
    <3> QED BY <1>2, <2>1, <2>3, <3>2, AppendIsConcat
  <2>5. encode(SubSeq(vs, 1, a + 1)) = encode(SubSeq(vs, 1, a)) \o more
    BY <1>2, <2>1, <2>3, <2>4, EncodeGrows
  <2>6. more \in Seq(Byte)
    BY <2>3, FieldAndLength
  <2> HIDE DEF more
  <2>7. (first \o rest) \o more = first \o (rest \o more)
    <3>1. first \in Seq(Byte) /\ rest \in Seq(Byte) /\ more \in Seq(Byte)
      BY <1>3, <2>6
    <3> QED BY <3>1, BytesRegroup
  <2>8. rest \o more \in Seq(Byte)
    BY <2>6, ConcatProperties
  <2> QED BY <2>1, <2>2, <2>5, <2>7, <2>8 DEF a
<1>6. \A t \in Nat : t \in P
  <2> HIDE DEF P
  <2>1. P \in SUBSET Nat
    BY DEF P
  <2> QED BY <1>4, <1>5, <2>1, NumbersByInduction
<1>7. Len(vs) - k \in Nat /\ k + (Len(vs) - k) = Len(vs)
  BY <1>1
<1>8. \E rest \in Seq(Byte) : encode(SubSeq(vs, 1, k + (Len(vs) - k))) = first \o rest
  <2> HIDE DEF first
  <2>1. Len(vs) - k \in P
    BY <1>6, <1>7
  <2> QED BY <1>1, <1>7, <2>1
<1>9. SubSeq(vs, 1, Len(vs)) = vs
  BY SubSeqFull
<1> QED BY <1>7, <1>8, <1>9

\* Values that a peer may send, and whose encoding the buffer is.
EncodingOf(vs) ==
  /\ vs \in Seq(Seq(Byte)) /\ Len(vs) = Len(MessageSpec)
  /\ \A f \in 1 .. Len(vs) : ValidLength(MessageSpec[f], Len(vs[f]))
  /\ buf = encode(vs)

\* In the string s, the strings t and u follow one another after the first a elements.
LaidOut(s, a, t, u) ==
  /\ Len(t) \in Nat /\ Len(u) \in Nat /\ a + Len(t) + Len(u) <= Len(s)
  /\ \A j \in 1 .. Len(t) : s[a + j] = t[j]
  /\ \A j \in 1 .. Len(u) : s[a + Len(t) + j] = u[j]

\* Where the parts of a string are.
LEMMA Segments ==
  ASSUME NEW S, NEW before \in Seq(S), NEW t \in Seq(S), NEW u \in Seq(S), NEW rest \in Seq(S)
  PROVE  LaidOut((before \o (t \o u)) \o rest, Len(before), t, u)
<1> DEFINE middle == t \o u
           front == before \o middle
           s == front \o rest
           a == Len(before)
           l == Len(t)
           m == Len(u)
<1>1. a \in Nat /\ l \in Nat /\ m \in Nat /\ Len(rest) \in Nat
  OBVIOUS
<1>2. /\ middle \in Seq(S) /\ Len(middle) = l + m
      /\ \A j \in 1 .. l + m : middle[j] = IF j <= l THEN t[j] ELSE u[j - l]
  BY ConcatProperties
<1> HIDE DEF middle
<1>3. /\ front \in Seq(S) /\ Len(front) = a + Len(middle)
      /\ \A j \in 1 .. a + Len(middle) : front[j] = IF j <= a THEN before[j] ELSE middle[j - a]
  <2>1. middle \in Seq(S)
    BY <1>2
  <2> QED BY <2>1, ConcatProperties
<1> HIDE DEF front
<1>4. /\ Len(s) = Len(front) + Len(rest)
      /\ \A j \in 1 .. Len(front) + Len(rest) : s[j] = IF j <= Len(front) THEN front[j] ELSE rest[j - Len(front)]
  <2>1. front \in Seq(S)
    BY <1>3
  <2> QED BY <2>1, ConcatProperties
<1> HIDE DEF s, a, l, m
<1>5. Len(front) = a + (l + m)
  BY <1>2, <1>3
<1>6. ASSUME NEW j \in 1 .. l + m PROVE s[a + j] = middle[j]
  <2>1. /\ a + j \in 1 .. a + (l + m) /\ a + j \in 1 .. Len(front) + Len(rest)
        /\ a + j <= Len(front) /\ ~(a + j <= a) /\ (a + j) - a = j
    BY <1>1, <1>5
  <2>2. s[a + j] = front[a + j]
    BY <1>4, <2>1
  <2>3. front[a + j] = middle[j]
    BY <1>2, <1>3, <2>1
  <2> QED BY <2>2, <2>3
<1>7. ASSUME NEW j \in 1 .. l PROVE s[a + j] = t[j]
  <2>1. j \in 1 .. l + m /\ j <= l
    BY <1>1
  <2> QED BY <1>2, <1>6, <2>1
<1>8. ASSUME NEW j \in 1 .. m PROVE s[a + l + j] = u[j]
  <2>1. l + j \in 1 .. l + m /\ ~(l + j <= l) /\ (l + j) - l = j /\ a + l + j = a + (l + j)
    BY <1>1
  <2> QED BY <1>2, <1>6, <2>1
<1>9. a + l + m <= Len(s)
  BY <1>1, <1>4, <1>5
<1> QED BY <1>1, <1>7, <1>8, <1>9 DEF LaidOut, s, a, l, m, front, middle

\* Each value is in such a buffer, after its length, where the values before it end.
LEMMA ValueInBuffer ==
  ASSUME NEW vs, EncodingOf(vs), NEW k \in 0 .. Len(vs) - 1
  PROVE  /\ vs[k + 1] \in Seq(Byte)
         /\ LaidOut(buf, Len(encode(SubSeq(vs, 1, k))), leb128[Len(vs[k + 1])], vs[k + 1])
<1> DEFINE v == vs[k + 1]
           before == encode(SubSeq(vs, 1, k))
           digits == leb128[Len(v)]
<1>1. vs \in Seq(Seq(Byte)) /\ Len(vs) \in Nat /\ k \in Nat /\ k \in 0 .. Len(vs)
      /\ k + 1 \in 1 .. Len(vs) /\ k + 1 \in 0 .. Len(vs) /\ buf = encode(vs)
  BY DEF EncodingOf
<1>2. v \in Seq(Byte)
  BY <1>1
<1>3. SubSeq(vs, 1, k) \in Seq(Seq(Byte)) /\ SubSeq(vs, 1, k + 1) = Append(SubSeq(vs, 1, k), v)
  <2>1. \A j \in 1 .. k : vs[j] \in Seq(Byte)
    BY <1>1
  <2>2. SubSeq(vs, 1, k) \in Seq(Seq(Byte))
    BY <1>1, <2>1, SubSeqProperties
  <2>3. 1 \in 1 .. Len(vs) /\ (k + 1) - 1 = k
    BY <1>1
  <2>4. SubSeq(vs, 1, k + 1) = SubSeq(vs, 1, k) \o <<v>>
    BY <1>1, <2>3, SubSeqRecursiveSecond
  <2> QED BY <1>2, <2>2, <2>4, AppendIsConcat
<1>4. before \in Seq(Byte) /\ encode(SubSeq(vs, 1, k + 1)) = before \o lengthValue(v)
  BY <1>2, <1>3, EncodeGrows
<1>5. PICK rest \in Seq(Byte) : buf = (before \o (digits \o v)) \o rest
  BY <1>1, <1>4, EncodePrefixes DEF lengthValue
<1>6. digits \in Seq(Byte)
  <2>1. Len(v) \in Nat
    BY <1>2
  <2> HIDE DEF v
  <2> QED BY <2>1, Leb128
<1> HIDE DEF v, before, digits
<1>7. LaidOut(buf, Len(before), digits, v)
  <2>1. before \in Seq(Byte)
    BY <1>4
  <2> QED BY <1>2, <1>5, <1>6, <2>1, Segments
<1> QED BY <1>2, <1>7 DEF v, before, digits

\* A number below the weight of place d has at most d digits.
LEMMA DigitsNeeded ==
  \A d \in 1 .. MaxPrefix : \A k \in Nat : k < Weight(d) => leb128Len[k] <= d
<1> MaxPrefix \in Nat /\ Radix \in Nat /\ Radix >= 2
  BY WireConstants, RadixAtLeastTwo
<1> DEFINE P == {d \in Nat : d \in 1 .. MaxPrefix => \A k \in Nat : k < Weight(d) => leb128Len[k] <= d}
<1>1. 0 \in P
  OBVIOUS
<1>2. ASSUME NEW d \in P PROVE d + 1 \in P
  <2>1. d \in Nat /\ d + 1 \in Nat
    OBVIOUS
  <2> SUFFICES ASSUME d + 1 \in 1 .. MaxPrefix, NEW k \in Nat, k < Weight(d + 1)
               PROVE  leb128Len[k] <= d + 1
    BY <2>1
  <2>2. leb128Len[k] = IF k < Radix THEN 1 ELSE 1 + leb128Len[k \div Radix]
    BY Leb128LenUnfolds
  <2>3. CASE k < Radix
    BY <2>1, <2>2, <2>3
  <2>4. CASE ~(k < Radix)
    <3>1. d \in 0 .. MaxPrefix
      BY <2>1
    <3>2. Weight(d) \in Nat \ {0} /\ Weight(d + 1) = Radix * Weight(d) /\ Weight(0) = 1
      BY <3>1, Weights
    <3> DEFINE q == k \div Radix  w == Weight(d)
    <3>3. q \in Nat /\ k >= q * Radix
      <4>1. /\ k \div Radix \in Nat \ {0} /\ k \div Radix < k
            /\ k % Radix \in 0 .. Radix - 1 /\ k = (k \div Radix) * Radix + (k % Radix)
        BY <2>4, Quotient
      <4> DEFINE r == k % Radix
      <4>2. q \in Nat /\ r \in Nat /\ k = q * Radix + r
        BY <4>1
      <4> HIDE DEF q, r
      <4>3. q * Radix \in Nat
        BY <4>2
      <4> QED BY <4>2, <4>3
    <3> HIDE DEF q, w
    <3>4. q < w
      <4> SUFFICES ASSUME q >= w PROVE FALSE
        BY <3>2, <3>3 DEF w
      <4>1. w \in Nat /\ q * Radix >= w * Radix /\ w * Radix = Radix * w
        BY <3>2, <3>3 DEF w
      <4>2. k < Radix * w
        BY <3>2 DEF w
      <4>3. q * Radix \in Nat /\ Radix * w \in Nat
        BY <3>3, <4>1
      <4> QED BY <3>3, <4>1, <4>2, <4>3
    <3>5. d # 0
      <4>1. d = 0 => k < Radix
        BY <3>2
      <4> QED BY <2>4, <4>1
    <3>6. leb128Len[q] <= d
      <4>1. d \in 1 .. MaxPrefix
        BY <3>1, <3>5
      <4>2. \A x \in Nat : x < Weight(d) => leb128Len[x] <= d
        BY <4>1
      <4> QED BY <3>3, <3>4, <4>2 DEF w
    <3>7. leb128Len[q] \in Nat
      BY <3>3, Leb128
    <3> QED BY <2>1, <2>2, <2>4, <3>6, <3>7 DEF q
  <2> QED BY <2>3, <2>4
<1>3. \A d \in Nat : d \in P
  <2> HIDE DEF P
  <2>1. P \in SUBSET Nat
    BY DEF P
  <2> QED BY <1>1, <1>2, <2>1, NumbersByInduction
<1> QED BY <1>3

\* No valid message reaches the aggregate cap.
LEMMA FitsAggregateCap ==
  ASSUME NEW vs, EncodingOf(vs)
  PROVE  Len(buf) <= MaxMessage
<1> DEFINE a == Len(vs)
           Eq(g) == g = [f \in 0 .. Len(MessageSpec) |->
                           IF f = 0 THEN Len(Header) ELSE g[f - 1] + MaxPrefix + MessageSpec[f].length]
           c == CHOOSE h : Eq(h)
           next == [p \in (1 .. a) \X Nat |-> p[2] + MaxPrefix + MessageSpec[p[1]].length]
<1>1. /\ vs \in Seq(Seq(Byte)) /\ a \in Nat /\ a = Len(MessageSpec)
      /\ MaxPrefix \in Nat \ {0} /\ Header \in Seq(Byte) /\ Len(Header) \in Nat /\ MaxMessage \in Nat
  BY WireConstants DEF EncodingOf
<1>2. ASSUME NEW k \in 1 .. a
      PROVE  /\ MessageSpec[k].length \in Nat /\ Len(vs[k]) \in Nat
             /\ lengthValueLen(Len(vs[k])) \in Nat
             /\ lengthValueLen(Len(vs[k])) <= MaxPrefix + MessageSpec[k].length
  <2>1. MessageSpec[k] \in [length : Nat, exact : BOOLEAN] /\ k \in DOMAIN MessageSpec
    <3>1. MessageSpec \in Seq([length : Nat, exact : BOOLEAN]) /\ k \in 1 .. Len(MessageSpec)
      BY <1>1, WireConstants
    <3> QED BY <3>1, ElementOfSeq, LenProperties
  <2>2. vs[k] \in Seq(Byte)
    BY <1>1
  <2>3. Len(vs[k]) <= MessageSpec[k].length /\ Len(vs[k]) \in Nat /\ MessageSpec[k].length \in Nat
    <3>1. ValidLength(MessageSpec[k], Len(vs[k]))
      BY DEF EncodingOf
    <3> QED BY <2>1, <2>2, <3>1 DEF ValidLength
  <2>4. Len(vs[k]) < Weight(MaxPrefix)
    <3>1. MessageSpec[k].length < Weight(MaxPrefix)
      BY <2>1, PrefixCoversCaps DEF Weight
    <3>2. Weight(MaxPrefix) \in Nat
      BY <1>1, Weights
    <3> QED BY <2>3, <3>1, <3>2
  <2>5. leb128Len[Len(vs[k])] <= MaxPrefix /\ leb128Len[Len(vs[k])] \in Nat
    <3>1. MaxPrefix \in 1 .. MaxPrefix
      BY <1>1
    <3> QED BY <2>3, <2>4, <3>1, DigitsNeeded, Leb128
  <2> QED BY <1>1, <2>3, <2>5 DEF lengthValueLen
<1>3. PICK g : LvLoop(vs, g) /\ lvCat(vs) = g[a]
  BY <1>1, LvCatLoops
<1>4. PICK h : LoopOf(Nat, a, Len(Header), next, h)
  <2>1. next \in [(1 .. a) \X Nat -> Nat]
    <3> HIDE DEF a
    <3>1. ASSUME NEW k \in 1 .. a, NEW x \in Nat PROVE x + MaxPrefix + MessageSpec[k].length \in Nat
      <4>1. MessageSpec[k].length \in Nat
        BY <1>2
      <4> QED BY <1>1, <4>1
    <3> QED BY <3>1
  <2> HIDE DEF next, a
  <2> QED BY <1>1, <2>1, LoopExists
<1> HIDE DEF a
<1>5. /\ h \in [0 .. a -> Nat] /\ h[0] = Len(Header)
      /\ \A k \in 1 .. a : k - 1 \in 0 .. a /\ h[k] = h[k - 1] + MaxPrefix + MessageSpec[k].length
  <2>1. h \in [0 .. a -> Nat] /\ h[0] = Len(Header)
    BY <1>4 DEF LoopOf
  <2>2. ASSUME NEW k \in 1 .. a PROVE k - 1 \in 0 .. a /\ h[k] = h[k - 1] + MaxPrefix + MessageSpec[k].length
    <3>1. k - 1 \in 0 .. a
      BY <1>1
    <3>2. <<k, h[k - 1]>> \in (1 .. a) \X Nat
      BY <2>1, <3>1
    <3>3. h[k] = next[<<k, h[k - 1]>>]
      BY <1>4 DEF LoopOf
    <3> QED BY <3>1, <3>2, <3>3
  <2> QED BY <2>1, <2>2
<1> HIDE DEF next
<1>6. Eq(h)
  <2>1. \A f \in 0 .. a : h[f] = IF f = 0 THEN Len(Header) ELSE h[f - 1] + MaxPrefix + MessageSpec[f].length
    <3> TAKE f \in 0 .. a
    <3>1. f = 0 \/ f \in 1 .. a
      BY <1>1
    <3> QED BY <1>5, <3>1
  <2> QED BY <1>1, <1>5, <2>1
<1>7. Eq(c)
  <2> HIDE DEF Eq
  <2> QED BY <1>6
<1>8. maxValidMessageLength = c[a]
  BY <1>1 DEF maxValidMessageLength
<1> HIDE DEF c
<1>9. SameUpTo(a, c, h)
  <2>1. c[0] = h[0]
    BY <1>1, <1>5, <1>7
  <2>2. \A k \in 1 .. a : c[k - 1] = h[k - 1] => c[k] = h[k]
    <3> TAKE k \in 1 .. a
    <3>1. k \in 0 .. Len(MessageSpec) /\ k # 0
      BY <1>1
    <3>2. c[k] = c[k - 1] + MaxPrefix + MessageSpec[k].length
      BY <1>7, <3>1
    <3> QED BY <1>5, <3>2
  <2>3. GoAlike(a, c, h)
    BY <2>1, <2>2 DEF GoAlike
  <2> QED BY <1>1, <2>3, LoopsAgree
<1> DEFINE P == {k \in Nat : k <= a => Len(Header) + Len(g[k]) <= h[k]}
<1>10. 0 \in P
  BY <1>1, <1>3, <1>5, EmptySeq DEF LvLoop
<1>11. ASSUME NEW k \in P PROVE k + 1 \in P
  <2> SUFFICES ASSUME k + 1 <= a PROVE Len(Header) + Len(g[k + 1]) <= h[k + 1]
    <3>1. k + 1 \in Nat
      OBVIOUS
    <3> QED BY <3>1
  <2>1. k \in 0 .. a /\ k + 1 \in 1 .. a /\ (k + 1) - 1 = k /\ Len(Header) + Len(g[k]) <= h[k]
    BY <1>1
  <2>2. g[k + 1] = g[k] \o lengthValue(vs[k + 1]) /\ g[k] \in Seq(Byte)
    <3>1. k + 1 \in 1 .. Len(vs) /\ k \in 0 .. Len(vs)
      BY <2>1 DEF a
    <3> QED BY <1>3, <2>1, <3>1 DEF LvLoop
  <2>3. vs[k + 1] \in Seq(Byte)
    BY <1>1, <2>1 DEF a
  <2>4. lengthValue(vs[k + 1]) \in Seq(Byte)
        /\ Len(lengthValue(vs[k + 1])) = lengthValueLen(Len(vs[k + 1]))
    BY <2>3, FieldAndLength
  <2>5. Len(g[k + 1]) = Len(g[k]) + lengthValueLen(Len(vs[k + 1])) /\ Len(g[k]) \in Nat
    <3>1. Len(g[k] \o lengthValue(vs[k + 1])) = Len(g[k]) + Len(lengthValue(vs[k + 1]))
      BY <2>2, <2>4, ConcatProperties
    <3>2. Len(g[k]) \in Nat
      BY <2>2
    <3> QED BY <2>2, <2>4, <3>1, <3>2
  <2>6. h[k + 1] = h[k] + MaxPrefix + MessageSpec[k + 1].length /\ h[k] \in Nat
    BY <1>5, <2>1
  <2> DEFINE more == lengthValueLen(Len(vs[k + 1]))  room == MessageSpec[k + 1].length
  <2>7. more \in Nat /\ room \in Nat /\ more <= MaxPrefix + room
    BY <1>2, <2>1
  <2> HIDE DEF more, room
  <2>8. Len(g[k + 1]) = Len(g[k]) + more /\ h[k + 1] = h[k] + MaxPrefix + room
    BY <2>5, <2>6 DEF more, room
  <2> DEFINE x == Len(Header)  y == Len(g[k])  z == h[k]
  <2>9. x \in Nat /\ y \in Nat /\ z \in Nat /\ x + y <= z /\ MaxPrefix \in Nat
    BY <1>1, <2>1, <2>5, <2>6
  <2>10. Len(g[k + 1]) = y + more /\ h[k + 1] = z + MaxPrefix + room
    BY <2>8
  <2> HIDE DEF x, y, z
  <2>11. x + (y + more) <= z + MaxPrefix + room
    BY <2>7, <2>9
  <2> QED BY <2>10, <2>11 DEF x
<1>12. \A k \in Nat : k \in P
  <2> HIDE DEF P
  <2>1. P \in SUBSET Nat
    BY DEF P
  <2> QED BY <1>10, <1>11, <2>1, NumbersByInduction
<1>13. Len(Header) + Len(g[a]) <= h[a] /\ h[a] = maxValidMessageLength /\ h[a] \in Nat
  <2>1. a \in 0 .. a /\ a <= a
    BY <1>1
  <2> QED BY <1>1, <1>5, <1>8, <1>9, <1>12, <2>1 DEF SameUpTo
<1>14. Len(buf) = Len(Header) + Len(g[a]) /\ Len(buf) \in Nat
  <2>1. buf = Header \o lvCat(vs) /\ lvCat(vs) \in Seq(Byte)
    BY <1>1, LvCatGrows, EmptySeq DEF EncodingOf, encode
  <2>2. Len(Header \o lvCat(vs)) = Len(Header) + Len(lvCat(vs)) /\ Len(lvCat(vs)) \in Nat
    BY <1>1, <2>1, ConcatProperties
  <2> QED BY <1>1, <1>3, <2>1, <2>2
<1> QED BY <1>1, <1>13, <1>14, AggregateCapCoversFields

\* A function on the first numbers is a sequence.
LEMMA FunctionIsSeq ==
  ASSUME NEW S, NEW k \in Nat, NEW s \in [1 .. k -> S]
  PROVE  s \in Seq(S) /\ Len(s) = k /\ DOMAIN s = 1 .. k
OBVIOUS

\* A value ends where capacity says, which leaves room for it in front.
LEMMA CapacityOfFirst ==
  ASSUME NEW vs \in Seq(Seq(Byte)), NEW lengths, lengths = [f \in DOMAIN vs |-> Len(vs[f])],
         NEW k \in 1 .. Len(vs)
  PROVE  LET end == capacity(SubSeq(lengths, 1, k))
         IN  end \in Nat /\ Len(vs[k]) <= end /\ end <= capacity(lengths)
<1> DEFINE first == SubSeq(vs, 1, k)
           end == capacity(SubSeq(lengths, 1, k))
<1>1. Len(vs) \in Nat /\ k \in Nat /\ k \in 0 .. Len(vs) /\ k - 1 \in 0 .. Len(vs) /\ DOMAIN vs = 1 .. Len(vs)
  OBVIOUS
<1>2. \A j \in 1 .. Len(vs) : vs[j] \in Seq(Byte) /\ Len(vs[j]) \in Nat /\ lengths[j] = Len(vs[j])
  <2> TAKE j \in 1 .. Len(vs)
  <2>1. vs[j] \in Seq(Byte)
    OBVIOUS
  <2> QED BY <1>1, <2>1
<1>3. lengths \in Seq(Nat) /\ Len(lengths) = Len(vs)
  <2>1. lengths = [j \in 1 .. Len(vs) |-> Len(vs[j])]
    BY <1>1
  <2> QED BY <1>1, <1>2, <2>1
<1>4. \A m \in 0 .. Len(vs) : SubSeq(vs, 1, m) \in Seq(Seq(Byte)) /\ Len(SubSeq(vs, 1, m)) = m
  <2> TAKE m \in 0 .. Len(vs)
  <2>1. \A j \in 1 .. m : vs[j] \in Seq(Byte)
    BY <1>1
  <2> QED BY <1>1, <2>1, SubSeqProperties
<1>5. SubSeq(lengths, 1, k) = [f \in DOMAIN first |-> Len(first[f])]
  <2>1. first \in Seq(Seq(Byte)) /\ Len(first) = k /\ DOMAIN first = 1 .. k
    BY <1>1, <1>4, LenProperties
  <2>2. \A j \in 1 .. k : first[j] = vs[j]
    BY <1>1
  <2>3. SubSeq(lengths, 1, k) = [j \in 1 .. k |-> lengths[j]]
    BY <1>1, <1>3
  <2> HIDE DEF first
  <2>4. \A j \in 1 .. k : lengths[j] = Len(first[j])
    BY <1>1, <1>2, <2>2
  <2> QED BY <2>1, <2>3, <2>4
<1>6. end = Len(encode(first)) /\ encode(first) \in Seq(Byte)
  BY <1>1, <1>4, <1>5, CapacityIsLength
<1>7. capacity(lengths) = Len(encode(vs)) /\ encode(vs) \in Seq(Byte)
  BY CapacityIsLength
<1>8. end <= capacity(lengths) /\ end \in Nat
  <2>1. PICK rest \in Seq(Byte) : encode(vs) = encode(first) \o rest
    BY <1>1, EncodePrefixes
  <2> HIDE DEF end, first
  <2>2. Len(encode(vs)) = Len(encode(first)) + Len(rest)
    BY <1>6, <2>1, ConcatProperties
  <2> QED BY <1>6, <1>7, <2>2
<1>9. Len(vs[k]) <= end
  <2> DEFINE before == encode(SubSeq(vs, 1, k - 1))
             more == lengthValue(vs[k])
  <2>1. first = Append(SubSeq(vs, 1, k - 1), vs[k])
    <3>1. 1 \in 1 .. Len(vs) /\ k \in 1 .. Len(vs)
      BY <1>1
    <3>2. first = SubSeq(vs, 1, k - 1) \o <<vs[k]>>
      BY <3>1, SubSeqRecursiveSecond
    <3> QED BY <1>1, <1>2, <1>4, <3>2, AppendIsConcat
  <2>2. encode(first) = before \o more /\ before \in Seq(Byte)
    BY <1>1, <1>2, <1>4, <2>1, EncodeGrows
  <2>3. more \in Seq(Byte) /\ Len(more) = leb128Len[Len(vs[k])] + Len(vs[k])
        /\ leb128Len[Len(vs[k])] \in Nat
    BY <1>2, FieldAndLength, Leb128 DEF lengthValueLen
  <2> HIDE DEF before, more, first, end
  <2>4. Len(before \o more) = Len(before) + Len(more) /\ Len(before) \in Nat
    <3>1. before \in Seq(Byte) /\ more \in Seq(Byte)
      BY <2>2, <2>3
    <3>2. Len(before \o more) = Len(before) + Len(more)
      BY <3>1, ConcatProperties
    <3> QED BY <3>1, <3>2, LenProperties
  <2> QED BY <1>2, <1>6, <2>2, <2>3, <2>4
<1> QED BY <1>8, <1>9

\* What the decoder is to accept is the encoding of values within the caps.
LEMMA EncodingHasValues ==
  ASSUME buf \in Seq(Byte), IsEncoding
  PROVE  \E vs : EncodingOf(vs)
<1> DEFINE N == Len(MessageSpec)
           Lengths(field) == IF field.exact THEN {field.length} ELSE 0 .. field.length
<1>1. PICK lengths \in [DOMAIN MessageSpec -> UNION {Lengths(MessageSpec[f]) : f \in DOMAIN MessageSpec}] :
        /\ \A f \in DOMAIN MessageSpec : lengths[f] \in Lengths(MessageSpec[f])
        /\ Len(buf) = capacity(lengths)
        /\ buf = encode(Cut(lengths))
  BY DEF IsEncoding
<1>2. N \in Nat /\ DOMAIN MessageSpec = 1 .. N /\ DOMAIN lengths = 1 .. N
      /\ MessageSpec \in Seq([length : Nat, exact : BOOLEAN])
  BY WireConstants
<1>3. ASSUME NEW f \in 1 .. N PROVE lengths[f] \in Nat /\ ValidLength(MessageSpec[f], lengths[f])
  <2>1. MessageSpec[f] \in [length : Nat, exact : BOOLEAN]
    <3>1. f \in 1 .. Len(MessageSpec)
      OBVIOUS
    <3> QED BY <1>2, <3>1, ElementOfSeq
  <2>2. lengths[f] \in IF MessageSpec[f].exact THEN {MessageSpec[f].length} ELSE 0 .. MessageSpec[f].length
    BY <1>1, <1>2
  <2> QED BY <2>1, <2>2 DEF ValidLength
<1> DEFINE zeros == [f \in 1 .. N |-> [j \in 1 .. lengths[f] |-> 0]]
<1> HIDE DEF N, Lengths
<1>4. zeros \in Seq(Seq(Byte)) /\ Len(zeros) = N /\ DOMAIN zeros = 1 .. N
      /\ \A f \in 1 .. N : Len(zeros[f]) = lengths[f]
  <2>1. \A f \in 1 .. N : [j \in 1 .. lengths[f] |-> 0] \in Seq(Byte) /\ Len([j \in 1 .. lengths[f] |-> 0]) = lengths[f]
    <3> TAKE f \in 1 .. N
    <3>1. lengths[f] \in Nat /\ 0 \in Byte
      BY <1>3, RadixAtLeastTwo DEF Byte
    <3> QED BY <3>1
  <2> DEFINE row(f) == [j \in 1 .. lengths[f] |-> 0]
  <2>2. zeros = [f \in 1 .. N |-> row(f)] /\ \A f \in 1 .. N : row(f) \in Seq(Byte) /\ Len(row(f)) = lengths[f]
    BY <2>1
  <2> HIDE DEF row, zeros
  <2>3. zeros \in [1 .. N -> Seq(Byte)]
    BY <2>2
  <2>4. zeros \in Seq(Seq(Byte)) /\ Len(zeros) = N /\ DOMAIN zeros = 1 .. N
    BY <1>2, <2>3, FunctionIsSeq
  <2> QED BY <2>2, <2>4
<1>5. lengths = [f \in DOMAIN zeros |-> Len(zeros[f])]
  <2>1. lengths = [f \in 1 .. N |-> lengths[f]]
    BY <1>1, <1>2
  <2> HIDE DEF zeros
  <2> QED BY <1>4, <2>1
<1> DEFINE end(f) == capacity(SubSeq(lengths, 1, f))
           vs == Cut(lengths)
<1>6. ASSUME NEW f \in 1 .. N
      PROVE  vs[f] \in Seq(Byte) /\ Len(vs[f]) = lengths[f]
  <2>1. end(f) \in Nat /\ lengths[f] <= end(f) /\ end(f) <= Len(buf)
    <3> HIDE DEF zeros
    <3>1. f \in 1 .. Len(zeros)
      BY <1>4
    <3>2. capacity(SubSeq(lengths, 1, f)) \in Nat /\ Len(zeros[f]) <= capacity(SubSeq(lengths, 1, f))
          /\ capacity(SubSeq(lengths, 1, f)) <= capacity(lengths)
      BY <1>4, <1>5, <3>1, CapacityOfFirst
    <3> QED BY <1>1, <1>4, <3>2
  <2>2. vs[f] = SubSeq(buf, end(f) - lengths[f] + 1, end(f))
    BY <1>2 DEF Cut
  <2> HIDE DEF end, vs, zeros
  <2> DEFINE e == end(f)  l == lengths[f]
  <2>3. e \in Nat /\ l \in Nat /\ l <= e /\ e <= Len(buf) /\ Len(buf) \in Nat
    BY <1>3, <2>1
  <2> HIDE DEF e, l
  <2>4. \A j \in e - l + 1 .. e : buf[j] \in Byte
    <3> TAKE j \in e - l + 1 .. e
    <3>1. j \in 1 .. Len(buf)
      BY <2>3
    <3> QED BY <3>1, ElementOfSeq
  <2>5. SubSeq(buf, e - l + 1, e) \in Seq(Byte)
        /\ Len(SubSeq(buf, e - l + 1, e)) = IF e - l + 1 <= e THEN e - (e - l + 1) + 1 ELSE 0
    <3>1. e - l + 1 \in Int /\ e \in Int
      BY <2>3
    <3> QED BY <2>4, <3>1, SubSeqProperties
  <2>6. Len(SubSeq(buf, e - l + 1, e)) = l
    BY <2>3, <2>5
  <2> QED BY <2>2, <2>5, <2>6 DEF e, l
<1>7. vs \in Seq(Seq(Byte)) /\ Len(vs) = N
  <2>1. vs = [f \in 1 .. N |-> vs[f]]
    BY <1>2 DEF Cut
  <2> HIDE DEF vs, zeros
  <2>2. \A f \in 1 .. N : vs[f] \in Seq(Byte)
    BY <1>6
  <2>3. vs \in [1 .. N -> Seq(Byte)]
    BY <2>1, <2>2
  <2> QED BY <1>2, <2>3, FunctionIsSeq
<1>8. EncodingOf(vs)
  <2>1. buf = encode(vs)
    BY <1>1
  <2> HIDE DEF vs, zeros
  <2> QED BY <1>3, <1>6, <1>7, <2>1 DEF EncodingOf, N
<1> QED BY <1>8

-----------------------------------------------------------------------------
(* Where the decoder stands in the encoding of the values vs.              *)

Track(vs) ==
  /\ phase # "ErrMessage"
  /\ fields = SubSeq(vs, 1, Len(fields))
  /\ phase \in {"prefix", "value"} => Len(fields) < Len(vs)
  /\ phase = "done" => fields = vs
  /\ phase = "prefix" =>
       \E m \in Nat : (i = 0 \/ m # 0) /\ Len(vs[Len(fields) + 1]) = n + m * Weight(i)
  /\ phase = "value" => n = Len(vs[Len(fields) + 1])

OnTrack == \A vs : EncodingOf(vs) => Track(vs)

\* Before the header is read nothing has gone wrong.
LEMMA InitOnTrack == Init => OnTrack
<1> SUFFICES ASSUME Init, NEW vs, EncodingOf(vs) PROVE Track(vs)
  BY DEF OnTrack
<1>1. SubSeq(vs, 1, Len(<<>>)) = <<>>
  BY EmptySeq, SubSeqEmpty
<1> QED BY <1>1 DEF Init, Track

\* The header is the expected one, and the aggregate cap is not reached.
LEMMA HeaderOnTrack ==
  ASSUME IInv, NEW vs, EncodingOf(vs), Track(vs), ReadHeader PROVE Track(vs)'
<1>1. /\ phase = "header" /\ fields = <<>> /\ i = 0 /\ n = 0
      /\ vs \in Seq(Seq(Byte)) /\ Len(vs) \in Nat \ {0} /\ buf = encode(vs)
  BY WireConstants, EmptySeq DEF ReadHeader, IInv, AtHeader, EncodingOf
<1>2. IsPrefix(Header, buf)
  <2>1. Header \in Seq(Byte) /\ Len(Header) \in Nat /\ lvCat(vs) \in Seq(Byte)
    <3>1. <<>> \in Seq(Byte)
      BY EmptySeq
    <3> QED BY <1>1, <3>1, WireConstants, LvCatGrows
  <2> DEFINE s == lvCat(vs)
  <2>2. buf = Header \o s
    BY <1>1 DEF encode
  <2> HIDE DEF s
  <2>3. s \in Seq(Byte)
    BY <2>1 DEF s
  <2>4. /\ Header \o s \in Seq(Byte)
        /\ Len(Header \o s) = Len(Header) + Len(s)
        /\ \A j \in 1 .. Len(Header) + Len(s) :
             (Header \o s)[j] = IF j <= Len(Header) THEN Header[j] ELSE s[j - Len(Header)]
    BY <2>1, <2>3, ConcatProperties
  <2>5. Len(s) \in Nat
    BY <2>3
  <2>6. Len(Header) <= Len(buf) /\ \A j \in 1 .. Len(Header) : buf[j] = Header[j]
    BY <2>1, <2>2, <2>4, <2>5
  <2>7. SubSeq(buf, 1, Len(Header)) = Header
    <3>1. \A j \in 1 .. Len(Header) : buf[j] \in Byte
      BY <2>1, <2>6, ElementOfSeq
    <3>2. /\ SubSeq(buf, 1, Len(Header)) \in Seq(Byte)
          /\ Len(SubSeq(buf, 1, Len(Header))) = Len(Header)
          /\ \A j \in 1 .. Len(Header) : SubSeq(buf, 1, Len(Header))[j] = buf[j]
      BY <2>1, <3>1, SubSeqProperties
    <3> QED BY <2>1, <2>6, <3>2, SeqEqual
  <2> QED BY <2>1, <2>6, <2>7, SubSeqFull DEF IsPrefix
<1>3. Len(buf) <= MaxMessage /\ Len(buf) \in Nat /\ MaxMessage \in Nat
  BY FitsAggregateCap, WireConstants DEF IInv, TypeOK
<1>4. phase' = "prefix" /\ fields' = fields /\ i' = i /\ n' = n
  BY <1>2, <1>3 DEF ReadHeader
<1>5. Len(vs[1]) \in Nat
  <2>1. vs[1] \in Seq(Byte)
    BY <1>1
  <2> QED BY <2>1
<1>6. fields' = SubSeq(vs, 1, Len(fields')) /\ Len(fields') = 0
  BY <1>1, <1>4, EmptySeq, SubSeqEmpty
<1>7. Len(vs[Len(fields') + 1]) = n' + Len(vs[1]) * Weight(i')
  <2>1. Weight(0) = 1
    BY Weights
  <2> QED BY <1>1, <1>4, <1>5, <1>6, <2>1
<1> QED BY <1>1, <1>4, <1>5, <1>6, <1>7 DEF Track, Weight

\* Nothing is left after the last value.
LEMMA TrailingOnTrack ==
  ASSUME IInv, NEW vs, EncodingOf(vs), Track(vs), CheckTrailing PROVE Track(vs)'
<1>1. phase = "done" /\ fields = vs /\ Bytes(0, off) = encode(vs) /\ buf = encode(vs)
  BY DEF CheckTrailing, Track, IInv, AtEnd, EncodingOf
<1>2. off = Len(buf)
  <2>1. buf \in Seq(Byte) /\ off \in 0 .. Len(buf) /\ 0 \in Nat
    BY DEF IInv, TypeOK, StaysInBounds
  <2>2. Len(Bytes(0, off)) = off - 0
    BY <2>1, Pieces
  <2> QED BY <1>1, <2>1, <2>2
<1> QED BY <1>2 DEF CheckTrailing, Track

\* The next byte is there, it is the next digit of the value's length, and the digits do
\* not run out before the prefix does.
LEMMA PrefixOnTrack ==
  ASSUME IInv, NEW vs, EncodingOf(vs), Track(vs), ReadPrefixByte PROVE Track(vs)'
<1> DEFINE k == Len(fields)
           v == vs[k + 1]
           w == Weight(i)
           a == off - i
           digits == leb128[Len(v)]
<1>1. /\ buf \in Seq(Byte) /\ Len(buf) \in Nat /\ off \in Nat /\ i \in Nat /\ n \in Nat
      /\ fields \in Seq(Seq(Byte)) /\ k \in Nat
      /\ vs \in Seq(Seq(Byte)) /\ Len(vs) \in Nat /\ Len(vs) = Len(MessageSpec)
      /\ MaxPrefix \in Nat \ {0} /\ Radix \in Nat /\ Radix >= 2
  BY WireConstants, RadixAtLeastTwo DEF IInv, TypeOK, EncodingOf
<1>2. /\ off <= Len(buf) /\ i < MaxPrefix /\ i <= off /\ Bytes(0, a) = encode(fields)
      /\ \A m \in Nat : i = 0 \/ m # 0 => leb128[n + m * w] = Bytes(a, off) \o leb128[m]
  BY DEF ReadPrefixByte, IInv, StaysInBounds, AtPrefix
<1>3. phase = "prefix" /\ fields = SubSeq(vs, 1, k) /\ k < Len(vs)
  BY DEF ReadPrefixByte, Track
<1>4. PICK m \in Nat : (i = 0 \/ m # 0) /\ Len(v) = n + m * w
  BY <1>3 DEF Track
<1>5. a \in Nat /\ off \in a .. Len(buf) /\ a \in 0 .. Len(buf) /\ k \in 0 .. Len(vs) - 1
  BY <1>1, <1>2, <1>3
<1>6. a = Len(encode(SubSeq(vs, 1, k)))
  <2>1. Len(Bytes(0, a)) = a - 0
    BY <1>1, <1>5, Pieces
  <2> HIDE DEF a, k
  <2>2. Bytes(0, a) = encode(SubSeq(vs, 1, k))
    BY <1>2, <1>3
  <2> QED BY <1>5, <2>1, <2>2
<1>7. /\ v \in Seq(Byte) /\ Len(digits) \in Nat /\ a + Len(digits) + Len(v) <= Len(buf)
      /\ \A j \in 1 .. Len(digits) : buf[a + j] = digits[j]
  <2>1. k \in 0 .. Len(vs) - 1
    BY <1>5
  <2> HIDE DEF a, k
  <2>2. v \in Seq(Byte) /\ LaidOut(buf, a, digits, v)
    BY <1>6, <2>1, ValueInBuffer
  <2> HIDE DEF v, digits
  <2> QED BY <2>2 DEF LaidOut
<1>8. w \in Nat \ {0} /\ Weight(i + 1) = Radix * w
  <2>1. i \in 0 .. MaxPrefix
    BY <1>1, <1>2
  <2> QED BY <2>1, Weights
<1>9. digits = Bytes(a, off) \o leb128[m]
  BY <1>2, <1>4
<1>10. Bytes(a, off) \in Seq(Byte) /\ Len(Bytes(a, off)) = i
  <2>1. Bytes(a, off) \in Seq(Byte) /\ Len(Bytes(a, off)) = off - a
    BY <1>1, <1>5, Pieces
  <2> QED BY <1>1, <2>1
<1>11. leb128[m] \in Seq(Byte) /\ Len(leb128[m]) \in Nat \ {0}
  BY Leb128
<1> DEFINE b == leb128[m][1]
<1> HIDE DEF a, k, v, w, digits
<1>12. Len(digits) = i + Len(leb128[m]) /\ digits[i + 1] = b
  <2> DEFINE s == Bytes(a, off)  t == leb128[m]
  <2>1. s \in Seq(Byte) /\ t \in Seq(Byte) /\ Len(s) = i /\ Len(t) \in Nat \ {0}
    BY <1>10, <1>11
  <2> HIDE DEF s, t
  <2>2. Len(s \o t) = Len(s) + Len(t)
        /\ \A j \in 1 .. Len(s) + Len(t) : (s \o t)[j] = IF j <= Len(s) THEN s[j] ELSE t[j - Len(s)]
    BY <2>1, ConcatProperties
  <2>3. (s \o t)[i + 1] = t[1]
    <3>1. i + 1 \in 1 .. Len(s) + Len(t) /\ ~(i + 1 <= Len(s)) /\ (i + 1) - Len(s) = 1
      BY <1>1, <2>1
    <3> QED BY <2>2, <3>1
  <2> QED BY <1>9, <2>1, <2>2, <2>3 DEF s, t
<1>13. off < Len(buf) /\ buf[off + 1] = b
  <2>1. Len(v) \in Nat /\ a + i = off
    BY <1>1, <1>7 DEF a
  <2>2. off < Len(buf)
    BY <1>1, <1>5, <1>7, <1>11, <1>12, <2>1
  <2>3. i + 1 \in 1 .. Len(digits) /\ a + (i + 1) = off + 1
    BY <1>1, <1>5, <1>11, <1>12, <2>1
  <2>4. buf[a + (i + 1)] = digits[i + 1]
    BY <1>7, <2>3
  <2> QED BY <1>12, <2>2, <2>3, <2>4
<1> DEFINE d == b % Radix
           value == n + d * w
<1>14. \/ /\ b >= Radix
          /\ i' = i + 1 /\ n' = value
          /\ phase' = IF i + 1 < MaxPrefix THEN "prefix" ELSE "ErrMessage"
       \/ /\ b < Radix
          /\ i' = i /\ n' = value
          /\ phase' = IF i > 0 /\ value < w THEN "ErrMessage" ELSE "value"
  <2> HIDE DEF b
  <2>1. off # Len(buf)
    BY <1>1, <1>13
  <2> QED BY <1>13, <2>1 DEF ReadPrefixByte, Weight, w
<1>15. fields' = fields
  BY <1>1, <1>13 DEF ReadPrefixByte
<1>16. CASE m < Radix
  <2>1. b = m
    <3>1. leb128[m] = <<m>>
      BY <1>16, Leb128
    <3> QED BY <3>1
  <2>2. d = m
    <3>1. m \in 0 .. Radix - 1 /\ m + 0 * Radix = m /\ 0 \in Nat
      BY <1>1, <1>16
    <3>2. (m + 0 * Radix) % Radix = m
      BY <3>1, LastDigit
    <3> QED BY <2>1, <3>1, <3>2
  <2>3. value = Len(v)
    BY <1>4, <2>2
  <2>4. ~(b >= Radix)
    BY <1>1, <1>16, <2>1
  <2>5. ~(i > 0 /\ value < w)
    <3> HIDE DEF value, d, b
    <3>1. i > 0 => m # 0
      BY <1>1, <1>4
    <3>2. m # 0 => m * w >= w
      BY <1>8
    <3> DEFINE x == m * w
    <3>3. x \in Nat /\ (m # 0 => x >= w) /\ value = n + x
      BY <1>4, <1>8, <2>3, <3>2
    <3> HIDE DEF x
    <3> QED BY <1>1, <1>8, <3>1, <3>3
  <2>6. phase' = "value" /\ n' = Len(v)
    BY <1>14, <2>3, <2>4, <2>5
  <2> QED BY <1>3, <1>15, <2>6 DEF Track, v, k
<1>17. CASE ~(m < Radix)
  <2> DEFINE q == m \div Radix
  <2>1. q \in Nat \ {0} /\ m % Radix \in 0 .. Radix - 1 /\ m = q * Radix + (m % Radix)
    <3>1. m >= Radix
      BY <1>1, <1>17
    <3> QED BY <3>1, Quotient
  <2> DEFINE r == m % Radix
  <2>2. q \in Nat \ {0} /\ r \in Nat /\ r < Radix /\ m = q * Radix + r
    BY <1>1, <2>1
  <2>3. b = r + Radix
    <3>1. leb128[m] = <<(m % Radix) + Radix>> \o leb128[m \div Radix]
      BY <1>1, <1>17, Leb128
    <3>2. (<<r + Radix>> \o leb128[q])[1] = r + Radix
      <4>1. leb128[q] \in Seq(Byte)
        BY <2>2, Leb128
      <4>2. r + Radix \in Byte
        BY <1>1, <2>2 DEF Byte
      <4> DEFINE c == r + Radix  t == leb128[q]
      <4> HIDE DEF c, t
      <4>3. <<c>> \in Seq(Byte) /\ Len(<<c>>) = 1 /\ <<c>>[1] = c
        BY <4>2 DEF c
      <4>4. t \in Seq(Byte) /\ Len(t) \in Nat
        BY <4>1 DEF t
      <4>5. \A j \in 1 .. Len(<<c>>) + Len(t) : (<<c>> \o t)[j] = IF j <= Len(<<c>>) THEN <<c>>[j] ELSE t[j - Len(<<c>>)]
        BY <4>3, <4>4, ConcatProperties
      <4>6. (<<c>> \o t)[1] = c
        BY <4>3, <4>4, <4>5
      <4> QED BY <4>6 DEF c, t
    <3> QED BY <3>1, <3>2
  <2>4. d = r
    <3>1. r \in 0 .. Radix - 1 /\ 1 \in Nat /\ r + 1 * Radix = b
      <4> HIDE DEF r, q, b
      <4> QED BY <1>1, <2>2, <2>3
    <3>2. (r + 1 * Radix) % Radix = r
      <4> HIDE DEF r
      <4> QED BY <3>1, LastDigit
    <3> QED BY <3>1, <3>2
  <2> HIDE DEF q, r, d, b
  <2>5. Len(v) = value + q * Weight(i + 1)
    <3>1. (q * Radix + r) * w = q * (Radix * w) + r * w
      BY <1>1, <1>8, <2>2
    <3>2. r * w \in Nat /\ q * (Radix * w) \in Nat
      BY <1>1, <1>8, <2>2
    <3> QED BY <1>1, <1>4, <1>8, <2>2, <2>4, <3>1, <3>2
  <2>6. i + 1 < MaxPrefix
    <3> SUFFICES ASSUME ~(i + 1 < MaxPrefix) PROVE FALSE
      OBVIOUS
    <3>1. i + 1 = MaxPrefix
      BY <1>1, <1>2
    <3>2. Len(v) >= Weight(MaxPrefix) /\ Weight(MaxPrefix) \in Nat
      <4> DEFINE x == Radix * w
      <4>1. x \in Nat /\ Weight(i + 1) = x
        BY <1>1, <1>8
      <4>2. value \in Nat
        <5>1. d * w \in Nat
          BY <1>8, <2>2, <2>4
        <5> QED BY <1>1, <5>1
      <4> HIDE DEF x, value
      <4>3. q * x >= x /\ q * x \in Nat
        BY <2>2, <4>1
      <4> QED BY <2>5, <3>1, <4>1, <4>2, <4>3
    <3>3. k + 1 \in 1 .. Len(vs) /\ k + 1 \in DOMAIN MessageSpec
          /\ MessageSpec[k + 1] \in [length : Nat, exact : BOOLEAN]
      <4>1. k + 1 \in 1 .. Len(MessageSpec) /\ k + 1 \in 1 .. Len(vs)
        BY <1>1, <1>3 DEF k
      <4> QED BY <4>1, WireConstants, ElementOfSeq, LenProperties
    <3>4. Len(v) <= MessageSpec[k + 1].length /\ MessageSpec[k + 1].length \in Nat
      <4>1. ValidLength(MessageSpec[k + 1], Len(v))
        BY <3>3 DEF EncodingOf, v
      <4>2. Len(v) \in Nat
        BY <1>7
      <4> QED BY <3>3, <4>1, <4>2 DEF ValidLength
    <3>5. MessageSpec[k + 1].length < Weight(MaxPrefix)
      BY <3>3, PrefixCoversCaps DEF Weight
    <3>6. Len(v) \in Nat
      BY <1>7
    <3> QED BY <3>2, <3>4, <3>5, <3>6
  <2>7. phase' = "prefix" /\ i' = i + 1 /\ n' = value
    <3>1. ~(b < Radix)
      BY <1>1, <2>2, <2>3
    <3> HIDE DEF value
    <3> QED BY <1>14, <2>6, <3>1
  <2>8. Len(v) = n' + q * Weight(i')
    BY <2>5, <2>7
  <2> QED BY <1>3, <1>15, <2>2, <2>7, <2>8 DEF Track, v, k, Weight
<1> QED BY <1>16, <1>17

\* The length is valid, the value is there, and it is the next one.
LEMMA ValueOnTrack ==
  ASSUME IInv, NEW vs, EncodingOf(vs), Track(vs), ReadValue PROVE Track(vs)'
<1> DEFINE k == Len(fields)
           v == vs[k + 1]
           a == off - i - 1
           digits == leb128[Len(v)]
<1>1. /\ buf \in Seq(Byte) /\ Len(buf) \in Nat /\ off \in Nat /\ i \in Nat /\ n \in Nat
      /\ fields \in Seq(Seq(Byte)) /\ k \in Nat
      /\ vs \in Seq(Seq(Byte)) /\ Len(vs) \in Nat /\ Len(vs) = Len(MessageSpec)
  BY DEF IInv, TypeOK, EncodingOf
<1>2. off <= Len(buf) /\ i < off /\ Bytes(0, a) = encode(fields) /\ leb128[n] = Bytes(a, off)
  BY DEF ReadValue, IInv, StaysInBounds, AtValue
<1>3. phase = "value" /\ fields = SubSeq(vs, 1, k) /\ k < Len(vs) /\ n = Len(v)
  BY DEF ReadValue, Track
<1>4. a \in Nat /\ off \in a .. Len(buf) /\ a \in 0 .. Len(buf) /\ k \in 0 .. Len(vs) - 1
  BY <1>1, <1>2, <1>3
<1>5. a = Len(encode(SubSeq(vs, 1, k)))
  <2>1. Len(Bytes(0, a)) = a - 0
    BY <1>1, <1>4, Pieces
  <2> HIDE DEF a, k
  <2>2. Bytes(0, a) = encode(SubSeq(vs, 1, k))
    BY <1>2, <1>3
  <2> QED BY <1>4, <2>1, <2>2
<1>6. v \in Seq(Byte) /\ LaidOut(buf, a, digits, v)
  <2>1. k \in 0 .. Len(vs) - 1
    BY <1>4
  <2> HIDE DEF a, k
  <2> QED BY <1>5, <2>1, ValueInBuffer
<1>7. a + Len(digits) = off
  <2>1. Len(Bytes(a, off)) = off - a
    BY <1>1, <1>4, Pieces
  <2>2. digits = Bytes(a, off)
    BY <1>2, <1>3
  <2> HIDE DEF a, digits
  <2> QED BY <1>1, <1>4, <2>1, <2>2
<1> HIDE DEF a, digits, v, k
<1>8. off + n <= Len(buf) /\ \A j \in 1 .. n : buf[off + j] = v[j]
  BY <1>3, <1>6, <1>7 DEF LaidOut
<1>9. ValidLength(MessageSpec[k + 1], n)
  <2>1. k + 1 \in 1 .. Len(vs)
    BY <1>1, <1>4
  <2> QED BY <1>3, <2>1 DEF EncodingOf, v
<1>10. /\ fields' = Append(fields, SubSeq(buf, off + 1, off + n)) /\ i' = 0 /\ n' = 0
       /\ phase' = IF k + 1 < Len(MessageSpec) THEN "prefix" ELSE "done"
  <2>1. n <= Len(buf) - off
    BY <1>1, <1>8
  <2> QED BY <1>9, <2>1 DEF ReadValue, k
<1>11. SubSeq(buf, off + 1, off + n) = v
  <2> DEFINE s == Bytes(off, off + n)
  <2>1. off + n \in off .. Len(buf) /\ (off + n) - off = n
    BY <1>1, <1>8
  <2>2. /\ s \in Seq(Byte) /\ Len(s) = (off + n) - off
        /\ \A j \in 1 .. (off + n) - off : s[j] = buf[off + j]
    BY <1>1, <2>1, Pieces
  <2>3. s \in Seq(Byte) /\ Len(s) = n
    BY <2>1, <2>2
  <2>4. \A j \in 1 .. n : s[j] = v[j]
    BY <1>8, <2>1, <2>2
  <2> HIDE DEF s
  <2>5. s = v
    <3>1. Len(s) = Len(v) /\ \A j \in 1 .. Len(s) : s[j] = v[j]
      BY <1>3, <2>3, <2>4
    <3> QED BY <1>6, <2>3, <3>1, SeqEqual
  <2> QED BY <2>5 DEF s, Bytes
<1>12. fields' = SubSeq(vs, 1, k + 1)
  <2>1. k + 1 \in 1 .. Len(vs) /\ 1 \in 1 .. Len(vs) /\ (k + 1) - 1 = k
    BY <1>1, <1>4
  <2>2. SubSeq(vs, 1, k + 1) = SubSeq(vs, 1, k) \o <<v>>
    BY <1>1, <2>1, SubSeqRecursiveSecond DEF v
  <2>3. Append(fields, v) = fields \o <<v>>
    BY <1>1, <1>6, AppendIsConcat
  <2> QED BY <1>3, <1>10, <1>11, <2>2, <2>3
<1>13. Len(fields') = k + 1
  <2>1. Len(Append(fields, v)) = Len(fields) + 1
    BY <1>1, <1>6, AppendProperties
  <2> QED BY <1>10, <1>11, <2>1 DEF k
<1>14. phase' = "prefix" =>
         \E m \in Nat : (i' = 0 \/ m # 0) /\ Len(vs[Len(fields') + 1]) = n' + m * Weight(i')
  <2> SUFFICES ASSUME phase' = "prefix"
               PROVE  \E m \in Nat : (i' = 0 \/ m # 0) /\ Len(vs[Len(fields') + 1]) = n' + m * Weight(i')
    OBVIOUS
  <2>1. k + 2 \in 1 .. Len(vs) /\ k + 2 = (k + 1) + 1
    BY <1>1, <1>10
  <2>2. vs[k + 2] \in Seq(Byte)
    BY <1>1, <2>1
  <2>3. Len(vs[k + 2]) \in Nat
    BY <2>2
  <2> DEFINE m == Len(vs[k + 2])
  <2>4. m \in Nat /\ m = n' + m * Weight(i')
    <3>1. Weight(0) = 1
      BY Weights
    <3> HIDE DEF m
    <3>2. m \in Nat
      BY <2>3 DEF m
    <3> QED BY <1>10, <3>1, <3>2
  <2>5. m = Len(vs[Len(fields') + 1])
    BY <1>13, <2>1
  <2> HIDE DEF m
  <2> QED BY <1>10, <2>4, <2>5
<1>15. phase' = "done" => fields' = vs
  <2> SUFFICES ASSUME phase' = "done" PROVE fields' = vs
    OBVIOUS
  <2>1. k + 1 = Len(vs)
    BY <1>1, <1>4, <1>10
  <2> QED BY <1>1, <1>12, <2>1, SubSeqFull
<1>16. phase' = "prefix" => Len(fields') < Len(vs)
  BY <1>1, <1>10, <1>13
<1>17. phase' \in {"prefix", "done"}
  BY <1>10
<1>18. fields' = SubSeq(vs, 1, Len(fields'))
  BY <1>12, <1>13
<1> QED BY <1>14, <1>15, <1>16, <1>17, <1>18 DEF Track, Weight

\* Every step of the reader stays on track.
LEMMA StepOnTrack == IInv /\ OnTrack /\ [Next]_vars => OnTrack'
<1> SUFFICES ASSUME IInv, OnTrack, [Next]_vars, NEW vs, EncodingOf(vs)' PROVE Track(vs)'
  BY DEF OnTrack
<1>1. buf' = buf
  BY DEF Next, vars, ReadHeader, ReadPrefixByte, ReadValue, CheckTrailing, Refuse
<1>2. EncodingOf(vs) /\ Track(vs)
  BY <1>1 DEF OnTrack, EncodingOf
<1>3. CASE ReadHeader
  BY <1>2, <1>3, HeaderOnTrack
<1>4. CASE ReadPrefixByte
  BY <1>2, <1>4, PrefixOnTrack
<1>5. CASE ReadValue
  BY <1>2, <1>5, ValueOnTrack
<1>6. CASE CheckTrailing
  BY <1>2, <1>6, TrailingOnTrack
<1>7. CASE UNCHANGED vars
  BY <1>2, <1>7 DEF vars, Track
<1> QED BY <1>3, <1>4, <1>5, <1>6, <1>7 DEF Next

\* Nothing that a peer's encode makes of values within the caps is refused: such a message
\* is below maxMessageLength, its prefixes within maxLEB128BytesForField digits, and the
\* reader goes through it value by value.
THEOREM ReaderAcceptsEveryEncoding == Spec => []AcceptsEveryEncoding
<1>1. IInv /\ OnTrack => AcceptsEveryEncoding
  <2> SUFFICES ASSUME IInv, OnTrack, phase = "ErrMessage", IsEncoding PROVE FALSE
    BY DEF AcceptsEveryEncoding
  <2>1. PICK vs : EncodingOf(vs)
    BY EncodingHasValues DEF IInv, TypeOK
  <2> QED BY <2>1 DEF OnTrack, Track
<1>2. Spec => []OnTrack
  <2>1. IInv /\ OnTrack /\ [Next]_vars => OnTrack'
    BY StepOnTrack
  <2> QED BY Invariance, InitOnTrack, <2>1, PTL DEF Spec
<1> QED BY Invariance, <1>1, <1>2, PTL


-----------------------------------------------------------------------------
(* Hash inputs.                                                            *)

\* Two strings that agree, and whose first parts are equally long, agree in both parts.
LEMMA SameParts ==
  ASSUME NEW S, NEW s \in Seq(S), NEW t \in Seq(S), NEW u \in Seq(S), NEW v \in Seq(S),
         Len(s) = Len(u), s \o t = u \o v
  PROVE  s = u /\ t = v
<1>1. Len(s) \in Nat /\ Len(t) \in Nat /\ Len(v) \in Nat
  OBVIOUS
<1>2. /\ Len(s \o t) = Len(s) + Len(t)
      /\ \A j \in 1 .. Len(s) + Len(t) : (s \o t)[j] = IF j <= Len(s) THEN s[j] ELSE t[j - Len(s)]
  BY ConcatProperties
<1>3. /\ Len(u \o v) = Len(u) + Len(v)
      /\ \A j \in 1 .. Len(u) + Len(v) : (u \o v)[j] = IF j <= Len(u) THEN u[j] ELSE v[j - Len(u)]
  BY ConcatProperties
<1>4. Len(t) = Len(v)
  BY <1>1, <1>2, <1>3
<1>5. \A j \in 1 .. Len(s) : s[j] = u[j]
  BY <1>1, <1>2, <1>3, <1>4
<1>6. ASSUME NEW j \in 1 .. Len(t) PROVE t[j] = v[j]
  <2>1. Len(s) + j \in 1 .. Len(s) + Len(t) /\ ~(Len(s) + j <= Len(s)) /\ (Len(s) + j) - Len(s) = j
    BY <1>1
  <2>2. (s \o t)[Len(s) + j] = t[j]
    BY <1>2, <2>1
  <2>3. (u \o v)[Len(s) + j] = v[j]
    BY <1>3, <1>4, <2>1
  <2> QED BY <2>2, <2>3
<1>7. s = u
  BY <1>5, SeqEqual
<1>8. t = v
  BY <1>4, <1>6, SeqEqual
<1> QED BY <1>7, <1>8

\* No length is the beginning of another: where a prefix ends can be told from it.
LEMMA PrefixesEnd ==
  ASSUME NEW r \in Seq(Byte), NEW s \in Seq(Byte)
  PROVE  \A k \in Nat : \A m \in Nat : leb128[k] \o r = leb128[m] \o s => k = m
<1> DEFINE P == {k \in Nat : \A m \in Nat : leb128[k] \o r = leb128[m] \o s => k = m}
<1>1. ASSUME NEW k \in Nat, \A j \in 0 .. k - 1 : j \in P PROVE k \in P
  <2> SUFFICES ASSUME NEW m \in Nat, leb128[k] \o r = leb128[m] \o s PROVE k = m
    OBVIOUS
  <2>1. ASSUME NEW x \in Nat, NEW t \in Seq(Byte), x < Radix
        PROVE  (leb128[x] \o t)[1] = x
    <3>1. leb128[x] = <<x>> /\ <<x>> \in Seq(Byte)
      BY <2>1, Leb128
    <3>2. (<<x>> \o t)[1] = <<x>>[1]
      BY <3>1
    <3> QED BY <3>1, <3>2
  <2>2. ASSUME NEW x \in Nat, NEW t \in Seq(Byte), x >= Radix
        PROVE  /\ (leb128[x] \o t)[1] = (x % Radix) + Radix
               /\ leb128[x] \o t = <<(x % Radix) + Radix>> \o (leb128[x \div Radix] \o t)
               /\ leb128[x \div Radix] \o t \in Seq(Byte)
    <3> DEFINE d == (x % Radix) + Radix  rest == leb128[x \div Radix]
    <3>1. x \div Radix \in Nat /\ d \in Byte
      <4>1. x \div Radix \in Nat /\ x % Radix \in 0 .. Radix - 1
        BY <2>2, Quotient
      <4> QED BY <4>1, RadixAtLeastTwo DEF Byte
    <3>2. rest \in Seq(Byte) /\ leb128[x] = <<d>> \o rest
      BY <2>2, <3>1, Leb128
    <3> HIDE DEF d, rest
    <3>3. <<d>> \in Seq(Byte) /\ rest \o t \in Seq(Byte)
      BY <3>1, <3>2, ConcatProperties
    <3>4. leb128[x] \o t = <<d>> \o (rest \o t)
      BY <3>2, <3>3, BytesRegroup
    <3>5. (<<d>> \o (rest \o t))[1] = <<d>>[1]
      BY <3>3
    <3> QED BY <3>3, <3>4, <3>5 DEF d, rest
  <2>3. \A x \in Nat : x % Radix \in 0 .. Radix - 1
    BY RadixAtLeastTwo
  <2>4. CASE k < Radix
    <3>1. ~(m >= Radix)
      <4> SUFFICES ASSUME m >= Radix PROVE FALSE
        OBVIOUS
      <4>1. k = (m % Radix) + Radix
        <5>1. (leb128[k] \o r)[1] = k
          BY <2>1, <2>4
        <5>2. (leb128[m] \o s)[1] = (m % Radix) + Radix
          BY <2>2
        <5> QED BY <5>1, <5>2
      <4>2. m % Radix \in 0 .. Radix - 1
        BY <2>3
      <4> QED BY <2>4, <4>1, <4>2, RadixAtLeastTwo
    <3>2. m < Radix
      BY <3>1, RadixAtLeastTwo
    <3> QED BY <2>1, <2>4, <3>2
  <2>5. CASE ~(k < Radix)
    <3>1. k >= Radix
      BY <2>5, RadixAtLeastTwo
    <3>2. ~(m < Radix)
      <4> SUFFICES ASSUME m < Radix PROVE FALSE
        OBVIOUS
      <4>1. m = (k % Radix) + Radix
        <5>1. (leb128[k] \o r)[1] = (k % Radix) + Radix
          BY <2>2, <3>1
        <5>2. (leb128[m] \o s)[1] = m
          BY <2>1
        <5> QED BY <5>1, <5>2
      <4>2. k % Radix \in 0 .. Radix - 1
        BY <2>3
      <4> QED BY <4>1, <4>2, RadixAtLeastTwo
    <3>3. m >= Radix
      BY <3>2, RadixAtLeastTwo
    <3> DEFINE c == k % Radix  d == m % Radix  p == k \div Radix  q == m \div Radix
    <3>4. c \in 0 .. Radix - 1 /\ d \in 0 .. Radix - 1 /\ c + Radix = d + Radix
      <4>1. (leb128[k] \o r)[1] = c + Radix
        BY <2>2, <3>1
      <4>2. (leb128[m] \o s)[1] = d + Radix
        BY <2>2, <3>3
      <4>3. c \in 0 .. Radix - 1 /\ d \in 0 .. Radix - 1
        BY <2>3
      <4> QED BY <4>1, <4>2, <4>3
    <3>5. c = d
      <4> HIDE DEF c, d
      <4> QED BY <3>4, RadixAtLeastTwo
    <3>6. p \in 0 .. k - 1 /\ q \in Nat /\ k = p * Radix + c /\ m = q * Radix + d
      BY <3>1, <3>3, Quotient
    <3>7. leb128[p] \o r = leb128[q] \o s
      <4> DEFINE x == c + Radix  y == d + Radix  t == leb128[p] \o r  u == leb128[q] \o s
      <4>1. t \in Seq(Byte) /\ u \in Seq(Byte) /\ <<x>> \o t = <<y>> \o u
        BY <2>2, <3>1, <3>3
      <4>2. x \in Byte /\ y \in Byte
        BY <3>4, RadixAtLeastTwo DEF Byte
      <4> HIDE DEF x, y, t, u
      <4>3. <<x>> \in Seq(Byte) /\ <<y>> \in Seq(Byte) /\ Len(<<x>>) = Len(<<y>>)
        BY <4>2
      <4>4. t = u
        BY <4>1, <4>3, SameParts
      <4> QED BY <4>4 DEF t, u
    <3>8. p \in P
      BY <1>1, <3>6
    <3> HIDE DEF p, q, c, d
    <3>9. p = q
      BY <3>6, <3>7, <3>8
    <3> QED BY <3>5, <3>6, <3>9
  <2> QED BY <2>4, <2>5
<1>2. \A k \in Nat : k \in P
  <2> HIDE DEF P
  <2>1. P \in SUBSET Nat
    BY DEF P
  <2> QED BY <1>1, <2>1, NumbersByDescent
<1> QED BY <1>2

\* The same string, in two readings: x with r after it, and y with s after it.
Alike(x, r, y, s) == x \o r = y \o s

\* The data may be counted to what follows its length.
LEMMA DataFollow ==
  ASSUME NEW v \in Seq(Byte), NEW r \in Seq(Byte)
  PROVE  lengthValue(v) \o r = leb128[Len(v)] \o (v \o r) /\ v \o r \in Seq(Byte)
<1> DEFINE a == leb128[Len(v)]
<1>1. Len(v) \in Nat
  OBVIOUS
<1>2. a \in Seq(Byte)
  BY <1>1, Leb128
<1> HIDE DEF a
<1>3. (a \o v) \o r = a \o (v \o r)
  BY <1>2, BytesRegroup
<1> QED BY <1>3, ConcatProperties DEF lengthValue, a

\* A field with its length in front can be told from whatever follows.
LEMMA FieldsEnd ==
  ASSUME NEW v \in Seq(Byte), NEW w \in Seq(Byte), NEW r \in Seq(Byte), NEW s \in Seq(Byte),
         Alike(lengthValue(v), r, lengthValue(w), s)
  PROVE  v = w /\ r = s
<1> DEFINE a == leb128[Len(v)]  b == leb128[Len(w)]
<1>1. Len(v) \in Nat /\ Len(w) \in Nat
  OBVIOUS
<1>2. a \in Seq(Byte) /\ b \in Seq(Byte)
  BY <1>1, Leb128
<1>3. v \o r \in Seq(Byte) /\ w \o s \in Seq(Byte)
  BY ConcatProperties
<1>4. a \o (v \o r) = b \o (w \o s)
  <2>1. lengthValue(v) \o r = a \o (v \o r)
    BY DataFollow
  <2>2. lengthValue(w) \o s = b \o (w \o s)
    BY DataFollow
  <2> HIDE DEF a, b
  <2> QED BY <2>1, <2>2 DEF Alike
<1>5. Len(v) = Len(w)
  BY <1>1, <1>3, <1>4, PrefixesEnd
<1>6. v \o r = w \o s
  <2> HIDE DEF a, b
  <2>1. a = b
    BY <1>5 DEF a, b
  <2> QED BY <1>2, <1>3, <1>4, <2>1, SameParts
<1> QED BY <1>5, <1>6, SameParts

\* lvCat of k fields can be told from whatever follows, and taken apart.
ApartAt(k) ==
  \A f, g \in Seq(Seq(Byte)) : \A r, s \in Seq(Byte) :
    Len(f) = k /\ Len(g) = k /\ Alike(lvCat(f), r, lvCat(g), s) => f = g /\ r = s

\* The last field may be counted to what follows.
LEMMA LastFieldFollows ==
  ASSUME NEW t \in Seq(Seq(Byte)), NEW v \in Seq(Byte), NEW r \in Seq(Byte)
  PROVE  /\ lvCat(Append(t, v)) \o r = lvCat(t) \o (lengthValue(v) \o r)
         /\ lengthValue(v) \o r \in Seq(Byte)
<1> DEFINE x == lvCat(t)  p == lengthValue(v)
<1>1. lvCat(Append(t, v)) = x \o p /\ x \in Seq(Byte)
  BY LvCatGrows
<1>2. p \in Seq(Byte)
  BY FieldAndLength
<1> HIDE DEF x, p
<1>3. (x \o p) \o r = x \o (p \o r)
  BY <1>1, <1>2, BytesRegroup
<1>4. p \o r \in Seq(Byte)
  BY <1>2, ConcatProperties
<1> QED BY <1>1, <1>3, <1>4 DEF x, p

\* Fields are some and a last one.
LEMMA LastField ==
  ASSUME NEW j \in Nat, NEW h \in Seq(Seq(Byte)), Len(h) = j + 1
  PROVE  \E t \in Seq(Seq(Byte)), v \in Seq(Byte) : Len(t) = j /\ h = Append(t, v)
<1>1. 1 \in 1 .. Len(h) /\ j + 1 \in 1 .. Len(h) /\ (j + 1) - 1 = j
  OBVIOUS
<1>2. h[j + 1] \in Seq(Byte)
  BY <1>1, ElementOfSeq
<1>3. SubSeq(h, 1, j) \in Seq(Seq(Byte)) /\ Len(SubSeq(h, 1, j)) = j
  <2>1. \A m \in 1 .. j : h[m] \in Seq(Byte)
    BY <1>1
  <2> QED BY <1>1, <2>1, SubSeqProperties
<1>4. SubSeq(h, 1, j + 1) = SubSeq(h, 1, j) \o <<h[j + 1]>>
  BY <1>1, SubSeqRecursiveSecond
<1>5. SubSeq(h, 1, j + 1) = h
  BY SubSeqFull
<1>6. h = Append(SubSeq(h, 1, j), h[j + 1])
  BY <1>2, <1>3, <1>4, <1>5, AppendIsConcat
<1> QED BY <1>2, <1>3, <1>6

\* Two readings of a string as some fields, one more field and the rest.
AlikeWithOneMore(t, v, r, u, w, s) == Alike(lvCat(Append(t, v)), r, lvCat(Append(u, w)), s)

\* With one field more, the fields before it are told apart first.
LEMMA OneFieldMore ==
  ASSUME NEW k, ApartAt(k),
         NEW t \in Seq(Seq(Byte)), NEW u \in Seq(Seq(Byte)), Len(t) = k, Len(u) = k,
         NEW v \in Seq(Byte), NEW w \in Seq(Byte), NEW r \in Seq(Byte), NEW s \in Seq(Byte),
         AlikeWithOneMore(t, v, r, u, w, s)
  PROVE  t = u /\ v = w /\ r = s
<1> DEFINE a == lengthValue(v) \o r  b == lengthValue(w) \o s
<1>1. a \in Seq(Byte) /\ b \in Seq(Byte)
  BY LastFieldFollows
<1>2. Alike(lvCat(t), a, lvCat(u), b)
  <2>1. lvCat(Append(t, v)) \o r = lvCat(t) \o a
    BY LastFieldFollows
  <2>2. lvCat(Append(u, w)) \o s = lvCat(u) \o b
    BY LastFieldFollows
  <2> HIDE DEF a, b
  <2> QED BY <2>1, <2>2 DEF Alike, AlikeWithOneMore
<1>3. t = u /\ a = b
  <2> HIDE DEF a, b
  <2> QED BY <1>1, <1>2 DEF ApartAt
<1>4. Alike(lengthValue(v), r, lengthValue(w), s)
  BY <1>3 DEF Alike
<1>5. v = w /\ r = s
  BY <1>4, FieldsEnd
<1> QED BY <1>3, <1>5

\* This is so of any number of fields.
LEMMA LvCatEnds == \A k \in Nat : ApartAt(k)
<1> DEFINE P == {j \in Nat : ApartAt(j)}
<1>1. 0 \in P
  <2> SUFFICES ASSUME NEW f \in Seq(Seq(Byte)), NEW g \in Seq(Seq(Byte)), NEW r \in Seq(Byte), NEW s \in Seq(Byte),
                      Len(f) = 0, Len(g) = 0, Alike(lvCat(f), r, lvCat(g), s)
               PROVE  f = g /\ r = s
    BY DEF ApartAt
  <2>1. f = <<>> /\ g = <<>>
    BY EmptySeq
  <2>2. lvCat(f) \o r = r /\ lvCat(g) \o s = s
    BY <2>1, LvCatGrows, ConcatEmptySeq
  <2> QED BY <2>1, <2>2 DEF Alike
<1>2. ASSUME NEW j \in P PROVE j + 1 \in P
  <2> SUFFICES ASSUME NEW f \in Seq(Seq(Byte)), NEW g \in Seq(Seq(Byte)), NEW r \in Seq(Byte), NEW s \in Seq(Byte),
                      Len(f) = j + 1, Len(g) = j + 1, Alike(lvCat(f), r, lvCat(g), s)
               PROVE  f = g /\ r = s
    <3>1. j + 1 \in Nat
      OBVIOUS
    <3> QED BY <3>1 DEF ApartAt
  <2>0. j \in Nat
    OBVIOUS
  <2>1. \E t \in Seq(Seq(Byte)), v \in Seq(Byte) : Len(t) = j /\ f = Append(t, v)
    BY <2>0, LastField
  <2>2. \E t \in Seq(Seq(Byte)), v \in Seq(Byte) : Len(t) = j /\ g = Append(t, v)
    BY <2>0, LastField
  <2>3. PICK t \in Seq(Seq(Byte)), v \in Seq(Byte) : Len(t) = j /\ f = Append(t, v)
    BY <2>1
  <2>4. PICK u \in Seq(Seq(Byte)), w \in Seq(Byte) : Len(u) = j /\ g = Append(u, w)
    BY <2>2
  <2>5. t = u /\ v = w /\ r = s
    <3>1. ApartAt(j) /\ AlikeWithOneMore(t, v, r, u, w, s)
      BY <2>3, <2>4 DEF AlikeWithOneMore
    <3>2. Len(t) = j /\ Len(u) = j
      BY <2>3, <2>4
    <3> QED BY <3>1, <3>2, OneFieldMore
  <2> QED BY <2>3, <2>4, <2>5
<1>3. \A j \in Nat : j \in P
  <2> HIDE DEF P
  <2>1. P \in SUBSET Nat
    BY DEF P
  <2> QED BY <1>1, <1>2, <2>1, NumbersByInduction
<1> QED BY <1>3

\* No two lists of so many fields have one lvCat.
LEMMA LvCatTellsApart ==
  ASSUME NEW f \in Seq(Seq(Byte)), NEW g \in Seq(Seq(Byte)), Len(f) = Len(g), lvCat(f) = lvCat(g)
  PROVE  f = g
<1>1. Len(f) \in Nat /\ <<>> \in Seq(Byte) /\ lvCat(f) \in Seq(Byte)
  BY LvCatGrows, EmptySeq
<1>2. Alike(lvCat(f), <<>>, lvCat(g), <<>>)
  <2>1. lvCat(f) \o <<>> = lvCat(g) \o <<>>
    OBVIOUS
  <2> QED BY <2>1 DEF Alike
<1>3. ApartAt(Len(f))
  BY <1>1, LvCatEnds
<1> QED BY <1>1, <1>2, <1>3 DEF ApartAt

\* Two fields and what follows, as in deriveISK.
LEMMA TwoFieldsEnd ==
  ASSUME NEW a \in Seq(Byte), NEW b \in Seq(Byte), NEW r \in Seq(Byte),
         NEW c \in Seq(Byte), NEW d \in Seq(Byte), NEW s \in Seq(Byte),
         Alike(lvCat(<<a, b>>), r, lvCat(<<c, d>>), s)
  PROVE  a = c /\ b = d /\ r = s
<1> DEFINE f == <<a, b>>  g == <<c, d>>
<1>1. f \in Seq(Seq(Byte)) /\ g \in Seq(Seq(Byte)) /\ Len(f) = 2 /\ Len(g) = 2
  OBVIOUS
<1>2. Alike(lvCat(f), r, lvCat(g), s)
  OBVIOUS
<1>3. f = g /\ r = s
  <2> HIDE DEF f, g
  <2>1. ApartAt(2)
    BY LvCatEnds
  <2> QED BY <1>1, <1>2, <2>1 DEF ApartAt
<1> QED BY <1>3

\* The zero padding is a string, as long as the first block has room for it.
LEMMA Padding ==
  ASSUME NEW prs \in Seq(Byte)
  PROVE  /\ zpad(prs) \in Seq(Byte)
         /\ Len(zpad(prs)) = LET raw == BlockSize - lengthValueLen(Len(prs)) - lengthValueLen(Len(DSI)) - 1
                             IN  IF raw > 0 THEN raw ELSE 0
<1> DEFINE raw == BlockSize - lengthValueLen(Len(prs)) - lengthValueLen(Len(DSI)) - 1
           k == IF raw > 0 THEN raw ELSE 0
<1>1. lengthValueLen(Len(prs)) \in Nat /\ lengthValueLen(Len(DSI)) \in Nat
  <2>1. Len(prs) \in Nat /\ Len(DSI) \in Nat
    BY HashConstants
  <2>2. leb128Len[Len(prs)] \in Nat /\ leb128Len[Len(DSI)] \in Nat
    BY <2>1, Leb128
  <2> QED BY <2>1, <2>2 DEF lengthValueLen
<1>2. raw \in Int /\ k \in Nat
  BY <1>1, HashConstants
<1>3. Max({raw, 0}) = k
  <2> HIDE DEF raw
  <2>1. k \in {raw, 0} /\ \A y \in {raw, 0} : y <= k
    BY <1>2
  <2>2. \A x \in {raw, 0} : (\A y \in {raw, 0} : y <= x) => x = k
    BY <1>2
  <2> HIDE DEF k
  <2> QED BY <2>1, <2>2 DEF Max
<1>4. zpad(prs) = [z \in 1 .. k |-> 0]
  BY <1>3 DEF zpad
<1>5. 0 \in Byte
  BY RadixAtLeastTwo DEF Byte
<1> HIDE DEF k
<1>6. zpad(prs) \in [1 .. k -> Byte]
  BY <1>4, <1>5
<1>7. zpad(prs) \in Seq(Byte) /\ Len(zpad(prs)) = k
  BY <1>2, <1>6, FunctionIsSeq
<1> QED BY <1>7 DEF k

\* Two lists of parts of one use make one string.
Collides(u, p, q) == Preimage(u, p) = Preimage(u, q)

\* The generator string: the five fields of one lvCat.
LEMMA GeneratorTellsApart ==
  ASSUME NEW p \in Parts("generator"), NEW q \in Parts("generator"), Collides("generator", p, q)
  PROVE  p = q
<1> DEFINE f == <<DSI, p[1], zpad(p[1]), p[2], p[3]>>
           g == <<DSI, q[1], zpad(q[1]), q[2], q[3]>>
<1>1. /\ p[1] \in Seq(Byte) /\ p[2] \in Seq(Byte) /\ p[3] \in Seq(Byte) /\ p = <<p[1], p[2], p[3]>>
      /\ q[1] \in Seq(Byte) /\ q[2] \in Seq(Byte) /\ q[3] \in Seq(Byte) /\ q = <<q[1], q[2], q[3]>>
  <2>1. p \in Strings \X Strings \X Strings /\ q \in Strings \X Strings \X Strings
    BY DEF Parts
  <2> QED BY <2>1, HashConstants
<1>2. zpad(p[1]) \in Seq(Byte) /\ zpad(q[1]) \in Seq(Byte) /\ DSI \in Seq(Byte)
  BY <1>1, Padding, HashConstants
<1>3. f \in Seq(Seq(Byte)) /\ g \in Seq(Seq(Byte)) /\ Len(f) = 5 /\ Len(g) = 5
  <2> DEFINE z == zpad(p[1])  y == zpad(q[1])
  <2>1. z \in Seq(Byte) /\ y \in Seq(Byte)
    BY <1>2
  <2> HIDE DEF z, y
  <2>2. /\ <<DSI, p[1], z, p[2], p[3]>> \in Seq(Seq(Byte)) /\ Len(<<DSI, p[1], z, p[2], p[3]>>) = 5
        /\ <<DSI, q[1], y, q[2], q[3]>> \in Seq(Seq(Byte)) /\ Len(<<DSI, q[1], y, q[2], q[3]>>) = 5
    BY <1>1, <1>2, <2>1
  <2> QED BY <2>2 DEF z, y
<1>4. lvCat(f) = lvCat(g)
  BY DEF Collides, Preimage, generatorString
<1>5. f = g
  <2> HIDE DEF f, g
  <2> QED BY <1>3, <1>4, LvCatTellsApart
<1>6. p[1] = q[1] /\ p[2] = q[2] /\ p[3] = q[3]
  <2>1. f[2] = g[2] /\ f[4] = g[4] /\ f[5] = g[5]
    <3> HIDE DEF f, g
    <3> QED BY <1>5
  <2> QED BY <2>1
<1> QED BY <1>1, <1>6

\* CI: the three fields of one lvCat.
LEMMA CITellsApart ==
  ASSUME NEW p \in Parts("ci"), NEW q \in Parts("ci"), Collides("ci", p, q)
  PROVE  p = q
<1>1. /\ p[1] \in Seq(Byte) /\ p[2] \in Seq(Byte) /\ p[3] \in Seq(Byte) /\ p = <<p[1], p[2], p[3]>>
      /\ q[1] \in Seq(Byte) /\ q[2] \in Seq(Byte) /\ q[3] \in Seq(Byte) /\ q = <<q[1], q[2], q[3]>>
  <2>1. p \in Strings \X Strings \X Strings /\ q \in Strings \X Strings \X Strings
    BY DEF Parts
  <2> QED BY <2>1, HashConstants
<1>2. lvCat(<<p[1], p[2], p[3]>>) = lvCat(<<q[1], q[2], q[3]>>)
  BY DEF Collides, Preimage, buildCI
<1>3. p \in Seq(Seq(Byte)) /\ q \in Seq(Seq(Byte)) /\ Len(p) = 3 /\ Len(q) = 3
  <2>1. /\ <<p[1], p[2], p[3]>> \in Seq(Seq(Byte)) /\ Len(<<p[1], p[2], p[3]>>) = 3
        /\ <<q[1], q[2], q[3]>> \in Seq(Seq(Byte)) /\ Len(<<q[1], q[2], q[3]>>) = 3
    BY <1>1
  <2> QED BY <1>1, <2>1, Zenon
<1>4. lvCat(p) = lvCat(q)
  BY <1>1, <1>2, Zenon
<1> QED BY <1>3, <1>4, LvCatTellsApart

\* Pairs of parts, as in the inputs of the MAC and of Export.
LEMMA PairsTellApart ==
  ASSUME NEW a \in Seq(Byte), NEW b \in Seq(Byte), NEW c \in Seq(Byte), NEW d \in Seq(Byte),
         lvCat(<<a, b>>) = lvCat(<<c, d>>)
  PROVE  a = c /\ b = d
<1>1. Alike(lvCat(<<a, b>>), <<>>, lvCat(<<c, d>>), <<>>) /\ <<>> \in Seq(Byte)
  BY EmptySeq DEF Alike
<1> QED BY <1>1, TwoFieldsEnd

\* The transcript: two lists one after the other, of two fields each.
LEMMA TranscriptTellsApart ==
  ASSUME NEW p \in Parts("transcript"), NEW q \in Parts("transcript"), Collides("transcript", p, q)
  PROVE  p = q
<1>1. /\ p = <<p[1], p[2], p[3], p[4]>> /\ p[1] \in Seq(Byte) /\ p[2] \in Seq(Byte)
      /\ p[3] \in Seq(Byte) /\ p[4] \in Seq(Byte)
      /\ q = <<q[1], q[2], q[3], q[4]>> /\ q[1] \in Seq(Byte) /\ q[2] \in Seq(Byte)
      /\ q[3] \in Seq(Byte) /\ q[4] \in Seq(Byte)
  <2>1. p \in Fixed \X Strings \X Fixed \X Strings /\ q \in Fixed \X Strings \X Fixed \X Strings
    BY DEF Parts
  <2> QED BY <2>1, HashConstants
<1> DEFINE r == lvCat(<<p[3], p[4]>>)  s == lvCat(<<q[3], q[4]>>)
<1>2. Alike(lvCat(<<p[1], p[2]>>), r, lvCat(<<q[1], q[2]>>), s)
  BY DEF Collides, Preimage, transcript, Alike
<1>3. r \in Seq(Byte) /\ s \in Seq(Byte)
  <2> DEFINE t == <<p[3], p[4]>>  u == <<q[3], q[4]>>
  <2>1. t \in Seq(Seq(Byte)) /\ u \in Seq(Seq(Byte))
    BY <1>1
  <2> HIDE DEF t, u
  <2>2. lvCat(t) \in Seq(Byte) /\ lvCat(u) \in Seq(Byte)
    BY <2>1, <1>1, LvCatGrows
  <2> QED BY <2>2 DEF t, u
<1>4. p[1] = q[1] /\ p[2] = q[2] /\ r = s
  <2> HIDE DEF r, s
  <2> QED BY <1>1, <1>2, <1>3, TwoFieldsEnd
<1>5. p[3] = q[3] /\ p[4] = q[4]
  BY <1>1, <1>4, PairsTellApart
<1> QED BY <1>1, <1>4, <1>5

\* The input of deriveISK: the transcript follows without its length.
LEMMA ISKTellsApart ==
  ASSUME NEW p \in Parts("isk"), NEW q \in Parts("isk"), Collides("isk", p, q)
  PROVE  p = q
<1>1. /\ p = <<p[1], p[2], p[3]>> /\ p[1] \in Seq(Byte) /\ p[2] \in Seq(Byte)
      /\ p[3] = <<p[3][1], p[3][2]>> /\ p[3][1] \in Seq(Byte) /\ p[3][2] \in Seq(Byte)
      /\ q = <<q[1], q[2], q[3]>> /\ q[1] \in Seq(Byte) /\ q[2] \in Seq(Byte)
      /\ q[3] = <<q[3][1], q[3][2]>> /\ q[3][1] \in Seq(Byte) /\ q[3][2] \in Seq(Byte)
  <2>1. p \in Strings \X Fixed \X (Fixed \X Strings) /\ q \in Strings \X Fixed \X (Fixed \X Strings)
    BY DEF Parts
  <2>2. p[3] \in Fixed \X Strings /\ q[3] \in Fixed \X Strings
    BY <2>1
  <2> QED BY <2>1, <2>2, HashConstants
<1> DEFINE r == lvCat(p[3])  s == lvCat(q[3])
<1>2. Alike(lvCat(<<p[1], p[2]>>), r, lvCat(<<q[1], q[2]>>), s)
  BY DEF Collides, Preimage, iskMaterial, Alike
<1>3. r \in Seq(Byte) /\ s \in Seq(Byte)
  <2>1. <<p[3][1], p[3][2]>> \in Seq(Seq(Byte)) /\ <<q[3][1], q[3][2]>> \in Seq(Seq(Byte))
    BY <1>1
  <2>2. p[3] \in Seq(Seq(Byte)) /\ q[3] \in Seq(Seq(Byte))
    BY <1>1, <2>1, Zenon
  <2> QED BY <2>2, LvCatGrows
<1>4. p[1] = q[1] /\ p[2] = q[2] /\ r = s
  <2> HIDE DEF r, s
  <2> QED BY <1>1, <1>2, <1>3, TwoFieldsEnd
<1>5. lvCat(<<p[3][1], p[3][2]>>) = lvCat(<<q[3][1], q[3][2]>>)
  BY <1>1, <1>4, Zenon
<1>6. p[3][1] = q[3][1] /\ p[3][2] = q[3][2]
  BY <1>1, <1>5, PairsTellApart
<1>7. p[3] = q[3]
  BY <1>1, <1>6
<1> QED BY <1>1, <1>4, <1>7

\* The MAC key: the session id is what precedes the last bytes, an ISK.
LEMMA MacKeyTellsApart ==
  ASSUME NEW p \in Parts("macKey"), NEW q \in Parts("macKey"), Collides("macKey", p, q)
  PROVE  p = q
<1>1. /\ p = <<p[1], p[2]>> /\ p[1] \in Seq(Byte) /\ p[2] \in Fixed
      /\ q = <<q[1], q[2]>> /\ q[1] \in Seq(Byte) /\ q[2] \in Fixed
  <2>1. p \in Strings \X Fixed /\ q \in Strings \X Fixed
    BY DEF Parts
  <2> QED BY <2>1, HashConstants
<1> DEFINE a == p[1]  b == p[2]  c == q[1]  d == q[2]
<1>2. a \in Seq(Byte) /\ b \in Seq(Byte) /\ c \in Seq(Byte) /\ d \in Seq(Byte) /\ Len(b) = Len(d)
  BY <1>1, HashConstants, OneLength
<1>3. a \o b = c \o d
  BY DEF Collides, Preimage, macKeyInput
<1>4. a = c /\ b = d
  <2> HIDE DEF a, b, c, d
  <2>1. Len(a \o b) = Len(a) + Len(b) /\ Len(c \o d) = Len(c) + Len(d)
    BY <1>2, ConcatProperties
  <2>2. Len(a) = Len(c)
    <3>1. Len(a) \in Nat /\ Len(b) \in Nat /\ Len(c) \in Nat /\ Len(a) + Len(b) = Len(c) + Len(d)
      BY <1>2, <1>3, <2>1
    <3> QED BY <1>2, <3>1
  <2> QED BY <1>2, <1>3, <2>2, SameParts
<1> QED BY <1>1, <1>4

\* The text under the MAC.
LEMMA MacTellsApart ==
  ASSUME NEW p \in Parts("mac"), NEW q \in Parts("mac"), Collides("mac", p, q)
  PROVE  p = q
<1>1. /\ p = <<p[1], p[2]>> /\ p[1] \in Seq(Byte) /\ p[2] \in Seq(Byte)
      /\ q = <<q[1], q[2]>> /\ q[1] \in Seq(Byte) /\ q[2] \in Seq(Byte)
  <2>1. p \in Fixed \X Strings /\ q \in Fixed \X Strings
    BY DEF Parts
  <2> QED BY <2>1, HashConstants
<1>2. lvCat(<<p[1], p[2]>>) = lvCat(<<q[1], q[2]>>)
  BY DEF Collides, Preimage, macInput
<1>3. p[1] = q[1] /\ p[2] = q[2]
  BY <1>1, <1>2, PairsTellApart
<1> QED BY <1>1, <1>3

\* The HKDF info of Export.
LEMMA ExportTellsApart ==
  ASSUME NEW p \in Parts("export"), NEW q \in Parts("export"), Collides("export", p, q)
  PROVE  p = q
<1>1. /\ p = <<p[1], p[2]>> /\ p[1] \in Seq(Byte) /\ p[2] \in Seq(Byte)
      /\ q = <<q[1], q[2]>> /\ q[1] \in Seq(Byte) /\ q[2] \in Seq(Byte)
  <2>1. p \in Strings \X Strings /\ q \in Strings \X Strings
    BY DEF Parts
  <2> QED BY <2>1, HashConstants
<1>2. lvCat(<<p[1], p[2]>>) = lvCat(<<q[1], q[2]>>)
  BY DEF Collides, Preimage, exportInfo
<1>3. p[1] = q[1] /\ p[2] = q[2]
  BY <1>1, <1>2, PairsTellApart
<1> QED BY <1>1, <1>3

\* No two lists of parts of one use make one string.
LEMMA PreimagesTellApart ==
  ASSUME NEW u \in Uses, NEW p \in Parts(u), NEW q \in Parts(u), Collides(u, p, q)
  PROVE  p = q
<1>1. u \in {"generator", "ci", "transcript", "isk", "macKey", "mac", "export"}
  BY DEF Uses
<1>2. CASE u = "generator"
  BY <1>2, GeneratorTellsApart
<1>3. CASE u = "ci"
  BY <1>3, CITellsApart
<1>4. CASE u = "transcript"
  BY <1>4, TranscriptTellsApart
<1>5. CASE u = "isk"
  BY <1>5, ISKTellsApart
<1>6. CASE u = "macKey"
  BY <1>6, MacKeyTellsApart
<1>7. CASE u = "mac"
  BY <1>7, MacTellsApart
<1>8. CASE u = "export"
  BY <1>8, ExportTellsApart
<1> QED BY <1>1, <1>2, <1>3, <1>4, <1>5, <1>6, <1>7, <1>8

\* DSI, password and padding fill the first block, unless the password is longer.
LEMMA BlockIsFilled ==
  ASSUME NEW prs \in Seq(Byte)
  PROVE  LET used == lengthValueLen(Len(DSI)) + lengthValueLen(Len(prs)) + 1
         IN  Len(lvCat(<<DSI, prs, zpad(prs)>>)) = (IF used < BlockSize THEN BlockSize ELSE used)
<1> DEFINE d == lengthValueLen(Len(DSI))  l == lengthValueLen(Len(prs))
           z == zpad(prs)  k == Len(z)
<1>1. DSI \in Seq(Byte) /\ z \in Seq(Byte) /\ Len(DSI) \in Nat /\ Len(prs) \in Nat
  BY Padding, HashConstants
<1>2. d \in Nat /\ l \in Nat /\ l >= 1
  <2>1. leb128Len[Len(prs)] \in Nat \ {0} /\ leb128Len[Len(DSI)] \in Nat
    BY <1>1, Leb128
  <2> QED BY <1>1, <2>1 DEF lengthValueLen
<1>3. k = IF BlockSize - l - d - 1 > 0 THEN BlockSize - l - d - 1 ELSE 0
  BY Padding
<1>4. Len(lvCat(<<DSI, prs, z>>)) = d + l + lengthValueLen(k)
  <2> DEFINE one == Append(<<>>, DSI)  two == Append(one, prs)
  <2> HIDE DEF z, k
  <2>1. <<>> \in Seq(Seq(Byte)) /\ one \in Seq(Seq(Byte)) /\ two \in Seq(Seq(Byte))
    BY <1>1, EmptySeq
  <2>2. <<DSI, prs, z>> = Append(two, z)
    BY <1>1
  <2> HIDE DEF one, two
  <2>3. /\ lvCat(Append(<<>>, DSI)) = lvCat(<<>>) \o lengthValue(DSI)
        /\ lvCat(Append(one, prs)) = lvCat(one) \o lengthValue(prs)
        /\ lvCat(Append(two, z)) = lvCat(two) \o lengthValue(z)
        /\ lvCat(<<>>) = <<>> /\ lvCat(one) \in Seq(Byte) /\ lvCat(two) \in Seq(Byte)
    BY <1>1, <2>1, LvCatGrows
  <2>4. /\ lengthValue(DSI) \in Seq(Byte) /\ Len(lengthValue(DSI)) = d
        /\ lengthValue(prs) \in Seq(Byte) /\ Len(lengthValue(prs)) = l
        /\ lengthValue(z) \in Seq(Byte) /\ Len(lengthValue(z)) = lengthValueLen(k)
    BY <1>1, FieldAndLength DEF k
  <2> HIDE DEF d, l
  <2>5. Len(lvCat(one)) = d
    <3>1. lvCat(one) = lengthValue(DSI)
      BY <2>3, <2>4, ConcatEmptySeq DEF one
    <3> QED BY <2>4, <3>1
  <2>6. Len(lvCat(two)) = d + l
    <3>1. Len(lvCat(one) \o lengthValue(prs)) = Len(lvCat(one)) + Len(lengthValue(prs))
      BY <2>3, <2>4, ConcatProperties
    <3> QED BY <2>3, <2>4, <2>5, <3>1 DEF two
  <2>7. Len(lvCat(two) \o lengthValue(z)) = Len(lvCat(two)) + Len(lengthValue(z))
    BY <2>3, <2>4, ConcatProperties
  <2> QED BY <2>2, <2>3, <2>4, <2>6, <2>7
<1>5. lengthValueLen(k) = 1 + k
  <2> HIDE DEF z, k
  <2>1. BlockSize < d + 2 + Radix /\ BlockSize \in Nat /\ Radix \in Nat /\ Radix >= 2
    BY PaddingIsShort, HashConstants, RadixAtLeastTwo
  <2> HIDE DEF d, l
  <2>2. k \in Nat /\ k < Radix
    BY <1>2, <1>3, <2>1
  <2>3. leb128Len[k] = IF k < Radix THEN 1 ELSE 1 + leb128Len[k \div Radix]
    BY <2>2, Leb128LenUnfolds
  <2> QED BY <2>2, <2>3 DEF lengthValueLen
<1>6. BlockSize \in Nat
  BY HashConstants
<1>7. Len(lvCat(<<DSI, prs, z>>)) = IF d + l + 1 < BlockSize THEN BlockSize ELSE d + l + 1
  <2>1. Len(lvCat(<<DSI, prs, z>>)) = d + l + (1 + k)
    BY <1>4, <1>5
  <2> HIDE DEF d, l, k, z
  <2> QED BY <1>2, <1>3, <1>6, <2>1
<1> QED BY <1>7

\* The ISK comes from one session id, one shared secret and one transcript: deriveISK
\* appends the transcript without its length, and newIRTranscript joins two lists, but
\* from what is hashed all six parts can be told.
THEOREM ISKMaterialTellsApart ==
  ASSUME NEW sid \in Seq(Byte), NEW k \in Seq(Byte), NEW ya \in Seq(Byte), NEW ada \in Seq(Byte),
         NEW yb \in Seq(Byte), NEW adb \in Seq(Byte),
         NEW sid2 \in Seq(Byte), NEW k2 \in Seq(Byte), NEW ya2 \in Seq(Byte), NEW ada2 \in Seq(Byte),
         NEW yb2 \in Seq(Byte), NEW adb2 \in Seq(Byte),
         iskMaterial(sid, k, transcript(ya, ada, yb, adb)) = iskMaterial(sid2, k2, transcript(ya2, ada2, yb2, adb2))
  PROVE  sid = sid2 /\ k = k2 /\ ya = ya2 /\ ada = ada2 /\ yb = yb2 /\ adb = adb2
<1> DEFINE t == lvCat(<<ya, ada>>)  u == lvCat(<<yb, adb>>)  r == t \o u
           t2 == lvCat(<<ya2, ada2>>)  u2 == lvCat(<<yb2, adb2>>)  r2 == t2 \o u2
<1>1. \A a, b \in Seq(Byte) : lvCat(<<a, b>>) \in Seq(Byte)
  <2> SUFFICES ASSUME NEW a \in Seq(Byte), NEW b \in Seq(Byte) PROVE lvCat(<<a, b>>) \in Seq(Byte)
    OBVIOUS
  <2> DEFINE f == <<a, b>>
  <2>1. f \in Seq(Seq(Byte))
    OBVIOUS
  <2> HIDE DEF f
  <2>2. lvCat(f) \in Seq(Byte)
    BY <2>1, LvCatGrows
  <2> QED BY <2>2 DEF f
<1>2. t \in Seq(Byte) /\ u \in Seq(Byte) /\ t2 \in Seq(Byte) /\ u2 \in Seq(Byte)
  BY <1>1
<1>3. r \in Seq(Byte) /\ r2 \in Seq(Byte)
  <2> HIDE DEF t, u, t2, u2
  <2> QED BY <1>2, ConcatProperties
<1>4. Alike(lvCat(<<sid, k>>), r, lvCat(<<sid2, k2>>), r2)
  BY DEF iskMaterial, transcript, Alike
<1>5. sid = sid2 /\ k = k2 /\ r = r2
  <2> HIDE DEF r, r2
  <2> QED BY <1>3, <1>4, TwoFieldsEnd
<1>6. Alike(lvCat(<<ya, ada>>), u, lvCat(<<ya2, ada2>>), u2)
  BY <1>5 DEF Alike
<1>7. ya = ya2 /\ ada = ada2 /\ u = u2
  <2> HIDE DEF u, u2
  <2> QED BY <1>2, <1>6, TwoFieldsEnd
<1>8. yb = yb2 /\ adb = adb2
  BY <1>7, PairsTellApart
<1> QED BY <1>5, <1>7, <1>8

-----------------------------------------------------------------------------
\* What has been formed is the string of the parts.
HashInv ==
  /\ use \in Uses
  /\ parts \in Parts(use)
  /\ text # <<>> => text = Preimage(use, parts)

\* Hash inputs determine their parts, for any strings, any shares and keys of one length:
\* what generatorString, buildCI, newIRTranscript, deriveISK, confirmationTag and Export
\* hash comes from no other parts, and the password has the first block to itself.
THEOREM HashInputsAreSound == HashSpec => []PreimagesAreSound
<1>1. HashInit => HashInv
  BY DEF HashInit, HashInv
<1>2. HashInv /\ [Form]_hashing => HashInv'
  BY DEF HashInv, Form, hashing
<1>3. HashInv => PreimagesAreSound
  <2> SUFFICES ASSUME HashInv, text # <<>> PROVE PreimagesAreSound
    BY DEF PreimagesAreSound, NoCollision, PasswordFillsItsBlock
  <2>1. NoCollision
    <3> SUFFICES ASSUME NEW p \in Parts(use) \ {parts}, Preimage(use, p) = text PROVE FALSE
      BY DEF NoCollision
    <3>1. Collides(use, p, parts)
      BY DEF HashInv, Collides
    <3> QED BY <3>1, PreimagesTellApart DEF HashInv
  <2>2. PasswordFillsItsBlock
    <3> SUFFICES ASSUME use = "generator" PROVE PasswordFillsItsBlock
      BY DEF PasswordFillsItsBlock
    <3>1. parts \in Strings \X Strings \X Strings
      BY DEF HashInv, Parts
    <3>2. parts[1] \in Seq(Byte)
      BY <3>1, HashConstants
    <3> QED BY <3>2, BlockIsFilled DEF PasswordFillsItsBlock
  <2> QED BY <2>1, <2>2 DEF PreimagesAreSound
<1> QED BY <1>1, <1>2, <1>3, PTL DEF HashSpec

-----------------------------------------------------------------------------
(* The scalar.                                                             *)

\* What a byte of the buffer counts.
Place(k) == Base ^ k

\* The constants, with the powers as numbers.
LEMMA ScalarConstants ==
  /\ Base \in Nat \ {0} /\ Size \in Nat \ {0} /\ MaskLimit \in Nat \ {0} /\ MaxTries \in Nat \ {0}
  /\ Order \in Nat /\ Base % MaskLimit = 0
  /\ Place(0) = 1 /\ \A k \in 0 .. Size : Place(k) \in Nat /\ Place(k + 1) = Base * Place(k)
  /\ MaskLimit * Place(Size - 1) < Order
BY ConstantsFit, PowersOfBase DEF Place

\* A number is determined by its remainder and its quotient.
LEMMA QuotientAndRest ==
  ASSUME NEW m \in Nat \ {0}, NEW k \in Nat, NEW d \in 0 .. m - 1
  PROVE  (d + m * k) \div m = k /\ (d + m * k) % m = d
<1> DEFINE x == d + m * k  q == x \div m  r == x % m
<1>1. m * k \in Nat /\ x \in Nat
  OBVIOUS
<1>2. q \in Int /\ r \in 0 .. m - 1 /\ x = q * m + r
  BY <1>1
<1> HIDE DEF q, r
<1>3. (q - k) * m = d - r
  BY <1>2
<1>4. q - k = 0
  <2>1. CASE q - k >= 1
    <3>1. (q - k) * m >= m
      BY <1>2, <2>1
    <3> QED BY <1>2, <1>3, <3>1
  <2>2. CASE q - k <= -1
    <3>1. (q - k) * m <= -m
      BY <1>2, <2>2
    <3> QED BY <1>2, <1>3, <3>1
  <2> QED BY <1>2, <2>1, <2>2
<1>5. q = k /\ r = d
  BY <1>2, <1>3, <1>4
<1> QED BY <1>5 DEF q, r

\* The loop of Value, from the last byte down.
ValueLoop(d, g) ==
  /\ g \in [0 .. Size -> Nat]
  /\ g[0] = 0
  /\ \A k \in 1 .. Size : g[k] = d[Size - k + 1] + Base * g[k - 1]

\* Value gives what its loop has at the end.
LEMMA ValueLoops ==
  ASSUME NEW d \in Draws
  PROVE  \E g : ValueLoop(d, g) /\ Value(d) = g[Size]
<1> DEFINE next == [p \in (1 .. Size) \X Nat |-> d[Size - p[1] + 1] + Base * p[2]]
           Eq(g) == g = [k \in 0 .. Size |-> IF k = 0 THEN 0 ELSE d[Size - k + 1] + Base * g[k - 1]]
<1>1. Size \in Nat /\ Base \in Nat /\ 0 \in Nat
  BY ScalarConstants
<1>2. \A k \in 1 .. Size : d[Size - k + 1] \in Nat
  <2> TAKE k \in 1 .. Size
  <2>1. Size - k + 1 \in 1 .. Size
    BY <1>1
  <2> QED BY <1>1, <2>1 DEF Draws, RandomBytes
<1>3. next \in [(1 .. Size) \X Nat -> Nat]
  <2>1. ASSUME NEW k \in 1 .. Size, NEW x \in Nat PROVE d[Size - k + 1] + Base * x \in Nat
    BY <1>1, <1>2
  <2> QED BY <2>1
<1>4. PICK g : LoopOf(Nat, Size, 0, next, g)
  <2> HIDE DEF next
  <2> QED BY <1>1, <1>3, LoopExists
<1>5. \A k \in 1 .. Size : k - 1 \in 0 .. Size /\ g[k] = d[Size - k + 1] + Base * g[k - 1]
  <2> TAKE k \in 1 .. Size
  <2>1. k - 1 \in 0 .. Size
    BY <1>1
  <2>2. <<k, g[k - 1]>> \in (1 .. Size) \X Nat
    BY <1>4, <2>1 DEF LoopOf
  <2> QED BY <1>4, <2>1, <2>2 DEF LoopOf
<1>6. ValueLoop(d, g)
  BY <1>4, <1>5 DEF ValueLoop, LoopOf
<1>7. Eq(g)
  <2>1. \A k \in 0 .. Size : g[k] = IF k = 0 THEN 0 ELSE d[Size - k + 1] + Base * g[k - 1]
    <3> TAKE k \in 0 .. Size
    <3>1. k = 0 \/ k \in 1 .. Size
      BY <1>1
    <3> QED BY <1>4, <1>5, <3>1 DEF LoopOf
  <2>2. g \in [0 .. Size -> Nat]
    BY <1>4 DEF LoopOf
  <2> QED BY <2>1, <2>2
<1> DEFINE c == CHOOSE h : Eq(h)
<1>8. Eq(c)
  <2> HIDE DEF Eq
  <2> QED BY <1>7
<1>9. Value(d) = c[Size]
  BY DEF Value
<1> HIDE DEF c
<1>10. SameUpTo(Size, c, g)
  <2>1. c[0] = g[0]
    BY <1>1, <1>4, <1>8 DEF LoopOf
  <2>2. \A k \in 1 .. Size : c[k - 1] = g[k - 1] => c[k] = g[k]
    <3> TAKE k \in 1 .. Size
    <3>1. k \in 0 .. Size /\ k # 0
      BY <1>1
    <3>2. c[k] = d[Size - k + 1] + Base * c[k - 1]
      BY <1>8, <3>1
    <3> QED BY <1>5, <3>2
  <2>3. GoAlike(Size, c, g)
    BY <2>1, <2>2 DEF GoAlike
  <2> QED BY <1>1, <2>3, LoopsAgree
<1> QED BY <1>1, <1>6, <1>9, <1>10 DEF SameUpTo

\* A masked draw is a draw whose last byte is below the limit of the mask.
LEMMA MaskedDraw ==
  ASSUME NEW d \in Draws
  PROVE  /\ Masked(d) \in Draws /\ Masked(d)[Size] \in 0 .. MaskLimit - 1
         /\ Masked(d)[Size] = d[Size] % MaskLimit
         /\ \A j \in 1 .. Size : j # Size => Masked(d)[j] = d[j]
<1>1. Size \in 1 .. Size /\ Base \in Nat /\ MaskLimit \in Nat \ {0} /\ Base # 0
  BY ScalarConstants
<1>2. d[Size] \in 0 .. Base - 1
  BY <1>1 DEF Draws, RandomBytes
<1> DEFINE r == d[Size] % MaskLimit  q == d[Size] \div MaskLimit
<1>3. r \in 0 .. MaskLimit - 1 /\ q \in Int /\ d[Size] = q * MaskLimit + r
  BY <1>1, <1>2
<1> HIDE DEF r, q
<1>4. r <= d[Size]
  <2>1. q >= 0
    <3> SUFFICES ASSUME q <= -1 PROVE FALSE
      BY <1>3
    <3>1. q * MaskLimit <= -MaskLimit
      BY <1>1, <1>3
    <3> QED BY <1>1, <1>2, <1>3, <3>1
  <2>2. q * MaskLimit >= 0
    BY <1>1, <1>3, <2>1
  <2> QED BY <1>1, <1>2, <1>3, <2>2
<1>5. r \in 0 .. Base - 1
  BY <1>1, <1>2, <1>3, <1>4
<1>6. Masked(d) = [d EXCEPT ![Size] = r]
  BY DEF Masked, r
<1> QED BY <1>1, <1>3, <1>5, <1>6 DEF Draws, RandomBytes, r

\* The comment in sampleScalar: masking bounds the value, below the order of the group.
LEMMA MaskedIsBelowOrder ==
  ASSUME NEW d \in Draws
  PROVE  Value(Masked(d)) \in Nat /\ Value(Masked(d)) < Order
<1> DEFINE e == Masked(d)
<1>1. e \in Draws /\ e[Size] \in 0 .. MaskLimit - 1
  BY MaskedDraw
<1> HIDE DEF e
<1>2. PICK g : ValueLoop(e, g) /\ Value(e) = g[Size]
  BY <1>1, ValueLoops
<1>3. Base \in Nat \ {0} /\ Size \in Nat \ {0} /\ MaskLimit \in Nat \ {0}
  BY ScalarConstants
<1> DEFINE P == {k \in Nat : k + 1 <= Size => g[k + 1] + 1 <= MaskLimit * Place(k)}
<1>4. 0 \in P
  <2>1. 1 \in 1 .. Size /\ Size - 1 + 1 = Size /\ 1 - 1 = 0
    BY <1>3
  <2>2. g[1] = e[Size] + Base * 0
    BY <1>2, <2>1 DEF ValueLoop
  <2>3. g[1] + 1 <= MaskLimit
    BY <1>1, <1>3, <2>2
  <2>4. MaskLimit * Place(0) = MaskLimit
    BY <1>3, ScalarConstants
  <2> QED BY <2>3, <2>4
<1>5. ASSUME NEW k \in P PROVE k + 1 \in P
  <2> SUFFICES ASSUME (k + 1) + 1 <= Size PROVE g[(k + 1) + 1] + 1 <= MaskLimit * Place(k + 1)
    <3>1. k + 1 \in Nat
      OBVIOUS
    <3> QED BY <3>1
  <2>1. k \in Nat /\ k + 2 \in 1 .. Size /\ (k + 1) + 1 = k + 2 /\ (k + 2) - 1 = k + 1 /\ k + 1 <= Size
    BY <1>3
  <2> DEFINE x == g[k + 1]  y == e[Size - (k + 2) + 1]  p == Place(k)
  <2>2. g[k + 2] = y + Base * x
    BY <1>2, <2>1 DEF ValueLoop
  <2>3. x \in Nat
    <3>1. k + 1 \in 0 .. Size
      BY <1>3, <2>1
    <3> QED BY <1>2, <3>1 DEF ValueLoop
  <2>4. y \in 0 .. Base - 1
    <3>1. Size - (k + 2) + 1 \in 1 .. Size
      BY <1>3, <2>1
    <3> QED BY <1>1, <3>1 DEF Draws, RandomBytes
  <2>5. p \in Nat /\ Place(k + 1) = Base * p
    <3>1. k \in 0 .. Size
      BY <1>3, <2>1
    <3> QED BY <3>1, ScalarConstants
  <2>6. x + 1 <= MaskLimit * p
    BY <2>1
  <2> HIDE DEF x, y, p, P
  <2>7. (y + Base * x) + 1 <= MaskLimit * (Base * p)
    <3>1. (y + Base * x) + 1 <= Base * (x + 1)
      BY <1>3, <2>3, <2>4
    <3>2. MaskLimit * p \in Nat
      BY <1>3, <2>5
    <3> DEFINE m == MaskLimit * p
    <3>3. Base * (x + 1) <= Base * m
      <4>1. x + 1 <= m /\ m \in Nat
        BY <2>6, <3>2
      <4> HIDE DEF m
      <4> QED BY <1>3, <2>3, <4>1
    <3>4. Base * m = MaskLimit * (Base * p)
      BY <1>3, <2>5
    <3>5. Base * x \in Nat /\ Base * (x + 1) \in Nat /\ Base * m \in Nat
      <4>1. m \in Nat
        BY <3>2
      <4> HIDE DEF m
      <4> QED BY <1>3, <2>3, <4>1
    <3> HIDE DEF m
    <3>6. (y + Base * x) + 1 <= Base * m
      BY <3>1, <3>3, <3>5, <2>4, <1>3
    <3> QED BY <3>4, <3>6
  <2> QED BY <2>1, <2>2, <2>5, <2>7
<1>6. \A k \in Nat : k \in P
  <2> HIDE DEF P
  <2>1. P \in SUBSET Nat
    BY DEF P
  <2> QED BY <1>4, <1>5, <2>1, NumbersByInduction
<1>7. Size - 1 \in Nat /\ (Size - 1) + 1 = Size
  BY <1>3
<1>8. g[Size] + 1 <= MaskLimit * Place(Size - 1)
  BY <1>6, <1>7
<1>9. g[Size] \in Nat
  <2>1. Size \in 0 .. Size
    BY <1>3
  <2> QED BY <1>2, <2>1 DEF ValueLoop
<1> DEFINE w == MaskLimit * Place(Size - 1)
<1>10. w \in Nat /\ w < Order /\ Order \in Nat /\ g[Size] + 1 <= w
  <2>1. Place(Size - 1) \in Nat
    <3>1. Size - 1 \in 0 .. Size
      BY <1>3
    <3> QED BY <3>1, ScalarConstants
  <2> QED BY <1>3, <1>8, <2>1, ScalarConstants
<1> HIDE DEF w
<1> QED BY <1>2, <1>9, <1>10 DEF e

\* A draw is its bytes.
LEMMA SameDraw ==
  ASSUME NEW d \in Draws, NEW e \in Draws, \A j \in 1 .. Size : d[j] = e[j]
  PROVE  d = e
<1>1. d = [j \in 1 .. Size |-> d[j]] /\ e = [j \in 1 .. Size |-> e[j]]
  BY DEF Draws
<1>2. [j \in 1 .. Size |-> d[j]] = [j \in 1 .. Size |-> e[j]]
  OBVIOUS
<1> QED BY <1>1, <1>2

\* Different draws are different numbers.
LEMMA DrawsAreNumbers ==
  ASSUME NEW d \in Draws, NEW e \in Draws, Value(d) = Value(e)
  PROVE  d = e
<1>1. PICK g : ValueLoop(d, g) /\ Value(d) = g[Size]
  BY ValueLoops
<1>2. PICK h : ValueLoop(e, h) /\ Value(e) = h[Size]
  BY ValueLoops
<1>3. Base \in Nat \ {0} /\ Size \in Nat \ {0}
  BY ScalarConstants
<1>4. ASSUME NEW k \in 1 .. Size, g[k] = h[k]
      PROVE  g[k - 1] = h[k - 1] /\ d[Size - k + 1] = e[Size - k + 1]
  <2> DEFINE x == g[k - 1]  y == h[k - 1]  a == d[Size - k + 1]  b == e[Size - k + 1]
  <2>1. k - 1 \in 0 .. Size /\ Size - k + 1 \in 1 .. Size
    BY <1>3
  <2>2. x \in Nat /\ y \in Nat
    BY <1>1, <1>2, <2>1 DEF ValueLoop
  <2>3. a \in 0 .. Base - 1 /\ b \in 0 .. Base - 1
    BY <2>1 DEF Draws, RandomBytes
  <2>4. g[k] = a + Base * x /\ h[k] = b + Base * y
    BY <1>1, <1>2 DEF ValueLoop
  <2>5. a + Base * x = b + Base * y
    BY <1>4, <2>4
  <2> HIDE DEF a, b, x, y
  <2>6. /\ (a + Base * x) \div Base = x /\ (a + Base * x) % Base = a
        /\ (b + Base * y) \div Base = y /\ (b + Base * y) % Base = b
    BY <1>3, <2>2, <2>3, QuotientAndRest
  <2>7. x = y /\ a = b
    BY <2>5, <2>6
  <2> QED BY <2>7 DEF a, b, x, y
<1> DEFINE P == {t \in Nat : t <= Size => g[Size - t] = h[Size - t]}
<1>5. 0 \in P
  <2>1. g[Size] = h[Size]
    BY <1>1, <1>2
  <2>2. Size - 0 = Size
    BY <1>3
  <2>3. g[Size - 0] = h[Size - 0]
    BY <2>1, <2>2
  <2> QED BY <2>3
<1>6. ASSUME NEW t \in P PROVE t + 1 \in P
  <2> SUFFICES ASSUME t + 1 <= Size PROVE g[Size - (t + 1)] = h[Size - (t + 1)]
    <3>1. t + 1 \in Nat
      OBVIOUS
    <3> QED BY <3>1
  <2>1. Size - t \in 1 .. Size /\ (Size - t) - 1 = Size - (t + 1) /\ g[Size - t] = h[Size - t]
    BY <1>3
  <2> QED BY <1>4, <2>1
<1>7. \A t \in Nat : t \in P
  <2> HIDE DEF P
  <2>1. P \in SUBSET Nat
    BY DEF P
  <2> QED BY <1>5, <1>6, <2>1, NumbersByInduction
<1>8. ASSUME NEW j \in 1 .. Size PROVE d[j] = e[j]
  <2>1. Size - j + 1 \in 1 .. Size /\ j - 1 \in Nat /\ j - 1 <= Size
        /\ Size - (j - 1) = Size - j + 1 /\ Size - (Size - j + 1) + 1 = j
    BY <1>3
  <2>2. g[Size - j + 1] = h[Size - j + 1]
    BY <1>7, <2>1
  <2> QED BY <1>4, <2>1, <2>2
<1>9. \A j \in 1 .. Size : d[j] = e[j]
  BY <1>8
<1> QED BY <1>9, SameDraw

\* Every value that a masked draw can have is that of equally many draws: one for each
\* value of the bits that the mask takes away.
LEMMA OddsAreEven ==
  ASSUME NEW e \in Draws
  PROVE  Odds(Value(Masked(e))) = Base \div MaskLimit
<1> DEFINE H == Base \div MaskLimit
           low == e[Size] % MaskLimit
           Fiber == {d \in Draws : Value(Masked(d)) = Value(Masked(e))}
           f == [h \in 0 .. H - 1 |-> [e EXCEPT ![Size] = low + MaskLimit * h]]
<1>1. Base \in Nat \ {0} /\ Size \in Nat \ {0} /\ MaskLimit \in Nat \ {0} /\ Size \in 1 .. Size
  BY ScalarConstants
<1>2. H \in Nat /\ Base = MaskLimit * H
  <2>1. H \in Int /\ Base = H * MaskLimit + (Base % MaskLimit) /\ Base % MaskLimit = 0
    BY <1>1, ScalarConstants
  <2> HIDE DEF H
  <2>2. H >= 0
    <3> SUFFICES ASSUME H <= -1 PROVE FALSE
      BY <2>1
    <3>1. H * MaskLimit <= -MaskLimit
      BY <1>1, <2>1
    <3> QED BY <1>1, <2>1, <3>1
  <2> QED BY <1>1, <2>1, <2>2
<1>3. low \in 0 .. MaskLimit - 1
  BY MaskedDraw
<1> HIDE DEF H, low
<1>4. ASSUME NEW h \in 0 .. H - 1
      PROVE  low + MaskLimit * h \in 0 .. Base - 1 /\ (low + MaskLimit * h) % MaskLimit = low
             /\ (low + MaskLimit * h) \div MaskLimit = h
  <2>1. h + 1 <= H /\ h \in Nat
    BY <1>2
  <2>2. MaskLimit * (h + 1) <= MaskLimit * H
    BY <1>1, <1>2, <2>1
  <2>3. MaskLimit * (h + 1) = MaskLimit * h + MaskLimit /\ MaskLimit * h \in Nat
    BY <1>1, <2>1
  <2>4. low + MaskLimit * h \in 0 .. Base - 1
    BY <1>1, <1>2, <1>3, <2>2, <2>3
  <2> QED BY <1>1, <1>3, <2>1, <2>4, QuotientAndRest
<1>5. ASSUME NEW h \in 0 .. H - 1
      PROVE  /\ f[h] \in Draws /\ f[h][Size] = low + MaskLimit * h
             /\ \A j \in 1 .. Size : j # Size => f[h][j] = e[j]
  BY <1>1, <1>4 DEF Draws, RandomBytes
<1>6. ASSUME NEW h \in 0 .. H - 1 PROVE f[h] \in Fiber
  <2> DEFINE d == f[h]
  <2>1. d \in Draws /\ d[Size] = low + MaskLimit * h /\ \A j \in 1 .. Size : j # Size => d[j] = e[j]
    BY <1>5
  <2>2. d[Size] % MaskLimit = low
    BY <1>4, <2>1
  <2> HIDE DEF d, f
  <2>3. \A j \in 1 .. Size : Masked(d)[j] = Masked(e)[j]
    <3> TAKE j \in 1 .. Size
    <3>1. CASE j = Size
      BY <2>1, <2>2, <3>1, MaskedDraw DEF low
    <3>2. CASE j # Size
      BY <2>1, <3>2, MaskedDraw
    <3> QED BY <3>1, <3>2
  <2>4. Masked(d) \in Draws /\ Masked(e) \in Draws
    BY <2>1, MaskedDraw
  <2>5. Masked(d) = Masked(e)
    BY <2>3, <2>4, SameDraw
  <2> QED BY <2>1, <2>5 DEF d
<1>7. ASSUME NEW g \in 0 .. H - 1, NEW h \in 0 .. H - 1, f[g] = f[h] PROVE g = h
  <2>1. low + MaskLimit * g = low + MaskLimit * h
    BY <1>5, <1>7
  <2> QED BY <1>4, <2>1
<1>8. ASSUME NEW d \in Fiber PROVE \E h \in 0 .. H - 1 : f[h] = d
  <2>1. d \in Draws /\ Masked(d) \in Draws /\ Masked(e) \in Draws /\ Value(Masked(d)) = Value(Masked(e))
    BY MaskedDraw
  <2>2. Masked(d) = Masked(e)
    BY <2>1, DrawsAreNumbers
  <2>3. \A j \in 1 .. Size : j # Size => d[j] = e[j]
    BY <2>1, <2>2, MaskedDraw
  <2>4. d[Size] % MaskLimit = low
    BY <2>1, <2>2, MaskedDraw DEF low
  <2>5. d[Size] \in 0 .. Base - 1
    BY <1>1, <2>1 DEF Draws, RandomBytes
  <2> DEFINE h == d[Size] \div MaskLimit
  <2>6. h \in Int /\ d[Size] = h * MaskLimit + low
    BY <1>1, <2>4, <2>5
  <2> HIDE DEF h
  <2>7. h \in 0 .. H - 1
    <3>1. h >= 0
      <4> SUFFICES ASSUME h <= -1 PROVE FALSE
        BY <2>6
      <4>1. h * MaskLimit <= -MaskLimit
        BY <1>1, <2>6
      <4> QED BY <1>1, <1>3, <2>5, <2>6, <4>1
    <3>2. h < H
      <4> SUFFICES ASSUME h >= H PROVE FALSE
        BY <1>2, <2>6
      <4>1. h * MaskLimit >= MaskLimit * H
        BY <1>1, <1>2, <2>6
      <4> QED BY <1>1, <1>2, <1>3, <2>5, <2>6, <4>1
    <3> QED BY <1>2, <2>6, <3>1, <3>2
  <2>8. d[Size] = low + MaskLimit * h
    BY <1>1, <1>3, <2>6
  <2>9. f[h] = d
    <3> DEFINE c == f[h]
    <3>1. c \in Draws /\ c[Size] = low + MaskLimit * h /\ \A j \in 1 .. Size : j # Size => c[j] = e[j]
      BY <1>5, <2>7
    <3> HIDE DEF c, f
    <3>2. \A j \in 1 .. Size : c[j] = d[j]
      BY <2>3, <2>8, <3>1
    <3>3. c = d
      BY <2>1, <3>1, <3>2, SameDraw
    <3> QED BY <3>3 DEF c
  <2> QED BY <2>7, <2>9
<1>9. ExistsBijection(0 .. H - 1, Fiber)
  <2>1. f \in [0 .. H - 1 -> Fiber]
    BY <1>6
  <2> HIDE DEF f, Fiber
  <2>2. f \in Bijection(0 .. H - 1, Fiber)
    BY <1>7, <1>8, <2>1 DEF Bijection, Injection, Surjection, IsInjective
  <2> QED BY <2>2 DEF ExistsBijection
<1>10. IsFiniteSet(0 .. H - 1) /\ Cardinality(0 .. H - 1) = H
  <2>1. 0 \in Int /\ H - 1 \in Int /\ (IF 0 > H - 1 THEN 0 ELSE H - 1 - 0 + 1) = H
    BY <1>2
  <2> QED BY <2>1, FS_Interval
<1>11. Cardinality(Fiber) = H
  <2> HIDE DEF Fiber
  <2> QED BY <1>9, <1>10, FS_Bijection
<1> QED BY <1>11 DEF Odds, H

-----------------------------------------------------------------------------
(* The loop of sampleScalar.                                              *)

\* What holds of the loop at every step.  A draw that was turned away was zero, for a
\* masked one cannot be beyond the group; and a scalar is the value of some masked draw.
Sampling ==
  /\ scratch \in Draws /\ filled \in 0 .. Size /\ draws \in Seq(Draws)
  /\ pc \in {"draw", "scalar", "reader", "exhausted"}

TurnedAwayAreZero == \A try \in 1 .. Len(draws) : Value(Masked(draws[try])) = 0

LoopInv ==
  /\ Sampling
  /\ pc = "draw" => Len(draws) < MaxTries
  /\ pc # "draw" => scratch = Zeros
  /\ pc \in {"draw", "exhausted"} => TurnedAwayAreZero
  /\ pc = "exhausted" => Len(draws) = MaxTries
  /\ pc = "scalar" => \E d \in Draws : Usable(scalar) /\ scalar = Value(Masked(d))

\* A cleared buffer is a draw.
LEMMA ZerosIsADraw == Zeros \in Draws
BY ScalarConstants DEF Zeros, Draws, RandomBytes

\* The loop starts with no draw judged.
LEMMA LoopInvAtFirst == SampleInit => LoopInv
<1> SUFFICES ASSUME SampleInit PROVE LoopInv
  OBVIOUS
<1>1. draws = <<>> /\ scratch = Zeros /\ filled = 0 /\ pc = "draw"
  BY DEF SampleInit
<1>2. draws \in Seq(Draws) /\ Len(draws) = 0
  BY <1>1
<1>3. MaxTries \in Nat \ {0} /\ Size \in Nat \ {0}
  BY ScalarConstants
<1> QED BY <1>1, <1>2, <1>3, ZerosIsADraw DEF LoopInv, Sampling, TurnedAwayAreZero

\* One more byte, or the failure of the reader: nothing is judged.
LEMMA LoopInvReads == LoopInv /\ (ReadByte \/ ReaderFails) => LoopInv'
<1> SUFFICES ASSUME LoopInv, ReadByte \/ ReaderFails PROVE LoopInv'
  OBVIOUS
<1>1. Size \in Nat \ {0}
  BY ScalarConstants
<1>2. pc = "draw" /\ filled < Size /\ draws' = draws /\ scalar' = scalar
  BY DEF ReadByte, ReaderFails, Drawing
<1>3. TurnedAwayAreZero' <=> TurnedAwayAreZero
  BY <1>2 DEF TurnedAwayAreZero
<1>4. CASE ReadByte
  <2>1. scratch' \in Draws /\ filled' \in 0 .. Size
    BY <1>1, <1>4 DEF ReadByte, Drawing, LoopInv, Sampling, Draws
  <2>2. pc' = "draw"
    BY <1>4, <1>2 DEF ReadByte
  <2> QED BY <1>2, <1>3, <2>1, <2>2 DEF LoopInv, Sampling
<1>5. CASE ReaderFails
  <2>1. pc' = "reader" /\ scratch' = Zeros /\ filled' = filled
    BY <1>5 DEF ReaderFails
  <2> QED BY <1>2, <1>3, <2>1, ZerosIsADraw DEF LoopInv, Sampling
<1> QED BY <1>4, <1>5

\* A draw is judged: taken, or turned away because it is zero.
LEMMA LoopInvJudges == LoopInv /\ Judge => LoopInv'
<1> SUFFICES ASSUME LoopInv, Judge PROVE LoopInv'
  OBVIOUS
<1> DEFINE worth == Value(Masked(scratch))
<1>1. pc = "draw" /\ draws' = Append(draws, scratch)
  BY DEF Judge
<1>2. scratch \in Draws /\ filled \in 0 .. Size /\ draws \in Seq(Draws) /\ TurnedAwayAreZero /\ Len(draws) < MaxTries
  BY <1>1 DEF LoopInv, Sampling
<1>3. draws' \in Seq(Draws) /\ Len(draws') = Len(draws) + 1 /\ Len(draws) \in Nat
  BY <1>1, <1>2
<1>4. MaxTries \in Nat /\ 0 \in 0 .. Size
  BY ScalarConstants
<1>5. worth \in Nat /\ worth < Order
  BY <1>2, MaskedIsBelowOrder
<1>6. Masked(scratch) \in Draws
  BY <1>2, MaskedDraw
<1>7. ASSUME ~Usable(worth) PROVE TurnedAwayAreZero'
  <2>1. worth = 0
    BY <1>5, <1>7 DEF Usable
  <2>2. ASSUME NEW try \in 1 .. Len(draws') PROVE Value(Masked(draws'[try])) = 0
    <3>1. CASE try = Len(draws) + 1
      <4>1. draws'[try] = scratch
        BY <1>1, <1>2, <3>1
      <4> QED BY <2>1, <4>1
    <3>2. CASE try # Len(draws) + 1
      <4>1. try \in 1 .. Len(draws)
        BY <1>3, <3>2
      <4>2. draws'[try] = draws[try]
        BY <1>1, <1>2, <4>1
      <4> QED BY <1>2, <4>1, <4>2 DEF TurnedAwayAreZero
    <3> QED BY <3>1, <3>2
  <2> QED BY <2>2 DEF TurnedAwayAreZero
<1>8. \/ Usable(worth) /\ pc' = "scalar" /\ scalar' = worth /\ scratch' = Zeros /\ filled' = filled
      \/ ~Usable(worth) /\ Len(draws') < MaxTries /\ scratch' = Masked(scratch) /\ filled' = 0 /\ pc' = pc
      \/ ~Usable(worth) /\ Len(draws') >= MaxTries /\ pc' = "exhausted" /\ scratch' = Zeros /\ filled' = filled
  BY DEF Judge
<1> HIDE DEF worth
<1>9. CASE Usable(worth) /\ pc' = "scalar" /\ scalar' = worth /\ scratch' = Zeros /\ filled' = filled
  <2>1. \E d \in Draws : Usable(scalar') /\ scalar' = Value(Masked(d))
    BY <1>2, <1>9 DEF worth
  <2>2. (\E d \in Draws : Usable(scalar) /\ scalar = Value(Masked(d)))'
    BY <2>1 DEF Usable
  <2>3. Sampling'
    BY <1>2, <1>3, <1>9, ZerosIsADraw DEF Sampling
  <2> QED BY <1>9, <2>2, <2>3 DEF LoopInv
<1>10. CASE ~Usable(worth) /\ Len(draws') < MaxTries /\ scratch' = Masked(scratch) /\ filled' = 0 /\ pc' = pc
  <2>1. Sampling'
    BY <1>1, <1>3, <1>4, <1>6, <1>10 DEF Sampling
  <2> QED BY <1>1, <1>7, <1>10, <2>1 DEF LoopInv
<1>11. CASE ~Usable(worth) /\ Len(draws') >= MaxTries /\ pc' = "exhausted" /\ scratch' = Zeros /\ filled' = filled
  <2>1. Sampling'
    BY <1>2, <1>3, <1>11, ZerosIsADraw DEF Sampling
  <2>2. Len(draws') = MaxTries
    BY <1>2, <1>3, <1>4, <1>11
  <2> QED BY <1>7, <1>11, <2>1, <2>2 DEF LoopInv
<1> QED BY <1>8, <1>9, <1>10, <1>11

\* The invariant of the loop.
LEMMA LoopInvHolds == SampleSpec => []LoopInv
<1>1. LoopInv /\ [SampleNext]_sampling => LoopInv'
  <2> SUFFICES ASSUME LoopInv, [SampleNext]_sampling PROVE LoopInv'
    OBVIOUS
  <2>1. CASE ReadByte \/ ReaderFails
    BY <2>1, LoopInvReads
  <2>2. CASE Judge
    BY <2>2, LoopInvJudges
  <2>3. CASE UNCHANGED sampling
    BY <2>3 DEF sampling, LoopInv, Sampling, TurnedAwayAreZero, Usable
  <2> QED BY <2>1, <2>2, <2>3 DEF SampleNext
<1> QED BY <1>1, LoopInvAtFirst, PTL DEF SampleSpec

\* sampleScalar gives up only on a reader that delivered MaxTries buffers in full, each
\* of them zero under the mask: no draw is ever rejected for its size, with any byte
\* range, buffer, mask, order and number of tries that fit together.
THEOREM SamplingGivesUpOnlyOnZeros == SampleSpec => []GivesUpOnlyOnZeros
<1>1. LoopInv => GivesUpOnlyOnZeros
  BY DEF LoopInv, TurnedAwayAreZero, GivesUpOnlyOnZeros
<1> QED BY <1>1, LoopInvHolds, PTL

\* The scalar that sampleScalar returns is in the group and not zero, every scalar that
\* some draw gives is given by equally many, and the buffer is cleared on every way out.
THEOREM ScalarsAreEvenlyDrawn == SampleSpec => []EvenOdds
<1>1. ASSUME LoopInv, pc = "scalar" PROVE scalar \in 1 .. Order - 1
  <2>1. PICK d \in Draws : Usable(scalar) /\ scalar = Value(Masked(d))
    BY <1>1 DEF LoopInv
  <2>2. scalar \in Nat /\ scalar < Order /\ scalar # 0
    BY <2>1, MaskedIsBelowOrder DEF Usable
  <2> QED BY <2>2, ScalarConstants
<1>2. ASSUME LoopInv, pc = "scalar", NEW k \in 1 .. Order - 1 PROVE Odds(k) \in {0, Odds(scalar)}
  <2>1. PICK d \in Draws : scalar = Value(Masked(d))
    BY <1>2 DEF LoopInv
  <2>2. Odds(scalar) = Base \div MaskLimit
    BY <2>1, OddsAreEven
  <2>3. CASE \E e \in Draws : Value(Masked(e)) = k
    BY <2>2, <2>3, OddsAreEven
  <2>4. CASE ~ \E e \in Draws : Value(Masked(e)) = k
    <3>1. {e \in Draws : Value(Masked(e)) = k} = {}
      BY <2>4
    <3>2. Odds(k) = 0
      BY <3>1, FS_EmptySet DEF Odds
    <3> QED BY <3>2
  <2> QED BY <2>3, <2>4
<1>3. LoopInv => EvenOdds
  BY <1>1, <1>2 DEF LoopInv, EvenOdds
<1> QED BY <1>3, LoopInvHolds, PTL
=============================================================================
