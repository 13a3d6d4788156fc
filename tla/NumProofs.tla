------------------------------- MODULE NumProofs -------------------------------
(***************************************************************************)
(* Lemmas about the builder primitives and the Store implementations of    *)
(* src/num/mod.rs, for every width of a byte and every capacity of a cell: *)
(* what store_uint, store_u128 and each store_into append.                 *)
(***************************************************************************)
EXTENDS Num, TLAPS, SequenceTheorems, FiniteSetTheorems

\* The builder records of Num: a bit sequence and the error so far.
Builder == [bits : Seq({0, 1}), err : {"ok", "CellOverflow", "IntOverflow"}]

-----------------------------------------------------------------------------
(* Arithmetic facts.                                                       *)

\* A power of two with a natural exponent is a positive integer: it is
\* the number of subsets of 1..n.
LEMMA PowPos ==
  ASSUME NEW n \in Nat
  PROVE  2^n \in Nat \ {0}
  <1>1. IsFiniteSet(1..n) /\ Cardinality(1..n) = n
    BY FS_Interval
  <1>2. IsFiniteSet(SUBSET (1..n)) /\ Cardinality(SUBSET (1..n)) = 2^n
    BY <1>1, FS_SUBSET
  <1>3. Cardinality(SUBSET (1..n)) \in Nat
    BY <1>2, FS_CardinalityType
  <1>4. SUBSET (1..n) # {}
    OBVIOUS
  <1>5. Cardinality(SUBSET (1..n)) # 0
    BY <1>2, <1>4, FS_EmptySet
  <1>6. QED
    BY <1>2, <1>3, <1>5

LEMMA PowInt ==
  ASSUME NEW n \in Nat
  PROVE  2^n \in Int
  BY PowPos

\* leading_zeros of a w-bit integer is between 0 and w.
LEMMA LeadingZerosRange ==
  ASSUME NEW v, NEW w \in Nat
  PROVE  LeadingZeros(v, w) \in 0..w
  <1> DEFINE P(k) == v < 2^k /\ (k = 0 \/ 2^(k - 1) <= v)
  <1>1. CASE \E k \in 0..w : P(k)
    <2>1. (CHOOSE k \in 0..w : P(k)) \in 0..w
      BY <1>1
    <2>2. QED
      BY <1>1, <2>1 DEF LeadingZeros
  <1>2. CASE ~\E k \in 0..w : P(k)
    BY <1>2 DEF LeadingZeros
  <1>3. QED
    BY <1>1, <1>2

\* The n low bits of an integer are n bits.
LEMMA BitsType ==
  ASSUME NEW v \in Int, NEW n \in Nat
  PROVE  Bits(v, n) \in Seq({0, 1}) /\ Len(Bits(v, n)) = n
  <1>1. \A i \in 1..n : (v \div 2^(n - i)) % 2 \in {0, 1}
    <2> SUFFICES ASSUME NEW i \in 1..n PROVE (v \div 2^(n - i)) % 2 \in {0, 1}
      OBVIOUS
    <2>1. 2^(n - i) \in Int
      BY PowInt
    <2>2. QED
      BY <2>1
  <1>2. QED
    BY <1>1 DEF Bits

-----------------------------------------------------------------------------
(* The builder primitive.                                                  *)

\* store_uint appends n bits when they fit, fails with CellOverflow and
\* appends nothing when they do not, and does nothing after an error.
LEMMA StoreUintSpec ==
  ASSUME NEW r \in Builder, NEW v \in Int, NEW n \in Nat
  PROVE  /\ StoreUint(r, v, n) \in Builder
         /\ r.err # "ok" => StoreUint(r, v, n) = r
         /\ r.err = "ok" /\ Len(r.bits) + n <= Cap =>
              /\ StoreUint(r, v, n).err = "ok"
              /\ Len(StoreUint(r, v, n).bits) = Len(r.bits) + n
         /\ r.err = "ok" /\ Len(r.bits) + n > Cap =>
              /\ StoreUint(r, v, n).err # "ok"
              /\ StoreUint(r, v, n).bits = r.bits
  <1>0. r.bits \in Seq({0, 1}) /\ r.err \in {"ok", "CellOverflow", "IntOverflow"}
    BY DEF Builder
  <1>1. v % 2^n \in Int
    BY PowPos
  <1>2. Bits(v % 2^n, n) \in Seq({0, 1}) /\ Len(Bits(v % 2^n, n)) = n
    BY <1>1, BitsType
  <1>3. r.bits \o Bits(v % 2^n, n) \in Seq({0, 1})
        /\ Len(r.bits \o Bits(v % 2^n, n)) = Len(r.bits) + n
    <2>1. \A b \in Seq({0, 1}) : r.bits \o b \in Seq({0, 1}) /\ Len(r.bits \o b) = Len(r.bits) + Len(b)
      BY <1>0, ConcatProperties
    <2>2. QED
      BY <1>2, <2>1, Zenon
  <1>4. r = [bits |-> r.bits, err |-> r.err]
    BY DEF Builder
  <1>5. CASE r.err # "ok"
    <2>1. StoreUint(r, v, n) = r
      BY <1>5 DEF StoreUint
    <2>2. QED
      BY <1>5, <2>1
  <1>6. CASE r.err = "ok" /\ Len(r.bits) + n <= Cap
    <2>0. ~(Len(r.bits) + n > Cap) /\ ~(r.err # "ok")
      BY <1>0, <1>6, NumAssumption
    <2>1. StoreUint(r, v, n) = [bits |-> r.bits \o Bits(v % 2^n, n), err |-> "ok"]
      BY <1>4, <1>6, <2>0, Zenon DEF StoreUint
    <2>2. QED
      BY <1>0, <1>3, <1>6, <2>1, NumAssumption DEF Builder
  <1>7. CASE r.err = "ok" /\ Len(r.bits) + n > Cap
    <2>1. StoreUint(r, v, n) = [bits |-> r.bits, err |-> "CellOverflow"]
      BY <1>4, <1>7, Zenon DEF StoreUint, Fail
    <2>2. QED
      BY <1>0, <1>7, <2>1, NumAssumption DEF Builder
  <1>8. QED
    BY <1>0, <1>5, <1>6, <1>7, NumAssumption

\* q is what a store of n bits into r gives: a builder; r itself after an
\* error; n more bits and no error when they fit.
StoreSpec(q, r, n) ==
  /\ q \in Builder
  /\ r.err # "ok" => q = r
  /\ r.err = "ok" /\ Len(r.bits) + n <= Cap => q.err = "ok" /\ Len(q.bits) = Len(r.bits) + n

LEMMA StoreUintGrows ==
  ASSUME NEW r \in Builder, NEW v \in Int, NEW n \in Nat
  PROVE  StoreSpec(StoreUint(r, v, n), r, n)
  BY StoreUintSpec DEF StoreSpec

\* The high part store_u128 writes first.
U128High(r, v, bits) == StoreUint(r, v \div 2^U64Bits, bits - U64Bits)

\* store_u128 of bits bits appends bits bits when they fit.
LEMMA StoreU128Grows ==
  ASSUME NEW r \in Builder, NEW v \in Int, NEW bits \in Nat
  PROVE  StoreSpec(StoreU128(r, v, bits), r, bits)
  <1>0. U64Bits \in Nat /\ 2^U64Bits \in Nat \ {0}
    <2>1. U64Bits \in Nat
      BY NumAssumption DEF U64Bits
    <2>2. QED
      BY <2>1, PowPos
  <1>1. CASE bits >= U64Bits
    <2>1. v \div 2^U64Bits \in Int /\ v % 2^U64Bits \in Int /\ bits - U64Bits \in Nat
      BY <1>0, <1>1
    <2>2. StoreSpec(U128High(r, v, bits), r, bits - U64Bits)
      BY <2>1, StoreUintGrows DEF U128High
    <2>3. StoreSpec(StoreUint(U128High(r, v, bits), v % 2^U64Bits, U64Bits),
                    U128High(r, v, bits), U64Bits)
      BY <1>0, <2>1, <2>2, StoreUintGrows DEF StoreSpec
    <2>4. StoreU128(r, v, bits) = StoreUint(U128High(r, v, bits), v % 2^U64Bits, U64Bits)
      BY <1>1 DEF StoreU128, U128High
    <2>5. QED
      BY <1>0, <2>2, <2>3, <2>4, NumAssumption DEF StoreSpec, Builder
  <1>2. CASE ~(bits >= U64Bits)
    <2>1. StoreU128(r, v, bits) = StoreUint(r, v, bits)
      BY <1>2 DEF StoreU128
    <2>2. QED
      BY <2>1, StoreUintGrows
  <1>3. QED
    BY <1>1, <1>2

-----------------------------------------------------------------------------
(* The sizes the var-uint stores compute.                                  *)

\* LEN_BITS of a var-uint type is between 0 and 8.
LEMMA LenBitsRange ==
  ASSUME NEW t \in VarUintTypes
  PROVE  LEN_BITS(t) \in 0..8
  <1>1. LeadingZeros(MaxBytes[t], 8) \in 0..8
    BY LeadingZerosRange
  <1>2. QED
    BY <1>1 DEF LEN_BITS

\* Arithmetic on opaque integer terms.
LEMMA NotGreater ==
  ASSUME NEW x \in Int, NEW c \in Int, ~(x > c)
  PROVE  x <= c
  OBVIOUS

LEMMA Assoc ==
  ASSUME NEW a \in Int, NEW l \in Int, NEW k \in Int
  PROVE  (a + l) + k = a + (l + k)
  OBVIOUS

LEMMA SumBound ==
  ASSUME NEW a \in Nat, NEW l \in Nat, NEW k \in Nat, NEW c \in Int, a + l + k <= c
  PROVE  a + l <= c
  OBVIOUS

\* q \div d of a q in 0..(m * d) is in 0..m.
LEMMA DivRange ==
  ASSUME NEW m \in Nat, NEW d \in Nat \ {0}, NEW q \in 0..(m * d)
  PROVE  q \div d \in 0..m
  BY SMT

\* The byte count of a var-uint is between 0 and the bytes of its inner
\* integer.
LEMMA ByteLenRange ==
  ASSUME NEW t \in VarUintTypes, NEW v
  PROVE  ByteLen(t, v) \in 0..InnerBytes[t]
  <1>1. InnerBytes[t] \in Nat /\ InnerBytes[t] * ByteBits \in Nat
    BY NumAssumption DEF InnerBytes, VarUintTypes
  <1>2. LeadingZeros(v, InnerBytes[t] * ByteBits) \in 0..(InnerBytes[t] * ByteBits)
    BY <1>1, LeadingZerosRange
  <1>3. LeadingZeros(v, InnerBytes[t] * ByteBits) \div ByteBits \in 0..InnerBytes[t]
    BY <1>1, <1>2, DivRange, NumAssumption
  <1>4. QED
    BY <1>1, <1>3 DEF ByteLen

-----------------------------------------------------------------------------
(* store_into of each type, into a builder without an error.               *)

\* A store into b either fails and leaves b as it was, or succeeds and
\* appends exactly k bits.
AllOrExactly(q, b, k) ==
  /\ q \in Builder
  /\ q.err = "ok" => Len(q.bits) = Len(b) + k
  /\ q.err # "ok" => q.bits = b

\* The length prefix a var-uint store writes first.
VarUintPrefix(r, t, v) == StoreUint(r, ByteLen(t, v), LEN_BITS(t))

\* What the var-uint store writes after the prefix.
VarUintBody(r, t, v) ==
  IF t = "Tokens" THEN StoreU128(VarUintPrefix(r, t, v), v, ByteLen(t, v) * ByteBits)
  ELSE StoreUint(VarUintPrefix(r, t, v), v, ByteLen(t, v) * ByteBits)

\* store_into of VarUint24, VarUint56 and Tokens: the capacity check
\* covers the prefix and the bytes, so a store that passes it writes both.
LEMMA StoreVarUintExact ==
  ASSUME NEW b \in Seq({0, 1}), NEW t \in VarUintTypes, NEW v \in Int
  PROVE  AllOrExactly(StoreVarUint([bits |-> b, err |-> "ok"], t, v), b,
                      LEN_BITS(t) + ByteLen(t, v) * ByteBits)
  <1> DEFINE r0 == [bits |-> b, err |-> "ok"]
  <1>0. r0 \in Builder
    BY DEF Builder
  <1>1. LEN_BITS(t) \in 0..8 /\ ByteLen(t, v) \in Nat /\ ByteLen(t, v) * ByteBits \in Nat
    BY LenBitsRange, ByteLenRange, NumAssumption
  <1>2. CASE ByteLen(t, v) > MaxBytes[t] \/ Len(b) + LEN_BITS(t) + ByteLen(t, v) * ByteBits > Cap
    <2>1. StoreVarUint(r0, t, v) = [bits |-> b, err |-> "CellOverflow"]
      BY <1>2 DEF StoreVarUint, Fail
    <2>2. QED
      BY <2>1 DEF AllOrExactly, Builder
  <1>3. CASE ~(ByteLen(t, v) > MaxBytes[t] \/ Len(b) + LEN_BITS(t) + ByteLen(t, v) * ByteBits > Cap)
    <2>1. StoreSpec(VarUintPrefix(r0, t, v), r0, LEN_BITS(t))
      BY <1>0, <1>1, StoreUintGrows DEF VarUintPrefix
    <2>2. VarUintPrefix(r0, t, v).err = "ok"
          /\ Len(VarUintPrefix(r0, t, v).bits) = Len(b) + LEN_BITS(t)
          /\ VarUintPrefix(r0, t, v) \in Builder
      <3>0. Len(b) \in Nat
        BY LenProperties
      <3>1. Len(b) + LEN_BITS(t) <= Cap
        <4>0. ~(Len(b) + LEN_BITS(t) + ByteLen(t, v) * ByteBits > Cap)
          BY <1>3, Zenon
        <4>1. Len(b) + LEN_BITS(t) + ByteLen(t, v) * ByteBits \in Int /\ Cap \in Int
          BY <1>1, <3>0, NumAssumption
        <4>2. Len(b) + LEN_BITS(t) + ByteLen(t, v) * ByteBits <= Cap
          BY <4>0, <4>1, NotGreater
        <4>3. LEN_BITS(t) \in Nat /\ ByteLen(t, v) * ByteBits \in Nat /\ Cap \in Int
          BY <1>1, NumAssumption
        <4>4. QED
          BY <3>0, <4>2, <4>3, SumBound, Zenon
      <3>2. r0.err = "ok" /\ r0.bits = b
        OBVIOUS
      <3>3. QED
        BY <2>1, <3>0, <3>1, <3>2 DEF StoreSpec
    <2>3. StoreSpec(VarUintBody(r0, t, v), VarUintPrefix(r0, t, v), ByteLen(t, v) * ByteBits)
      <3>1. CASE t = "Tokens"
        BY <1>1, <2>2, <3>1, StoreU128Grows DEF VarUintBody
      <3>2. CASE t # "Tokens"
        BY <1>1, <2>2, <3>2, StoreUintGrows DEF VarUintBody
      <3>3. QED
        BY <3>1, <3>2
    <2>4. StoreVarUint(r0, t, v) = VarUintBody(r0, t, v)
      BY <1>3 DEF StoreVarUint, VarUintPrefix, VarUintBody
    <2>5. Len(VarUintPrefix(r0, t, v).bits) + ByteLen(t, v) * ByteBits <= Cap
      <3>0. Len(b) \in Nat
        BY LenProperties
      <3>1. ~(Len(b) + LEN_BITS(t) + ByteLen(t, v) * ByteBits > Cap)
        BY <1>3, Zenon
      <3>2. Len(b) + LEN_BITS(t) + ByteLen(t, v) * ByteBits \in Int /\ Cap \in Int
        BY <1>1, <3>0, NumAssumption
      <3>3. Len(b) + LEN_BITS(t) + ByteLen(t, v) * ByteBits <= Cap
        BY <3>1, <3>2, NotGreater
      <3>4. QED
        BY <2>2, <3>3, Zenon
    <2>6. VarUintBody(r0, t, v).err = "ok"
          /\ Len(VarUintBody(r0, t, v).bits)
             = Len(VarUintPrefix(r0, t, v).bits) + ByteLen(t, v) * ByteBits
          /\ VarUintBody(r0, t, v) \in Builder
      BY <2>2, <2>3, <2>5, Zenon DEF StoreSpec
    <2>7. Len(VarUintBody(r0, t, v).bits) = Len(b) + (LEN_BITS(t) + ByteLen(t, v) * ByteBits)
      <3>0. Len(b) \in Int /\ LEN_BITS(t) \in Int /\ ByteLen(t, v) * ByteBits \in Int
        BY <1>1, LenProperties
      <3>1. (Len(b) + LEN_BITS(t)) + ByteLen(t, v) * ByteBits
            = Len(b) + (LEN_BITS(t) + ByteLen(t, v) * ByteBits)
        BY <3>0, Assoc, Zenon
      <3>2. QED
        BY <2>2, <2>6, <3>1, Zenon
    <2>8. QED
      BY <2>4, <2>6, <2>7, Zenon DEF AllOrExactly
  <1>4. QED
    BY <1>2, <1>3

\* Two stores in a row, each of which appends its bits when they fit,
\* append both when both fit.
LEMMA TwoStores ==
  ASSUME NEW r \in Builder, r.err = "ok", NEW q1, NEW q2, NEW n1 \in Nat, NEW n2 \in Nat,
         StoreSpec(q1, r, n1), StoreSpec(q2, q1, n2), Len(r.bits) + n1 + n2 <= Cap
  PROVE  q2 \in Builder /\ q2.err = "ok" /\ Len(q2.bits) = Len(r.bits) + n1 + n2
  <1>1. Len(r.bits) \in Nat
    BY LenProperties DEF Builder
  <1>2. Len(r.bits) + n1 <= Cap
    BY <1>1, NumAssumption
  <1>3. q1 \in Builder /\ q1.err = "ok" /\ Len(q1.bits) = Len(r.bits) + n1
    BY <1>2 DEF StoreSpec
  <1>4. QED
    BY <1>1, <1>3 DEF StoreSpec

\* The byte count of a VarUint248 is between 0 and 32.
LEMMA ByteLen248Range ==
  ASSUME NEW w
  PROVE  ByteLen248(w) \in 0..32
  <1>1. U128Bits \in Nat /\ 2 * U128Bits = 32 * ByteBits /\ 32 * ByteBits \in Nat
    BY NumAssumption DEF U128Bits
  <1>2. LeadingZeros(w[1], U128Bits) \in 0..U128Bits /\ LeadingZeros(w[2], U128Bits) \in 0..U128Bits
    BY <1>1, LeadingZerosRange
  <1>3. LeadingZeros248(w) \in 0..(32 * ByteBits)
    BY <1>1, <1>2 DEF LeadingZeros248
  <1>4. LeadingZeros248(w) \div ByteBits \in 0..32
    BY <1>3, DivRange, NumAssumption
  <1>5. QED
    BY <1>4 DEF ByteLen248

\* What the VarUint248 store writes after its 5-bit prefix: the high word
\* of bits - 128 bits when there is one, then the low word.
U248Body(r1, w, bits) ==
  StoreU128(IF bits >= U128Bits THEN StoreU128(r1, w[1], bits - U128Bits) ELSE r1,
            w[2], IF bits >= U128Bits THEN U128Bits ELSE bits)

\* The two store_u128 calls of the VarUint248 store append bits bits.
LEMMA U248BodyGrows ==
  ASSUME NEW r1 \in Builder, r1.err = "ok", NEW w \in Int \X Int, NEW bits \in Nat,
         Len(r1.bits) + bits <= Cap
  PROVE  /\ U248Body(r1, w, bits) \in Builder
         /\ U248Body(r1, w, bits).err = "ok"
         /\ Len(U248Body(r1, w, bits).bits) = Len(r1.bits) + bits
  <1>0. U128Bits \in Nat /\ w[1] \in Int /\ w[2] \in Int /\ Len(r1.bits) \in Nat
    BY NumAssumption, LenProperties DEF U128Bits, Builder
  <1>1. CASE bits >= U128Bits
    <2>1. StoreSpec(StoreU128(r1, w[1], bits - U128Bits), r1, bits - U128Bits)
      BY <1>0, <1>1, StoreU128Grows
    <2>2. StoreSpec(StoreU128(StoreU128(r1, w[1], bits - U128Bits), w[2], U128Bits),
                    StoreU128(r1, w[1], bits - U128Bits), U128Bits)
      BY <1>0, <2>1, StoreU128Grows DEF StoreSpec
    <2>3. U248Body(r1, w, bits)
          = StoreU128(StoreU128(r1, w[1], bits - U128Bits), w[2], U128Bits)
      BY <1>1 DEF U248Body
    <2>4. Len(r1.bits) + (bits - U128Bits) + U128Bits <= Cap
      BY <1>0, <1>1, NumAssumption
    <2>5. (bits - U128Bits) \in Nat
      BY <1>0, <1>1
    <2>6. Len(r1.bits) + (bits - U128Bits) + U128Bits = Len(r1.bits) + bits
      BY <1>0
    <2>7. /\ StoreU128(StoreU128(r1, w[1], bits - U128Bits), w[2], U128Bits) \in Builder
          /\ StoreU128(StoreU128(r1, w[1], bits - U128Bits), w[2], U128Bits).err = "ok"
          /\ Len(StoreU128(StoreU128(r1, w[1], bits - U128Bits), w[2], U128Bits).bits)
             = Len(r1.bits) + (bits - U128Bits) + U128Bits
      BY <1>0, <2>1, <2>2, <2>4, <2>5, TwoStores
    <2>8. QED
      BY <2>3, <2>6, <2>7, Zenon
  <1>2. CASE ~(bits >= U128Bits)
    <2>1. U248Body(r1, w, bits) = StoreU128(r1, w[2], bits)
      BY <1>2 DEF U248Body
    <2>2. QED
      BY <1>0, <2>1, StoreU128Grows DEF StoreSpec
  <1>3. QED
    BY <1>1, <1>2

\* A product of naturals is a natural.
LEMMA MulNat ==
  ASSUME NEW a \in Nat, NEW c \in Nat
  PROVE  a * c \in Nat
  OBVIOUS

\* The VarUint248 store, with its byte count and bit count named.
LEMMA StoreVarUint248Sized ==
  ASSUME NEW b \in Seq({0, 1}), NEW w \in Int \X Int, NEW bytes \in 0..32, NEW bits \in Nat,
         bytes = ByteLen248(w), bits = bytes * ByteBits
  PROVE  AllOrExactly(StoreVarUint248([bits |-> b, err |-> "ok"], w), b, 5 + bits)
  <1> DEFINE r0 == [bits |-> b, err |-> "ok"]
  <1>0. r0 \in Builder /\ Len(b) \in Nat
    BY LenProperties DEF Builder
  <1>1. StoreVarUint248(r0, w)
        = IF bytes > 31 \/ Len(b) + 5 + bits > Cap
          THEN Fail(r0, "CellOverflow")
          ELSE U248Body(StoreUint(r0, bytes, 5), w, bits)
    BY Zenon DEF StoreVarUint248, U248Body
  <1>2. CASE bytes > 31 \/ Len(b) + 5 + bits > Cap
    <2>1. StoreVarUint248(r0, w) = [bits |-> b, err |-> "CellOverflow"]
      BY <1>1, <1>2 DEF Fail
    <2>2. QED
      BY <2>1 DEF AllOrExactly, Builder
  <1>3. CASE ~(bytes > 31 \/ Len(b) + 5 + bits > Cap)
    <2>1. Len(b) + 5 + bits <= Cap
      BY <1>0, <1>3, NumAssumption
    <2>2. StoreSpec(StoreUint(r0, bytes, 5), r0, 5)
      BY <1>0, StoreUintGrows
    <2>3. /\ StoreUint(r0, bytes, 5) \in Builder
          /\ StoreUint(r0, bytes, 5).err = "ok"
          /\ Len(StoreUint(r0, bytes, 5).bits) = Len(b) + 5
      BY <1>0, <2>1, <2>2, NumAssumption DEF StoreSpec
    <2>4. Len(StoreUint(r0, bytes, 5).bits) + bits <= Cap
      BY <1>0, <2>1, <2>3
    <2>5. /\ U248Body(StoreUint(r0, bytes, 5), w, bits) \in Builder
          /\ U248Body(StoreUint(r0, bytes, 5), w, bits).err = "ok"
          /\ Len(U248Body(StoreUint(r0, bytes, 5), w, bits).bits)
             = Len(StoreUint(r0, bytes, 5).bits) + bits
      BY <2>3, <2>4, U248BodyGrows
    <2>6. StoreVarUint248(r0, w) = U248Body(StoreUint(r0, bytes, 5), w, bits)
      BY <1>1, <1>3
    <2>7. QED
      BY <1>0, <2>3, <2>5, <2>6 DEF AllOrExactly
  <1>4. QED
    BY <1>2, <1>3

\* store_into of VarUint248: the check of bytes > 31 and of the capacity
\* for the prefix and all the bytes comes before the first write.
LEMMA StoreVarUint248Exact ==
  ASSUME NEW b \in Seq({0, 1}), NEW w \in Int \X Int
  PROVE  AllOrExactly(StoreVarUint248([bits |-> b, err |-> "ok"], w), b,
                      5 + ByteLen248(w) * ByteBits)
  <1>1. ByteLen248(w) \in 0..32
    BY ByteLen248Range, Zenon
  <1>2. ByteLen248(w) * ByteBits \in Nat
    <2>1. ByteLen248(w) \in Nat /\ ByteBits \in Nat
      <3>1. 0..32 \subseteq Nat
        OBVIOUS
      <3>2. QED
        BY <1>1, <3>1, NumAssumption, Zenon
    <2>2. QED
      BY <2>1, MulNat, Zenon
  <1>3. QED
    BY <1>1, <1>2, StoreVarUint248Sized, Zenon

\* store_uint into a builder without an error stores all n bits or none.
LEMMA StoreUintExact ==
  ASSUME NEW b \in Seq({0, 1}), NEW v \in Int, NEW n \in Nat
  PROVE  AllOrExactly(StoreUint([bits |-> b, err |-> "ok"], v, n), b, n)
  <1>0. [bits |-> b, err |-> "ok"] \in Builder /\ Len(b) \in Nat
    BY LenProperties DEF Builder
  <1>1. QED
    BY <1>0, StoreUintSpec, NumAssumption DEF AllOrExactly

\* A store that fails before its first write leaves the builder as it was.
LEMMA FailExact ==
  ASSUME NEW b \in Seq({0, 1}), NEW e \in {"CellOverflow", "IntOverflow"}, NEW k
  PROVE  AllOrExactly(Fail([bits |-> b, err |-> "ok"], e), b, k)
  <1>1. Fail([bits |-> b, err |-> "ok"], e) = [bits |-> b, err |-> e]
    BY DEF Fail
  <1>2. QED
    BY <1>1 DEF AllOrExactly, Builder

LEMMA Diff ==
  ASSUME NEW x, NEW a \in Nat, NEW k \in Nat, x = a + k
  PROVE  x - a = k
  OBVIOUS

LEMMA AddNat ==
  ASSUME NEW a \in Nat, NEW c \in Nat
  PROVE  a + c \in Nat /\ a + c # -1
  OBVIOUS

\* A value the program holds: its type, and an inner integer (a pair of
\* words for VarUint248).
InnerOf(t) == IF t = "VarUint248" THEN Int \X Int ELSE Int

ValueOK(x) == \E t \in AllTypes : x \in [t : {t}, v : InnerOf(t)]

LEMMA ValueOKParts ==
  ASSUME NEW x, ValueOK(x)
  PROVE  /\ x.t \in AllTypes
         /\ x.t = "VarUint248" => x.v \in Int \X Int
         /\ x.t # "VarUint248" => x.v \in Int
         /\ x = [t |-> x.t, v |-> x.v]
  BY DEF ValueOK, InnerOf

\* store_into of every type appends exactly exact_size().bits bits, or
\* fails and appends nothing.
LEMMA StoreValueExact ==
  ASSUME NEW b \in Seq({0, 1}), NEW x, ValueOK(x)
  PROVE  /\ AllOrExactly(StoreValue([bits |-> b, err |-> "ok"], x), b, ExactSizeBits(x))
         /\ ExactSizeBits(x) \in Nat
  <1> DEFINE r0 == [bits |-> b, err |-> "ok"]
  <1>0. /\ x.t \in AllTypes
        /\ x.t = "VarUint248" => x.v \in Int \X Int
        /\ x.t # "VarUint248" => x.v \in Int
    BY ValueOKParts
  <1>1. CASE x.t \in VarUintTypes
    <2>0. x.v \in Int
      BY <1>0, <1>1 DEF VarUintTypes
    <2>1. StoreValue(r0, x) = StoreVarUint(r0, x.t, x.v)
      BY <1>1, Zenon DEF StoreValue, VarUintTypes, SmallUintTypes
    <2>2. ExactSizeBits(x) = IF BitLen(x.t, x.v) = -1 THEN 0 ELSE BitLen(x.t, x.v)
      BY <1>1, Zenon DEF ExactSizeBits, VarUintTypes, SmallUintTypes
    <2>3. CASE ByteLen(x.t, x.v) > MaxBytes[x.t]
      <3>1. StoreVarUint(r0, x.t, x.v) = Fail(r0, "CellOverflow")
        BY <2>3, Zenon DEF StoreVarUint
      <3>2. ExactSizeBits(x) = 0
        BY <2>2, <2>3, Zenon DEF BitLen
      <3>3. QED
        BY <2>1, <3>1, <3>2, FailExact
    <2>4. CASE ~(ByteLen(x.t, x.v) > MaxBytes[x.t])
      <3>1. LEN_BITS(x.t) \in Nat /\ ByteLen(x.t, x.v) \in Nat /\ ByteBits \in Nat
        <4>1. LEN_BITS(x.t) \in 0..8 /\ ByteLen(x.t, x.v) \in 0..InnerBytes[x.t]
          BY <1>1, LenBitsRange, ByteLenRange
        <4>2. QED
          BY <4>1, NumAssumption
      <3>2. ByteLen(x.t, x.v) * ByteBits \in Nat
        BY <3>1, MulNat, Zenon
      <3>3. LEN_BITS(x.t) + ByteLen(x.t, x.v) * ByteBits \in Nat
            /\ LEN_BITS(x.t) + ByteLen(x.t, x.v) * ByteBits # -1
        BY <3>1, <3>2, AddNat, Zenon
      <3>4. BitLen(x.t, x.v) = LEN_BITS(x.t) + ByteLen(x.t, x.v) * ByteBits
        BY <2>4, Zenon DEF BitLen
      <3>5. ExactSizeBits(x) = LEN_BITS(x.t) + ByteLen(x.t, x.v) * ByteBits
        BY <2>2, <3>3, <3>4, Zenon
      <3>6. QED
        BY <1>1, <2>0, <2>1, <3>3, <3>5, StoreVarUintExact, Zenon
    <2>5. QED
      BY <2>3, <2>4
  <1>2. CASE x.t = "VarUint248"
    <2>0. x.v \in Int \X Int
      BY <1>0, <1>2
    <2>1. StoreValue(r0, x) = StoreVarUint248(r0, x.v)
      BY <1>2, Zenon DEF StoreValue, VarUintTypes, SmallUintTypes
    <2>2. ExactSizeBits(x) = IF BitLen248(x.v) = -1 THEN 0 ELSE BitLen248(x.v)
      BY <1>2, Zenon DEF ExactSizeBits, VarUintTypes, SmallUintTypes
    <2>3. CASE ByteLen248(x.v) > 31
      <3>1. StoreVarUint248(r0, x.v) = Fail(r0, "CellOverflow")
        BY <2>3, Zenon DEF StoreVarUint248
      <3>2. ExactSizeBits(x) = 0
        BY <2>2, <2>3, Zenon DEF BitLen248
      <3>3. QED
        BY <2>1, <3>1, <3>2, FailExact
    <2>4. CASE ~(ByteLen248(x.v) > 31)
      <3>1. ByteLen248(x.v) \in Nat /\ ByteBits \in Nat /\ 5 \in Nat
        <4>1. ByteLen248(x.v) \in 0..32
          BY ByteLen248Range, Zenon
        <4>2. 0..32 \subseteq Nat
          OBVIOUS
        <4>3. QED
          BY <4>1, <4>2, NumAssumption, Zenon
      <3>2. ByteLen248(x.v) * ByteBits \in Nat
        BY <3>1, MulNat, Zenon
      <3>3. 5 + ByteLen248(x.v) * ByteBits \in Nat /\ 5 + ByteLen248(x.v) * ByteBits # -1
        BY <3>1, <3>2, AddNat, Zenon
      <3>4. BitLen248(x.v) = 5 + ByteLen248(x.v) * ByteBits
        BY <2>4, Zenon DEF BitLen248
      <3>5. ExactSizeBits(x) = 5 + ByteLen248(x.v) * ByteBits
        BY <2>2, <3>3, <3>4, Zenon
      <3>6. QED
        BY <2>0, <2>1, <3>3, <3>5, StoreVarUint248Exact, Zenon
    <2>5. QED
      BY <2>3, <2>4
  <1>3. CASE x.t \in SmallUintTypes
    <2>0. x.v \in Int /\ SmallBits[x.t] \in Nat
      BY <1>0, <1>3 DEF SmallUintTypes, SmallBits
    <2>1. StoreValue(r0, x) = StoreSmallUint(r0, x.t, x.v)
      BY <1>3 DEF StoreValue, VarUintTypes, SmallUintTypes
    <2>2. ExactSizeBits(x) = SmallBits[x.t]
      BY <1>3 DEF ExactSizeBits, VarUintTypes, SmallUintTypes
    <2>3. CASE x.v > 2^SmallBits[x.t] - 1
      <3>1. StoreSmallUint(r0, x.t, x.v) = Fail(r0, "IntOverflow")
        BY <2>3 DEF StoreSmallUint
      <3>2. QED
        BY <2>0, <2>1, <2>2, <3>1, FailExact
    <2>4. CASE ~(x.v > 2^SmallBits[x.t] - 1)
      <3>1. StoreSmallUint(r0, x.t, x.v) = StoreUint(r0, x.v, SmallBits[x.t])
        BY <2>4 DEF StoreSmallUint
      <3>2. QED
        BY <2>0, <2>1, <2>2, <3>1, StoreUintExact
    <2>5. QED
      BY <2>3, <2>4
  <1>4. CASE x.t = "SplitDepth"
    <2>0. x.v \in Int
      BY <1>0, <1>4
    <2>1. StoreValue(r0, x) = StoreUint(r0, x.v, 5)
      BY <1>4 DEF StoreValue, VarUintTypes, SmallUintTypes, StoreSplitDepth
    <2>2. ExactSizeBits(x) = 5
      BY <1>4 DEF ExactSizeBits, VarUintTypes, SmallUintTypes
    <2>3. QED
      BY <2>0, <2>1, <2>2, StoreUintExact
  <1>5. QED
    BY <1>0, <1>1, <1>2, <1>3, <1>4 DEF AllTypes

=============================================================================
