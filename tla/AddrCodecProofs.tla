---------------------------- MODULE AddrCodecProofs ----------------------------
(***************************************************************************)
(* Proofs about the address stores of src/models/message/address.rs and    *)
(* the program of AddrCodec, for every capacity of a cell and every set of *)
(* well-formed addresses: IntAddr::store_into appends exactly bit_len()    *)
(* bits whenever it succeeds.                                              *)
(***************************************************************************)
EXTENDS AddrCodec, NumProofs

\* q is what a store of n bits into r gives: a builder, and one without an
\* error only when r had none and q has n more bits.  Every store of
\* Address ends in an error or writes all it counts, so the sizes add up
\* along a chain of stores that ends without an error.
DataLen(q) == Len(q.bits)

Grows(q, r, n) ==
  /\ q \in Builder
  /\ q.err = "ok" => r.err = "ok" /\ DataLen(q) = DataLen(r) + n

-----------------------------------------------------------------------------
(* The builder primitives.                                                 *)

LEMMA GrowsUint ==
  ASSUME NEW r \in Builder, NEW v \in Int, NEW n \in Nat
  PROVE  Grows(StoreUint(r, v, n), r, n)
  <1>1. Len(r.bits) \in Nat /\ Cap \in Nat
    BY NumAssumption, LenProperties DEF Builder
  <1>2. QED
    BY <1>1, StoreUintSpec DEF Grows, DataLen

\* store_raw of a bit string appends it when it fits.
LEMMA GrowsBits ==
  ASSUME NEW r \in Builder, NEW b \in Seq({0, 1})
  PROVE  Grows(StoreBits(r, b), r, Len(b))
  <1>0. r.bits \in Seq({0, 1}) /\ r.err \in {"ok", "CellOverflow", "IntOverflow"}
        /\ r = [bits |-> r.bits, err |-> r.err]
    BY DEF Builder
  <1>1. r.bits \o b \in Seq({0, 1}) /\ Len(r.bits \o b) = Len(r.bits) + Len(b)
    BY <1>0, ConcatProperties
  <1>2. CASE r.err # "ok"
    BY <1>2 DEF StoreBits, Grows
  <1>3. CASE r.err = "ok" /\ Len(r.bits) + Len(b) > Cap
    <2>1. StoreBits(r, b) = [bits |-> r.bits, err |-> "CellOverflow"]
      BY <1>0, <1>3, Zenon DEF StoreBits, Fail
    <2>2. QED
      BY <1>0, <2>1 DEF Grows, Builder
  <1>4. CASE r.err = "ok" /\ ~(Len(r.bits) + Len(b) > Cap)
    <2>0. ~(r.err # "ok")
      BY <1>4
    <2>1. StoreBits(r, b) = [bits |-> r.bits \o b, err |-> "ok"]
      BY <1>0, <1>4, <2>0, Zenon DEF StoreBits
    <2>2. QED
      BY <1>1, <1>4, <2>1 DEF Grows, Builder, DataLen
  <1>5. QED
    BY <1>2, <1>3, <1>4

LEMMA GrowsFail ==
  ASSUME NEW r \in Builder, NEW e \in {"CellOverflow", "IntOverflow"}, NEW n
  PROVE  Grows(Fail(r, e), r, n)
  <1>1. r = [bits |-> r.bits, err |-> r.err]
    BY DEF Builder
  <1>2. Fail(r, e) = [bits |-> r.bits, err |-> e]
    BY <1>1 DEF Fail
  <1>3. QED
    BY <1>2 DEF Grows, Builder

\* The length of a builder's data is a natural number.
LEMMA DataLenNat ==
  ASSUME NEW r \in Builder
  PROVE  DataLen(r) \in Nat
  BY LenProperties DEF Builder, DataLen

\* Two stores in a row append the sum of their sizes.
LEMMA GrowsTrans ==
  ASSUME NEW r \in Builder, NEW q1, NEW q2, NEW n1 \in Nat, NEW n2 \in Nat,
         Grows(q1, r, n1), Grows(q2, q1, n2)
  PROVE  Grows(q2, r, n1 + n2)
  <1>1. q1 \in Builder /\ q2 \in Builder
    BY DEF Grows
  <1>2. DataLen(r) \in Nat /\ DataLen(q1) \in Nat /\ DataLen(q2) \in Nat
    BY <1>1, DataLenNat
  <1>3. SUFFICES ASSUME q2.err = "ok"
                 PROVE  r.err = "ok" /\ DataLen(q2) = DataLen(r) + (n1 + n2)
    BY <1>1, Zenon DEF Grows
  <1>4. q1.err = "ok" /\ DataLen(q2) = DataLen(q1) + n2
    BY <1>3, Zenon DEF Grows
  <1>5. r.err = "ok" /\ DataLen(q1) = DataLen(r) + n1
    BY <1>4, Zenon DEF Grows
  <1>6. QED
    BY <1>2, <1>4, <1>5

\* store_small_uint of a Uint9: IntOverflow above 511, else 9 bits.
LEMMA GrowsSmall ==
  ASSUME NEW r \in Builder, NEW v \in Int
  PROVE  Grows(StoreSmallUint(r, "Uint9", v), r, 9)
  <1>1. SmallBits["Uint9"] = 9
    BY DEF SmallBits
  <1>2. CASE v > 2^SmallBits["Uint9"] - 1
    <2>1. StoreSmallUint(r, "Uint9", v) = Fail(r, "IntOverflow")
      BY <1>2 DEF StoreSmallUint
    <2>2. QED
      BY <2>1, GrowsFail
  <1>3. CASE ~(v > 2^SmallBits["Uint9"] - 1)
    <2>1. StoreSmallUint(r, "Uint9", v) = StoreUint(r, v, 9)
      BY <1>1, <1>3 DEF StoreSmallUint
    <2>2. QED
      BY <2>1, GrowsUint
  <1>4. QED
    BY <1>2, <1>3

\* A size is restated with an equal one.
LEMMA GrowsEq ==
  ASSUME NEW r, NEW q, NEW n, NEW m, Grows(q, r, n), n = m
  PROVE  Grows(q, r, m)
  OBVIOUS

-----------------------------------------------------------------------------
(* Anycast::store_into and the Option<Anycast> before it.                  *)

\* The bits the optional anycast takes after its Maybe bit.
AnyLen(o) == IF o = <<>> THEN 0 ELSE AnycastBitLen(o[1])

LEMMA AnyLenNat ==
  ASSUME NEW o, OptAnycastOK(o)
  PROVE  AnyLen(o) \in Nat
  BY DEF AnyLen, AnycastBitLen, OptAnycastOK, AnycastOK

\* Anycast::store_into: CellOverflow, or the 5-bit depth and the prefix.
LEMMA GrowsAnycast ==
  ASSUME NEW r \in Builder, NEW x, AnycastOK(x)
  PROVE  Grows(StoreAnycast(r, x), r, AnycastBitLen(x))
  <1>1. x.depth \in Nat /\ x.prefix \in Seq({0, 1}) /\ Len(x.prefix) = x.depth
    BY DEF AnycastOK
  <1>2. CASE Len(r.bits) + AnycastBitLen(x) > Cap
    <2>1. StoreAnycast(r, x) = Fail(r, "CellOverflow")
      BY <1>2 DEF StoreAnycast
    <2>2. QED
      BY <2>1, GrowsFail
  <1>3. CASE ~(Len(r.bits) + AnycastBitLen(x) > Cap)
    <2>1. StoreAnycast(r, x) = StoreBits(StoreUint(r, x.depth, 5), x.prefix)
      BY <1>3 DEF StoreAnycast, StoreSplitDepth
    <2>2. Grows(StoreUint(r, x.depth, 5), r, 5)
      BY <1>1, GrowsUint
    <2>3. StoreUint(r, x.depth, 5) \in Builder
      BY <2>2 DEF Grows
    <2>4. Grows(StoreBits(StoreUint(r, x.depth, 5), x.prefix), StoreUint(r, x.depth, 5), x.depth)
      BY <1>1, <2>3, GrowsBits
    <2>5. Grows(StoreBits(StoreUint(r, x.depth, 5), x.prefix), r, 5 + x.depth)
      BY <1>1, <2>2, <2>4, GrowsTrans
    <2>6. QED
      BY <2>1, <2>5 DEF AnycastBitLen
  <1>4. QED
    BY <1>2, <1>3

\* Store of Option<Anycast>: the Maybe bit, then the anycast if present.
LEMMA GrowsOptAnycast ==
  ASSUME NEW r \in Builder, NEW o, OptAnycastOK(o)
  PROVE  Grows(StoreOptAnycast(r, o), r, 1 + AnyLen(o))
  <1>1. CASE o = <<>>
    <2>1. StoreOptAnycast(r, o) = StoreUint(r, 0, 1) /\ 1 + AnyLen(o) = 1
      BY <1>1 DEF StoreOptAnycast, AnyLen
    <2>2. QED
      BY <2>1, GrowsUint
  <1>2. CASE o # <<>>
    <2>1. AnycastOK(o[1])
      BY <1>2 DEF OptAnycastOK
    <2>2. AnycastBitLen(o[1]) \in Nat
      BY <2>1 DEF AnycastOK, AnycastBitLen
    <2>3. StoreOptAnycast(r, o) = StoreAnycast(StoreUint(r, 1, 1), o[1])
          /\ AnyLen(o) = AnycastBitLen(o[1])
      BY <1>2 DEF StoreOptAnycast, AnyLen
    <2>4. Grows(StoreUint(r, 1, 1), r, 1) /\ StoreUint(r, 1, 1) \in Builder
      BY GrowsUint DEF Grows
    <2>5. Grows(StoreAnycast(StoreUint(r, 1, 1), o[1]), StoreUint(r, 1, 1), AnycastBitLen(o[1]))
      BY <2>1, <2>4, GrowsAnycast
    <2>6. QED
      BY <2>2, <2>3, <2>4, <2>5, GrowsTrans
  <1>3. QED
    BY <1>1, <1>2

-----------------------------------------------------------------------------
(* StdAddr::store_into, VarAddr::store_into and IntAddr::store_into.       *)

\* StdAddr::store_into: the capacity check on bit_len(), then the tag 0b10,
\* the optional anycast, the i8 workchain and the 256-bit account id.
LEMMA GrowsStd ==
  ASSUME NEW r \in Builder, NEW a, WellFormedAddr(a), a.kind = "std"
  PROVE  Grows(StoreStdAddr(r, a), r, StdBitLen(a))
  <1>1. OptAnycastOK(a.anycast) /\ a.workchain \in Int
        /\ a.address \in Seq({0, 1}) /\ Len(a.address) = 256
    BY DEF WellFormedAddr
  <1>2. AnyLen(a.anycast) \in Nat
    BY <1>1, AnyLenNat
  <1>3. StdBitLen(a) = 2 + 1 + 8 + 256 + AnyLen(a.anycast)
    BY DEF StdBitLen, AnyLen
  <1>4. CASE Len(r.bits) + StdBitLen(a) > Cap
    <2>1. StoreStdAddr(r, a) = Fail(r, "CellOverflow")
      BY <1>4 DEF StoreStdAddr
    <2>2. QED
      BY <2>1, GrowsFail
  <1>5. CASE ~(Len(r.bits) + StdBitLen(a) > Cap)
    <2> DEFINE q1 == StoreUint(r, 2, 2)
               q2 == StoreOptAnycast(q1, a.anycast)
               w  == Bits(a.workchain % 256, 8)
               q3 == StoreBits(q2, w)
               q4 == StoreBits(q3, a.address)
    <2>1. StoreStdAddr(r, a) = q4
      BY <1>5 DEF StoreStdAddr
    <2>2. Grows(q1, r, 2) /\ q1 \in Builder
      BY GrowsUint DEF Grows
    <2>3. Grows(q2, q1, 1 + AnyLen(a.anycast)) /\ q2 \in Builder
      BY <1>1, <2>2, GrowsOptAnycast DEF Grows
    <2>4. w \in Seq({0, 1}) /\ Len(w) = 8
      <3>1. a.workchain % 256 \in Int /\ 8 \in Nat
        BY <1>1
      <3>2. QED
        BY <3>1, BitsType, ZenonT(30)
    <2>5. Grows(q3, q2, 8) /\ q3 \in Builder
      <3>1. Grows(q3, q2, Len(w))
        BY <2>3, <2>4, GrowsBits
      <3>2. QED
        BY <2>4, <3>1, GrowsEq DEF Grows
    <2>6. Grows(q4, q3, 256)
      <3>0. q3 \in Builder /\ a.address \in Seq({0, 1})
        BY <1>1, <2>5
      <3>1. Grows(q4, q3, Len(a.address))
        BY <3>0, GrowsBits
      <3>2. QED
        BY <1>1, <3>1, GrowsEq
    <2>7. Grows(q2, r, 2 + (1 + AnyLen(a.anycast)))
      BY <1>2, <2>2, <2>3, GrowsTrans
    <2>8. Grows(q3, r, 2 + (1 + AnyLen(a.anycast)) + 8)
      BY <1>2, <2>5, <2>7, GrowsTrans
    <2>9. Grows(q4, r, 2 + (1 + AnyLen(a.anycast)) + 8 + 256)
      BY <1>2, <2>6, <2>8, GrowsTrans
    <2>10. 2 + (1 + AnyLen(a.anycast)) + 8 + 256 = StdBitLen(a)
      BY <1>2, <1>3
    <2>11. QED
      BY <2>1, <2>9, <2>10, GrowsEq
  <1>6. QED
    BY <1>4, <1>5

\* VarAddr::store_into: the capacity check on bit_len(), then the tag 0b11,
\* the optional anycast, the Uint9 address_len, the 32-bit workchain and
\* the first address_len bits of the address.
LEMMA GrowsVar ==
  ASSUME NEW r \in Builder, NEW a, WellFormedAddr(a), a.kind = "var"
  PROVE  Grows(StoreVarAddr(r, a), r, VarBitLen(a))
  <1>1. OptAnycastOK(a.anycast) /\ a.len \in Nat
        /\ a.workchain \in Seq({0, 1}) /\ Len(a.workchain) = 32
        /\ a.address \in Seq({0, 1}) /\ a.len <= Len(a.address)
    BY DEF WellFormedAddr
  <1>2. AnyLen(a.anycast) \in Nat
    BY <1>1, AnyLenNat
  <1>3. VarBitLen(a) = 2 + 1 + 9 + 32 + a.len + AnyLen(a.anycast)
    BY DEF VarBitLen, AnyLen
  <1>4. CASE Len(r.bits) + VarBitLen(a) > Cap
    <2>1. StoreVarAddr(r, a) = Fail(r, "CellOverflow")
      BY <1>4 DEF StoreVarAddr
    <2>2. QED
      BY <2>1, GrowsFail
  <1>5. CASE ~(Len(r.bits) + VarBitLen(a) > Cap)
    <2> DEFINE q1 == StoreUint(r, 3, 2)
               q2 == StoreOptAnycast(q1, a.anycast)
               q3 == StoreSmallUint(q2, "Uint9", a.len)
               q4 == StoreBits(q3, a.workchain)
               p  == SubSeq(a.address, 1, a.len)
               q5 == StoreBits(q4, p)
    <2>1. StoreVarAddr(r, a) = q5
      BY <1>5 DEF StoreVarAddr
    <2>2. Grows(q1, r, 2) /\ q1 \in Builder
      BY GrowsUint DEF Grows
    <2>3. Grows(q2, q1, 1 + AnyLen(a.anycast)) /\ q2 \in Builder
      BY <1>1, <2>2, GrowsOptAnycast DEF Grows
    <2>4. Grows(q3, q2, 9) /\ q3 \in Builder
      <3>1. a.len \in Int
        BY <1>1
      <3>2. QED
        BY <2>3, <3>1, GrowsSmall DEF Grows
    <2>5. Grows(q4, q3, 32) /\ q4 \in Builder
      <3>1. Grows(q4, q3, Len(a.workchain))
        BY <1>1, <2>4, GrowsBits
      <3>2. QED
        BY <1>1, <3>1, GrowsEq DEF Grows
    <2>6. p \in Seq({0, 1}) /\ Len(p) = a.len
      BY <1>1, SubSeqProperties
    <2>7. Grows(q5, q4, a.len)
      <3>1. Grows(q5, q4, Len(p))
        BY <2>5, <2>6, GrowsBits
      <3>2. QED
        BY <2>6, <3>1, GrowsEq
    <2>8. Grows(q2, r, 2 + (1 + AnyLen(a.anycast)))
      BY <1>2, <2>2, <2>3, GrowsTrans
    <2>9. Grows(q3, r, 2 + (1 + AnyLen(a.anycast)) + 9)
      BY <1>2, <2>4, <2>8, GrowsTrans
    <2>10. Grows(q4, r, 2 + (1 + AnyLen(a.anycast)) + 9 + 32)
      BY <1>2, <2>5, <2>9, GrowsTrans
    <2>11. Grows(q5, r, 2 + (1 + AnyLen(a.anycast)) + 9 + 32 + a.len)
      <3>1. 2 + (1 + AnyLen(a.anycast)) + 9 + 32 \in Nat
        BY <1>2
      <3>2. QED
        BY <1>1, <2>7, <2>10, <3>1, GrowsTrans
    <2>12. 2 + (1 + AnyLen(a.anycast)) + 9 + 32 + a.len = VarBitLen(a)
      <3>1. \A x, l \in Nat : 2 + (1 + x) + 9 + 32 + l = 2 + 1 + 9 + 32 + l + x
        OBVIOUS
      <3>2. QED
        BY <1>1, <1>2, <1>3, <3>1, Zenon
    <2>13. QED
      BY <2>1, <2>11, <2>12, GrowsEq
  <1>6. QED
    BY <1>4, <1>5

\* IntAddr::store_into stores the address of its kind.
LEMMA GrowsIntAddr ==
  ASSUME NEW r \in Builder, NEW a, WellFormedAddr(a)
  PROVE  Grows(StoreIntAddr(r, a), r,
               IF a.kind = "std" THEN StdBitLen(a) ELSE VarBitLen(a))
  <1>1. a.kind = "std" \/ a.kind = "var"
    BY DEF WellFormedAddr
  <1>2. CASE a.kind = "std"
    BY <1>2, GrowsStd DEF StoreIntAddr
  <1>3. CASE a.kind = "var"
    BY <1>3, GrowsVar DEF StoreIntAddr
  <1>4. QED
    BY <1>1, <1>2, <1>3

-----------------------------------------------------------------------------
(* The program: every entry of stored has the size bit_len() counts.       *)

\* AddrStoreExactSize is not inductive by itself: a Store step needs the
\* builder to be a bit string (so that StoreIntAddr starts from a builder)
\* and the entries to hold addresses of Addrs, whose well-formedness gives
\* the sizes of their fields.
IInv ==
  /\ builder \in Seq({0, 1})
  /\ stored \in Seq([a : Addrs, len : Int])
  /\ AddrStoreExactSize

LEMMA AddrBitLenNat ==
  ASSUME NEW a, WellFormedAddr(a)
  PROVE  AddrBitLen(a) \in Nat
  <1>1. AnyLen(a.anycast) \in Nat
    BY AnyLenNat DEF WellFormedAddr
  <1>2. CASE a.kind = "std"
    <2>1. AddrBitLen(a) = 2 + 1 + 8 + 256 + AnyLen(a.anycast)
      BY <1>2 DEF AddrBitLen, StdBitLen, AnyLen
    <2>2. QED
      BY <1>1, <2>1
  <1>3. CASE a.kind # "std"
    <2>1. a.len \in Nat
      BY <1>3 DEF WellFormedAddr
    <2>2. AddrBitLen(a) = 2 + 1 + 9 + 32 + a.len + AnyLen(a.anycast)
      BY <1>3 DEF AddrBitLen, VarBitLen, AnyLen
    <2>3. QED
      BY <1>1, <2>1, <2>2
  <1>4. QED
    BY <1>2, <1>3

\* The builder the program stores into.
Start == [bits |-> builder, err |-> "ok"]

\* The entry a successful store appends is exact.
LEMMA StoreEntry ==
  ASSUME builder \in Seq({0, 1}), NEW a \in Addrs,
         StoreIntAddr(Start, a).err = "ok"
  PROVE  /\ StoreIntAddr(Start, a).bits \in Seq({0, 1})
         /\ Len(StoreIntAddr(Start, a).bits) - Len(builder) = AddrBitLen(a)
  <1>1. Start \in Builder
    BY DEF Start, Builder
  <1>2. WellFormedAddr(a)
    BY AddrCodecAssumption
  <1>3. Grows(StoreIntAddr(Start, a), Start, AddrBitLen(a))
    BY <1>1, <1>2, GrowsIntAddr DEF AddrBitLen
  <1>4. StoreIntAddr(Start, a) \in Builder
        /\ DataLen(StoreIntAddr(Start, a)) = DataLen(Start) + AddrBitLen(a)
    BY <1>3 DEF Grows
  <1>5. DataLen(Start) = Len(builder) /\ Len(builder) \in Nat
    BY LenProperties DEF DataLen, Start
  <1>6. AddrBitLen(a) \in Nat
    BY <1>2, AddrBitLenNat
  <1>7. Len(StoreIntAddr(Start, a).bits) = Len(builder) + AddrBitLen(a)
    BY <1>4, <1>5 DEF DataLen
  <1>8. QED
    BY <1>4, <1>5, <1>6, <1>7, Diff DEF Builder

\* IntAddr::store_into keeps the invariant.
LEMMA StoreStep ==
  ASSUME IInv, NEW a \in Addrs, Store(a)
  PROVE  IInv'
  <1>1. builder \in Seq({0, 1}) /\ stored \in Seq([a : Addrs, len : Int])
    BY DEF IInv
  <1>2. StoreIntAddr(Start, a) \in Builder
    <2>1. Start \in Builder
      BY <1>1 DEF Start, Builder
    <2>2. QED
      BY <2>1, AddrCodecAssumption, GrowsIntAddr DEF Grows
  <1>3. builder' \in Seq({0, 1})
    BY <1>2 DEF Store, Start, Builder
  <1>4. CASE StoreIntAddr(Start, a).err = "ok"
    <2> DEFINE e == [a |-> a, len |-> AddrBitLen(a)]
    <2>1. stored' = Append(stored, e)
      BY <1>1, <1>4, StoreEntry DEF Store, Start
    <2>2. e \in [a : Addrs, len : Int]
      BY AddrCodecAssumption, AddrBitLenNat
    <2>3. stored' \in Seq([a : Addrs, len : Int])
      BY <1>1, <2>1, <2>2, AppendProperties
    <2>4. AddrStoreExactSize'
      <3> SUFFICES ASSUME NEW i \in 1..Len(stored')
                   PROVE  stored'[i].len = AddrBitLen(stored'[i].a)
        BY DEF AddrStoreExactSize, AddrBitLen
      <3>1. Len(stored') = Len(stored) + 1
        BY <1>1, <2>1, <2>2, AppendProperties
      <3>2. CASE i <= Len(stored)
        <4>1. stored'[i] = stored[i]
          BY <1>1, <2>1, <2>2, <3>1, <3>2, AppendProperties
        <4>2. QED
          BY <3>2, <4>1 DEF IInv, AddrStoreExactSize, AddrBitLen
      <3>3. CASE i = Len(stored) + 1
        BY <1>1, <2>1, <2>2, <3>3, AppendProperties
      <3>4. QED
        BY <1>1, <3>1, <3>2, <3>3
    <2>5. QED
      BY <1>3, <2>3, <2>4 DEF IInv
  <1>5. CASE StoreIntAddr(Start, a).err # "ok"
    BY <1>3, <1>5 DEF Store, Start, IInv, AddrStoreExactSize
  <1>6. QED
    BY <1>4, <1>5

LEMMA IInvInit ==
  Init => IInv
  BY DEF Init, IInv, AddrStoreExactSize

LEMMA IInvNext ==
  IInv /\ [Next]_vars => IInv'
  <1> SUFFICES ASSUME IInv, [Next]_vars PROVE IInv'
    OBVIOUS
  <1>1. CASE \E a \in Addrs : Store(a)
    BY <1>1, StoreStep
  <1>2. CASE ~(\E a \in Addrs : Store(a))
    <2>1. UNCHANGED <<builder, stored>>
      BY <1>2 DEF Next, vars, Finish, Load, DictSet, DictNext, FromSlice, CellVars
    <2>2. QED
      BY <2>1 DEF IInv, AddrStoreExactSize
  <1>3. QED
    BY <1>1, <1>2

\* IntAddr::store_into, in every run of the program, appends exactly the
\* bit_len() it counts (StdAddr::bit_len or VarAddr::bit_len) whenever it
\* returns Ok: the run MCAddrCodec checks this for three sample addresses,
\* the theorem for every capacity and every set of well-formed addresses.
THEOREM AddrStoreExactSizeHolds == Spec => []AddrStoreExactSize
  <1>1. IInv => AddrStoreExactSize
    BY DEF IInv
  <1>2. QED
    BY <1>1, IInvInit, IInvNext, PTL DEF Spec

=============================================================================
