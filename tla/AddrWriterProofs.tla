---------------------------- MODULE AddrWriterProofs ---------------------------
(***************************************************************************)
(* The address program implements the cell writer of CellWriter: for      *)
(* every capacity and every set of well-formed addresses whose            *)
(* address_len is a valid Uint9, IntAddr::store_into succeeds exactly     *)
(* when bit_len() more bits fit, and then appends all of them; otherwise   *)
(* it fails with CellOverflow before its first write.                      *)
(***************************************************************************)
EXTENDS AddrCodecProofs

\* A store of n bits into r that fits succeeds: when r has no error and n
\* more bits fit in the cell, q has no error either.
Fits(q, r, n) == r.err = "ok" /\ DataLen(r) + n <= Cap => q.err = "ok"

\* q is an exact store of n bits into r: it grows r by n bits when it
\* succeeds, and it succeeds when the n bits fit.
Exact(q, r, n) == Grows(q, r, n) /\ Fits(q, r, n)

-----------------------------------------------------------------------------
(* The builder primitives.                                                 *)

LEMMA ExactUint ==
  ASSUME NEW r \in Builder, NEW v \in Int, NEW n \in Nat
  PROVE  Exact(StoreUint(r, v, n), r, n)
  <1>1. Len(r.bits) \in Nat /\ Cap \in Nat
    BY NumAssumption, LenProperties DEF Builder
  <1>2. Fits(StoreUint(r, v, n), r, n)
    BY <1>1, StoreUintSpec DEF Fits, DataLen
  <1>3. QED
    BY <1>2, GrowsUint DEF Exact

LEMMA ExactBits ==
  ASSUME NEW r \in Builder, NEW b \in Seq({0, 1})
  PROVE  Exact(StoreBits(r, b), r, Len(b))
  <1>1. r.bits \in Seq({0, 1}) /\ r = [bits |-> r.bits, err |-> r.err]
    BY DEF Builder
  <1>2. Fits(StoreBits(r, b), r, Len(b))
    <2> SUFFICES ASSUME r.err = "ok", Len(r.bits) + Len(b) <= Cap
                 PROVE  StoreBits(r, b).err = "ok"
      BY DEF Fits, DataLen
    <2>0. ~(r.err # "ok") /\ ~(Len(r.bits) + Len(b) > Cap)
      BY NumAssumption, LenProperties, <1>1
    <2>1. StoreBits(r, b) = [bits |-> r.bits \o b, err |-> "ok"]
      BY <1>1, <2>0, Zenon DEF StoreBits
    <2>2. QED
      BY <2>1
  <1>3. QED
    BY <1>2, GrowsBits DEF Exact

\* store_small_uint of a valid Uint9 writes its 9 bits when they fit.
LEMMA ExactSmall ==
  ASSUME NEW r \in Builder, NEW v \in 0..511
  PROVE  Exact(StoreSmallUint(r, "Uint9", v), r, 9)
  <1>1. StoreSmallUint(r, "Uint9", v) = StoreUint(r, v, 9)
    BY DEF StoreSmallUint, SmallBits
  <1>2. QED
    BY <1>1, ExactUint

\* Two exact stores in a row are an exact store of the sum of their sizes.
LEMMA ExactTrans ==
  ASSUME NEW r \in Builder, NEW q1, NEW q2, NEW n1 \in Nat, NEW n2 \in Nat,
         Exact(q1, r, n1), Exact(q2, q1, n2)
  PROVE  Exact(q2, r, n1 + n2)
  <1>1. Grows(q2, r, n1 + n2)
    BY GrowsTrans DEF Exact
  <1>2. q1 \in Builder
    BY DEF Exact, Grows
  <1>3. DataLen(r) \in Nat /\ DataLen(q1) \in Nat /\ Cap \in Nat
    BY <1>2, DataLenNat, NumAssumption
  <1>4. Fits(q2, r, n1 + n2)
    <2> SUFFICES ASSUME r.err = "ok", DataLen(r) + (n1 + n2) <= Cap
                 PROVE  q2.err = "ok"
      BY DEF Fits
    <2>1. DataLen(r) + n1 <= Cap
      BY <1>3
    <2>2. q1.err = "ok"
      BY <2>1 DEF Exact, Fits
    <2>3. DataLen(q1) = DataLen(r) + n1
      BY <2>2 DEF Exact, Grows
    <2>4. DataLen(q1) + n2 <= Cap
      BY <1>3, <2>3
    <2>5. QED
      BY <2>2, <2>4 DEF Exact, Fits
  <1>5. QED
    BY <1>1, <1>4 DEF Exact

\* A size is restated with an equal one.
LEMMA ExactEq ==
  ASSUME NEW r, NEW q, NEW n, NEW m, Exact(q, r, n), n = m
  PROVE  Exact(q, r, m)
  OBVIOUS

\* A store that fails its capacity check up front is exact: it does not
\* fit, and it leaves the builder with CellOverflow.
LEMMA ExactOverflow ==
  ASSUME NEW r \in Builder, NEW n \in Nat, Len(r.bits) + n > Cap
  PROVE  Exact(Fail(r, "CellOverflow"), r, n)
  <1>1. Grows(Fail(r, "CellOverflow"), r, n)
    BY GrowsFail
  <1>2. Fits(Fail(r, "CellOverflow"), r, n)
    <2> SUFFICES ASSUME DataLen(r) + n <= Cap PROVE FALSE
      BY DEF Fits
    <2>1. DataLen(r) = Len(r.bits) /\ DataLen(r) \in Nat /\ Cap \in Nat
      BY DataLenNat, NumAssumption DEF DataLen
    <2>2. QED
      BY <2>1
  <1>3. QED
    BY <1>1, <1>2 DEF Exact

-----------------------------------------------------------------------------
(* Anycast, StdAddr, VarAddr and IntAddr.                                  *)

LEMMA ExactAnycast ==
  ASSUME NEW r \in Builder, NEW x, AnycastOK(x)
  PROVE  Exact(StoreAnycast(r, x), r, AnycastBitLen(x))
  <1>1. x.depth \in Nat /\ x.prefix \in Seq({0, 1}) /\ Len(x.prefix) = x.depth
    BY DEF AnycastOK
  <1>2. AnycastBitLen(x) \in Nat
    BY <1>1 DEF AnycastBitLen
  <1>3. CASE Len(r.bits) + AnycastBitLen(x) > Cap
    <2>1. StoreAnycast(r, x) = Fail(r, "CellOverflow")
      BY <1>3 DEF StoreAnycast
    <2>2. QED
      BY <1>2, <1>3, <2>1, ExactOverflow
  <1>4. CASE ~(Len(r.bits) + AnycastBitLen(x) > Cap)
    <2>1. StoreAnycast(r, x) = StoreBits(StoreUint(r, x.depth, 5), x.prefix)
      BY <1>4 DEF StoreAnycast, StoreSplitDepth
    <2>2. Exact(StoreUint(r, x.depth, 5), r, 5) /\ StoreUint(r, x.depth, 5) \in Builder
      BY <1>1, ExactUint DEF Exact, Grows
    <2>3. Exact(StoreBits(StoreUint(r, x.depth, 5), x.prefix), StoreUint(r, x.depth, 5), x.depth)
      BY <1>1, <2>2, ExactBits
    <2>4. Exact(StoreBits(StoreUint(r, x.depth, 5), x.prefix), r, 5 + x.depth)
      BY <1>1, <2>2, <2>3, ExactTrans
    <2>5. QED
      BY <2>1, <2>4 DEF AnycastBitLen
  <1>5. QED
    BY <1>3, <1>4

LEMMA ExactOptAnycast ==
  ASSUME NEW r \in Builder, NEW o, OptAnycastOK(o)
  PROVE  Exact(StoreOptAnycast(r, o), r, 1 + AnyLen(o))
  <1>1. CASE o = <<>>
    <2>1. StoreOptAnycast(r, o) = StoreUint(r, 0, 1) /\ 1 + AnyLen(o) = 1
      BY <1>1 DEF StoreOptAnycast, AnyLen
    <2>2. QED
      BY <2>1, ExactUint
  <1>2. CASE o # <<>>
    <2>1. AnycastOK(o[1])
      BY <1>2 DEF OptAnycastOK
    <2>2. AnycastBitLen(o[1]) \in Nat
      BY <2>1 DEF AnycastOK, AnycastBitLen
    <2>3. StoreOptAnycast(r, o) = StoreAnycast(StoreUint(r, 1, 1), o[1])
          /\ AnyLen(o) = AnycastBitLen(o[1])
      BY <1>2 DEF StoreOptAnycast, AnyLen
    <2>4. Exact(StoreUint(r, 1, 1), r, 1) /\ StoreUint(r, 1, 1) \in Builder
      BY ExactUint DEF Exact, Grows
    <2>5. Exact(StoreAnycast(StoreUint(r, 1, 1), o[1]), StoreUint(r, 1, 1), AnycastBitLen(o[1]))
      BY <2>1, <2>4, ExactAnycast
    <2>6. QED
      BY <2>2, <2>3, <2>4, <2>5, ExactTrans
  <1>3. QED
    BY <1>1, <1>2

\* StdAddr::store_into: past the capacity check every store fits.
LEMMA ExactStd ==
  ASSUME NEW r \in Builder, NEW a, WellFormedAddr(a), a.kind = "std"
  PROVE  Exact(StoreStdAddr(r, a), r, StdBitLen(a))
  <1>1. OptAnycastOK(a.anycast) /\ a.workchain \in Int
        /\ a.address \in Seq({0, 1}) /\ Len(a.address) = 256
    BY DEF WellFormedAddr
  <1>2. AnyLen(a.anycast) \in Nat
    BY <1>1, AnyLenNat
  <1>3. StdBitLen(a) = 2 + 1 + 8 + 256 + AnyLen(a.anycast) /\ StdBitLen(a) \in Nat
    BY <1>2 DEF StdBitLen, AnyLen
  <1>4. CASE Len(r.bits) + StdBitLen(a) > Cap
    <2>1. StoreStdAddr(r, a) = Fail(r, "CellOverflow")
      BY <1>4 DEF StoreStdAddr
    <2>2. QED
      BY <1>3, <1>4, <2>1, ExactOverflow
  <1>5. CASE ~(Len(r.bits) + StdBitLen(a) > Cap)
    <2> DEFINE q1 == StoreUint(r, 2, 2)
               q2 == StoreOptAnycast(q1, a.anycast)
               w  == Bits(a.workchain % 256, 8)
               q3 == StoreBits(q2, w)
               q4 == StoreBits(q3, a.address)
    <2>1. StoreStdAddr(r, a) = q4
      BY <1>5 DEF StoreStdAddr
    <2>2. Exact(q1, r, 2) /\ q1 \in Builder
      BY ExactUint DEF Exact, Grows
    <2>3. Exact(q2, q1, 1 + AnyLen(a.anycast)) /\ q2 \in Builder
      BY <1>1, <2>2, ExactOptAnycast DEF Exact, Grows
    <2>4. w \in Seq({0, 1}) /\ Len(w) = 8
      <3>1. a.workchain % 256 \in Int /\ 8 \in Nat
        BY <1>1
      <3>2. QED
        BY <3>1, BitsType, ZenonT(30)
    <2>5. Exact(q3, q2, 8) /\ q3 \in Builder
      <3>1. Exact(q3, q2, Len(w))
        BY <2>3, <2>4, ExactBits
      <3>2. q3 \in Builder
        BY <3>1 DEF Exact, Grows
      <3>3. QED
        BY <2>4, <3>1, <3>2, ExactEq
    <2>6. Exact(q4, q3, 256)
      <3>0. q3 \in Builder /\ a.address \in Seq({0, 1})
        BY <1>1, <2>5
      <3>1. Exact(q4, q3, Len(a.address))
        BY <3>0, ExactBits
      <3>2. QED
        BY <1>1, <3>1, ExactEq
    <2>7. Exact(q2, r, 2 + (1 + AnyLen(a.anycast)))
      BY <1>2, <2>2, <2>3, ExactTrans
    <2>8. Exact(q3, r, 2 + (1 + AnyLen(a.anycast)) + 8)
      BY <1>2, <2>5, <2>7, ExactTrans
    <2>9. Exact(q4, r, 2 + (1 + AnyLen(a.anycast)) + 8 + 256)
      BY <1>2, <2>6, <2>8, ExactTrans
    <2>10. 2 + (1 + AnyLen(a.anycast)) + 8 + 256 = StdBitLen(a)
      BY <1>2, <1>3
    <2>11. QED
      BY <2>1, <2>9, <2>10, ExactEq
  <1>6. QED
    BY <1>4, <1>5

\* VarAddr::store_into: past the capacity check every store fits, and the
\* Uint9 store does not fail when address_len is a valid Uint9.
LEMMA ExactVar ==
  ASSUME NEW r \in Builder, NEW a, WellFormedAddr(a), a.kind = "var", Uint9Valid(a)
  PROVE  Exact(StoreVarAddr(r, a), r, VarBitLen(a))
  <1>1. OptAnycastOK(a.anycast) /\ a.len \in Nat
        /\ a.workchain \in Seq({0, 1}) /\ Len(a.workchain) = 32
        /\ a.address \in Seq({0, 1}) /\ a.len <= Len(a.address)
    BY DEF WellFormedAddr
  <1>2. AnyLen(a.anycast) \in Nat
    BY <1>1, AnyLenNat
  <1>3. VarBitLen(a) = 2 + 1 + 9 + 32 + a.len + AnyLen(a.anycast)
    BY DEF VarBitLen, AnyLen
  <1>4. VarBitLen(a) \in Nat
    <3>1. \A x, l \in Nat : 2 + 1 + 9 + 32 + l + x \in Nat
      OBVIOUS
    <3>2. QED
      BY <1>1, <1>2, <1>3, <3>1, Zenon
  <1>5. CASE Len(r.bits) + VarBitLen(a) > Cap
    <2>1. StoreVarAddr(r, a) = Fail(r, "CellOverflow")
      BY <1>5 DEF StoreVarAddr
    <2>2. QED
      BY <1>4, <1>5, <2>1, ExactOverflow
  <1>6. CASE ~(Len(r.bits) + VarBitLen(a) > Cap)
    <2> DEFINE q1 == StoreUint(r, 3, 2)
               q2 == StoreOptAnycast(q1, a.anycast)
               q3 == StoreSmallUint(q2, "Uint9", a.len)
               q4 == StoreBits(q3, a.workchain)
               p  == SubSeq(a.address, 1, a.len)
               q5 == StoreBits(q4, p)
    <2>1. StoreVarAddr(r, a) = q5
      BY <1>6 DEF StoreVarAddr
    <2>2. Exact(q1, r, 2) /\ q1 \in Builder
      BY ExactUint DEF Exact, Grows
    <2>3. Exact(q2, q1, 1 + AnyLen(a.anycast)) /\ q2 \in Builder
      BY <1>1, <2>2, ExactOptAnycast DEF Exact, Grows
    <2>4. Exact(q3, q2, 9) /\ q3 \in Builder
      <3>0. a.len <= 511
        BY Zenon DEF Uint9Valid
      <3>1. a.len \in 0..511
        <4>1. \A l \in Nat : l <= 511 => l \in 0..511
          OBVIOUS
        <4>2. QED
          BY <1>1, <3>0, <4>1, Zenon
      <3>2. QED
        BY <2>3, <3>1, ExactSmall DEF Exact, Grows
    <2>5. Exact(q4, q3, 32) /\ q4 \in Builder
      <3>1. Exact(q4, q3, Len(a.workchain))
        BY <1>1, <2>4, ExactBits
      <3>2. QED
        BY <1>1, <3>1, ExactEq DEF Exact, Grows
    <2>6. p \in Seq({0, 1}) /\ Len(p) = a.len
      BY <1>1, SubSeqProperties
    <2>7. Exact(q5, q4, a.len)
      <3>1. Exact(q5, q4, Len(p))
        BY <2>5, <2>6, ExactBits
      <3>2. QED
        BY <2>6, <3>1, ExactEq
    <2>8. Exact(q2, r, 2 + (1 + AnyLen(a.anycast)))
      BY <1>2, <2>2, <2>3, ExactTrans
    <2>9. Exact(q3, r, 2 + (1 + AnyLen(a.anycast)) + 9)
      BY <1>2, <2>4, <2>8, ExactTrans
    <2>10. Exact(q4, r, 2 + (1 + AnyLen(a.anycast)) + 9 + 32)
      BY <1>2, <2>5, <2>9, ExactTrans
    <2>11. Exact(q5, r, 2 + (1 + AnyLen(a.anycast)) + 9 + 32 + a.len)
      <3>1. 2 + (1 + AnyLen(a.anycast)) + 9 + 32 \in Nat
        BY <1>2
      <3>2. QED
        BY <1>1, <2>7, <2>10, <3>1, ExactTrans
    <2>12. 2 + (1 + AnyLen(a.anycast)) + 9 + 32 + a.len = VarBitLen(a)
      <3>1. \A x, l \in Nat : 2 + (1 + x) + 9 + 32 + l = 2 + 1 + 9 + 32 + l + x
        OBVIOUS
      <3>2. QED
        BY <1>1, <1>2, <1>3, <3>1, Zenon
    <2>13. QED
      BY <2>1, <2>11, <2>12, ExactEq
  <1>7. QED
    BY <1>5, <1>6

\* IntAddr::store_into of an address whose address_len is a valid Uint9.
LEMMA ExactIntAddr ==
  ASSUME NEW r \in Builder, NEW a, WellFormedAddr(a), Uint9Valid(a)
  PROVE  Exact(StoreIntAddr(r, a), r, AddrBitLen(a))
  <1>1. a.kind = "std" \/ a.kind = "var"
    BY DEF WellFormedAddr
  <1>2. CASE a.kind = "std"
    BY <1>2, ExactStd DEF StoreIntAddr, AddrBitLen
  <1>3. CASE a.kind = "var"
    BY <1>3, ExactVar DEF StoreIntAddr, AddrBitLen
  <1>4. QED
    BY <1>1, <1>2, <1>3

-----------------------------------------------------------------------------
(* The refinement.                                                         *)

\* A store whose capacity check fails writes nothing.
LEMMA OverflowIntAddr ==
  ASSUME NEW r, NEW a, WellFormedAddr(a), Len(r.bits) + AddrBitLen(a) > Cap
  PROVE  StoreIntAddr(r, a) = Fail(r, "CellOverflow")
  <1>1. a.kind = "std" \/ a.kind = "var"
    BY DEF WellFormedAddr
  <1>2. CASE a.kind = "std"
    BY <1>2 DEF StoreIntAddr, AddrBitLen, StoreStdAddr
  <1>3. CASE a.kind = "var"
    BY <1>3 DEF StoreIntAddr, AddrBitLen, StoreVarAddr
  <1>4. QED
    BY <1>1, <1>2, <1>3

\* Appending an entry appends its address.
LEMMA AddrsOfAppend ==
  ASSUME NEW s \in Seq([a : Addrs, len : Int]), NEW e \in [a : Addrs, len : Int]
  PROVE  AddrsOf(Append(s, e)) = Append(AddrsOf(s), e.a)
  <1>1. Len(Append(s, e)) = Len(s) + 1 /\ Len(s) \in Nat
    BY AppendProperties
  <1>2. AddrsOf(s) \in Seq(Addrs) /\ Len(AddrsOf(s)) = Len(s)
    <2>1. \A i \in 1..Len(s) : s[i] \in [a : Addrs, len : Int]
      BY ElementOfSeq
    <2>2. \A i \in 1..Len(s) : s[i].a \in Addrs
      BY <2>1
    <2>3. AddrsOf(s) \in [1..Len(s) -> Addrs]
      BY <2>2 DEF AddrsOf
    <2>4. QED
      BY <1>1, <2>3 DEF AddrsOf
  <1>3. \A i \in 1..Len(s) + 1 : AddrsOf(Append(s, e))[i] = Append(AddrsOf(s), e.a)[i]
    BY <1>1, <1>2, AppendProperties DEF AddrsOf
  <1>4. QED
    BY <1>1, <1>2, <1>3, AppendProperties DEF AddrsOf

\* IntAddr::store_into of an address whose address_len is a valid Uint9
\* is a Put of the writer.
LEMMA StoreIsPut ==
  ASSUME IInv, NEW a \in Addrs, Uint9Valid(a), Store(a)
  PROVE  Writer!Put(a)
  <1> DEFINE r == StoreIntAddr(Start, a)
             n == AddrBitLen(a)
  <1>1. builder \in Seq({0, 1}) /\ stored \in Seq([a : Addrs, len : Int])
    BY DEF IInv
  <1>2. Start \in Builder /\ WellFormedAddr(a) /\ DataLen(Start) = Len(builder)
        /\ Len(builder) \in Nat /\ Cap \in Nat
    BY <1>1, AddrCodecAssumption, NumAssumption, LenProperties DEF Start, Builder, DataLen
  <1>3. Exact(r, Start, n) /\ n \in Nat
    BY <1>2, ExactIntAddr, AddrBitLenNat
  <1>4. [x \in Addrs |-> AddrBitLen(x)][a] = n
    OBVIOUS
  <1>5. /\ phase = "build" /\ phase' = phase
        /\ builder' = r.bits /\ status' = r.err
        /\ stored' = IF r.err = "ok"
                     THEN Append(stored, [a |-> a, len |-> Len(r.bits) - Len(builder)])
                     ELSE stored
    BY DEF Store, Start
  <1>6. CASE Len(builder) + n <= Cap
    <2>1. r.err = "ok" /\ DataLen(r) = DataLen(Start) + n
      BY <1>2, <1>3, <1>6 DEF Exact, Fits, Grows, Start
    <2>2. Len(r.bits) = Len(builder) + n
      BY <1>2, <2>1 DEF DataLen
    <2>3. Len(r.bits) - Len(builder) = n
      BY <1>2, <1>3, <2>2, Diff
    <2>4. stored' = Append(stored, [a |-> a, len |-> n])
      BY <1>5, <2>1, <2>3
    <2>5. [a |-> a, len |-> n] \in [a : Addrs, len : Int]
      BY <1>3
    <2>6. AddrsOf(stored') = Append(AddrsOf(stored), a)
      BY <1>1, <2>4, <2>5, AddrsOfAppend
    <2>7. Len(builder') = Len(builder) + n /\ status' = "ok"
      BY <1>5, <2>1, <2>2
    <2>8. QED
      BY <1>4, <1>5, <1>6, <2>6, <2>7 DEF Writer!Put
  <1>7. CASE ~(Len(builder) + n <= Cap)
    <2>1. r = Fail(Start, "CellOverflow")
      BY <1>2, <1>3, <1>7, OverflowIntAddr DEF Start
    <2>2. r.bits = builder /\ r.err = "CellOverflow"
      BY <2>1 DEF Fail, Start
    <2>3. builder' = builder /\ status' = "CellOverflow" /\ stored' = stored
      BY <1>5, <2>2
    <2>4. QED
      BY <1>4, <1>5, <1>7, <2>3 DEF Writer!Put
  <1>8. QED
    BY <1>6, <1>7

\* Finishing the cell is the writer's Build.
LEMMA FinishIsBuild ==
  ASSUME Finish
  PROVE  Writer!Build
  BY DEF Finish, Writer!Build

\* The other actions leave the writer's state as it was.
LEMMA OthersStutter ==
  ASSUME \/ \E loader \in {"IntAddr", "StdAddr"} : Load(loader)
         \/ \E a \in KeyAddrs, pad \in Pads : DictSet(a, pad)
         \/ DictNext
         \/ \E bits \in Prefixes : FromSlice(bits)
         \/ UNCHANGED vars
  PROVE  UNCHANGED Writer!vars
  <1>1. CASE \E loader \in {"IntAddr", "StdAddr"} : Load(loader)
    BY <1>1 DEF Load, Writer!vars
  <1>2. CASE \/ \E a \in KeyAddrs, pad \in Pads : DictSet(a, pad)
             \/ DictNext
             \/ \E bits \in Prefixes : FromSlice(bits)
             \/ UNCHANGED vars
    BY <1>2 DEF DictSet, DictNext, FromSlice, CellVars, vars, Writer!vars
  <1>3. QED
    BY <1>1, <1>2

LEMMA IInvHolds ==
  Spec => []IInv
  BY IInvInit, IInvNext, PTL DEF Spec

\* For every capacity and every set of well-formed addresses whose
\* address_len is a valid Uint9, the program's builder implements the
\* cell writer: IntAddr::store_into appends the whole address exactly when
\* its bit_len() fits, and otherwise fails with CellOverflow and writes
\* nothing.  The run addr_store_refines_writer checks the same on a small
\* instance; addr_wide_len shows the hypothesis is needed.
THEOREM StoreRefinesWriter ==
  ASSUME \A a \in Addrs : Uint9Valid(a)
  PROVE  Spec => StoreImplementsWriter
  <1>1. Init => Writer!Init
    BY DEF Init, Writer!Init, AddrsOf
  <1>2. IInv /\ [Next]_vars => [Writer!Next]_Writer!vars
    <2> SUFFICES ASSUME IInv, [Next]_vars PROVE [Writer!Next]_Writer!vars
      OBVIOUS
    <2>1. CASE \E a \in Addrs : Store(a)
      <3>1. PICK a \in Addrs : Store(a)
        BY <2>1
      <3>2. Writer!Put(a)
        BY <3>1, StoreIsPut
      <3>3. QED
        BY <3>2 DEF Writer!Next
    <2>2. CASE Finish
      BY <2>2, FinishIsBuild DEF Writer!Next
    <2>3. CASE ~(\E a \in Addrs : Store(a)) /\ ~Finish
      <3>1. \/ \E loader \in {"IntAddr", "StdAddr"} : Load(loader)
            \/ \E a \in KeyAddrs, pad \in Pads : DictSet(a, pad)
            \/ DictNext
            \/ \E bits \in Prefixes : FromSlice(bits)
            \/ UNCHANGED vars
        BY <2>3 DEF Next
      <3>2. QED
        BY <3>1, OthersStutter
    <2>4. QED
      BY <2>1, <2>2, <2>3
  <1>3. QED
    BY <1>1, <1>2, IInvHolds, PTL DEF Spec, StoreImplementsWriter, Writer!Spec

=============================================================================
