-------------------------------- MODULE Num ---------------------------------
(***************************************************************************)
(* The integer types of src/num/mod.rs and their cell encodings, as pure   *)
(* operators.                                                              *)
(*                                                                         *)
(*   VarUint24(u32), VarUint56(u64), Tokens(u128): a length in LEN_BITS    *)
(*     bits, then that many bytes of the value;                            *)
(*   VarUint248([u128; 2]): the same with a 5-bit length over two words;   *)
(*   Uint9, Uint12, Uint15 (u16): exactly BITS bits;                       *)
(*   SplitDepth (NonZeroU8): 5 bits.                                       *)
(*                                                                         *)
(* Widths that the code writes in bytes are scaled by ByteBits (8 in the   *)
(* code): u32 is 4 * ByteBits bits, the length of a VarUint counts bytes,  *)
(* store_u128 splits at 8 bytes.  Widths written in bits (Uint9's 9, the   *)
(* 5 bits of SplitDepth, LEN_BITS) are kept as they are.                   *)
(*                                                                         *)
(* The builder and the slice are not under src/: they are modelled from    *)
(* the codec contract as a bit sequence with room for Cap bits.  Every     *)
(* call on them takes and returns a record whose err field is "ok" or the  *)
(* error that the call, or an earlier one of the same handler, returned:   *)
(* ok!(..) returns early, so a call after an error does nothing, but what  *)
(* the calls before it wrote stays in the builder.                         *)
(***************************************************************************)
EXTENDS Integers, Sequences

CONSTANTS
  ByteBits,   \* bits per byte (8 in the code)
  Cap         \* data bits a builder holds (MAX_BIT_LEN, 1023 in the code)

ASSUME NumAssumption ==
  /\ ByteBits \in Nat \ {0}
  /\ Cap \in Nat

VarUintTypes == {"VarUint24", "VarUint56", "Tokens"}
SmallUintTypes == {"Uint9", "Uint12", "Uint15"}
AllTypes == VarUintTypes \cup SmallUintTypes \cup {"VarUint248", "SplitDepth"}

\* The size_of the inner integer and max_bytes of impl_var_uints!, in bytes.
InnerBytes == [VarUint24 |-> 4, VarUint56 |-> 8, Tokens |-> 16]
MaxBytes == [VarUint24 |-> 3, VarUint56 |-> 7, Tokens |-> 15]

\* The $bits of impl_small_uints!; their inner integer is a u16.
SmallBits == [Uint9 |-> 9, Uint12 |-> 12, Uint15 |-> 15]

\* The width of the inner integer of a type that has arithmetic.
InnerWidth(t) ==
  IF t \in VarUintTypes THEN InnerBytes[t] * ByteBits ELSE 16

U64Bits == 8 * ByteBits
U128Bits == 16 * ByteBits

-----------------------------------------------------------------------------
(* Bits.                                                                   *)

\* The n low bits of v, most significant first.
Bits(v, n) == [i \in 1..n |-> (v \div 2^(n - i)) % 2]

\* The number read from the n bits of s after position p.
ReadNat(s, p, n) ==
  LET acc[k \in 0..n] == IF k = 0 THEN 0 ELSE 2 * acc[k - 1] + s[p + k]
  IN  acc[n]

\* leading_zeros of v as an integer of w bits: w less the bit length of v.
\* Every v the code calls it on fits in w bits; one that does not (no k
\* below) has no integer of w bits and is given 0.
LeadingZeros(v, w) ==
  IF \E k \in 0..w : v < 2^k /\ (k = 0 \/ 2^(k - 1) <= v)
  THEN w - (CHOOSE k \in 0..w : v < 2^k /\ (k = 0 \/ 2^(k - 1) <= v))
  ELSE 0

-----------------------------------------------------------------------------
(* impl_var_uints!: constants, validity and bit length.                    *)

LEN_BITS(t) == 8 - LeadingZeros(MaxBytes[t], 8)

MAX(t) == 2^(MaxBytes[t] * ByteBits) - 1

MAX_BITS(t) == LEN_BITS(t) + MaxBytes[t] * ByteBits

IsValid(t, v) == v <= MAX(t)

\* Mutant: the bits of the value rounded down to bytes instead of up.
ByteLenFloor(t, v) == (InnerBytes[t] * ByteBits - LeadingZeros(v, InnerBytes[t] * ByteBits)) \div ByteBits

\* size_of::<Self>() - leading_zeros / 8: the bytes the value needs.
ByteLen(t, v) == InnerBytes[t] - LeadingZeros(v, InnerBytes[t] * ByteBits) \div ByteBits

\* Mutant: bit_len without the length prefix.
BitLenNoPrefix(t, v) ==
  IF ByteLen(t, v) > MaxBytes[t] THEN -1 ELSE ByteLen(t, v) * ByteBits

\* bit_len, with None as -1.
BitLen(t, v) ==
  IF ByteLen(t, v) > MaxBytes[t] THEN -1 ELSE LEN_BITS(t) + ByteLen(t, v) * ByteBits

UnwrapBitLen(t, v) ==
  IF ByteLen(t, v) > MaxBytes[t] THEN MAX_BITS(t) ELSE BitLen(t, v)

\* The checked_add/sub/mul/div of the inner integer, then value <= MAX.
\* None is -1; the inner operation is None on overflow or on division by 0.
InnerChecked(v, w) == IF v \in 0..(2^w - 1) THEN v ELSE -1

CheckedResult(t, v) ==
  IF v # -1 /\ v <= (IF t \in VarUintTypes THEN MAX(t) ELSE 2^SmallBits[t] - 1)
  THEN v ELSE -1

-----------------------------------------------------------------------------
(* VarUint248.                                                             *)

MAX248 == <<2^(U128Bits - ByteBits) - 1, 2^U128Bits - 1>>

\* VarUint248::ONE and MIN, as written: ONE is Self([0; 2]), MIN new(1).
ONE248 == <<0, 0>>
MIN248 == <<0, 1>>

IsValid248(w) == w[1] <= MAX248[1]

LeadingZeros248(w) ==
  IF w[1] = 0 THEN U128Bits + LeadingZeros(w[2], U128Bits)
  ELSE LeadingZeros(w[1], U128Bits)

ByteLen248(w) == 32 - LeadingZeros248(w) \div ByteBits

BitLen248(w) == IF ByteLen248(w) > 31 THEN -1 ELSE 5 + ByteLen248(w) * ByteBits

\* Ord for VarUint248 compares into_words lexicographically.
Less248(a, b) == a[1] < b[1] \/ (a[1] = b[1] /\ a[2] < b[2])

-----------------------------------------------------------------------------
(* The builder and slice primitives the codecs call (not under src/).      *)

Fail(r, e) == [r EXCEPT !.err = e]

\* store_uint / store_small_uint: the n low bits of v, or CellOverflow.
StoreUint(r, v, n) ==
  IF r.err # "ok" THEN r
  ELSE IF Len(r.bits) + n > Cap THEN Fail(r, "CellOverflow")
  ELSE [r EXCEPT !.bits = @ \o Bits(v % 2^n, n)]

\* load_uint / load_small_uint: the next n bits as a number, or CellUnderflow.
LoadUint(s, n) ==
  IF s.err # "ok" THEN s
  ELSE IF s.pos + n > Len(s.bits) THEN Fail(s, "CellUnderflow")
  ELSE [s EXCEPT !.pos = @ + n, !.val = ReadNat(s.bits, s.pos, n)]

-----------------------------------------------------------------------------
(* store_u128 and load_u128: a u128 as two store_uint / load_uint calls    *)
(* split at 64 bits (8 bytes).                                             *)

\* `value as u64` keeps the low 64 bits, and store_uint of fewer than 64
\* bits keeps the low ones of those: the low bits of v either way.
StoreU128(r, v, bits) ==
  IF bits >= U64Bits
  THEN StoreUint(StoreUint(r, v \div 2^U64Bits, bits - U64Bits), v % 2^U64Bits, U64Bits)
  ELSE StoreUint(r, v, bits)

\* Mutant: bytes is not reduced after the high part, so the low part reads
\* the whole count again.
LoadU128NoSub(s, bytes) ==
  LET hasHigh == bytes >= 8 /\ bytes - 8 > 0
      s1 == IF hasHigh THEN LoadUint(s, (bytes - 8) * ByteBits) ELSE s
      high == IF hasHigh THEN s1.val * 2^U64Bits ELSE 0
      s2 == LoadUint(s1, bytes * ByteBits)
  IN  [s2 EXCEPT !.val = high + s2.val]

LoadU128(s, bytes) ==
  LET hasHigh == bytes >= 8 /\ bytes - 8 > 0
      s1 == IF hasHigh THEN LoadUint(s, (bytes - 8) * ByteBits) ELSE s
      high == IF hasHigh THEN s1.val * 2^U64Bits ELSE 0
      s2 == LoadUint(s1, (IF hasHigh THEN 8 ELSE bytes) * ByteBits)
  IN  [s2 EXCEPT !.val = high + s2.val]

-----------------------------------------------------------------------------
(* Store and Load of each type.                                            *)

StoreVarUint(r, t, v) ==
  LET bytes == ByteLen(t, v)
      bits == bytes * ByteBits
      r1 == StoreUint(r, bytes, LEN_BITS(t))
  IN  IF bytes > MaxBytes[t] \/ Len(r.bits) + LEN_BITS(t) + bits > Cap
      THEN Fail(r, "CellOverflow")
      ELSE IF t = "Tokens" THEN StoreU128(r1, v, bits) ELSE StoreUint(r1, v, bits)

LoadVarUint(s, t) ==
  LET s1 == LoadUint(s, LEN_BITS(t))
  IN  IF t = "Tokens" THEN LoadU128(s1, s1.val) ELSE LoadUint(s1, s1.val * ByteBits)

\* Mutant: only bytes > 31 is checked before writing; the capacity is left
\* to the builder calls.
StoreVarUint248Unchecked(r, w) ==
  LET bytes == ByteLen248(w)
      bits == bytes * ByteBits
      r1 == StoreUint(r, bytes, 5)
      r2 == IF bits >= U128Bits THEN StoreU128(r1, w[1], bits - U128Bits) ELSE r1
  IN  IF bytes > 31 THEN Fail(r, "CellOverflow")
      ELSE StoreU128(r2, w[2], IF bits >= U128Bits THEN U128Bits ELSE bits)

StoreVarUint248(r, w) ==
  LET bytes == ByteLen248(w)
      bits == bytes * ByteBits
      r1 == StoreUint(r, bytes, 5)
      r2 == IF bits >= U128Bits THEN StoreU128(r1, w[1], bits - U128Bits) ELSE r1
  IN  IF bytes > 31 \/ Len(r.bits) + 5 + bits > Cap
      THEN Fail(r, "CellOverflow")
      ELSE StoreU128(r2, w[2], IF bits >= U128Bits THEN U128Bits ELSE bits)

LoadVarUint248(s) ==
  LET s1 == LoadUint(s, 5)
      hasHigh == s1.val >= 16 /\ s1.val - 16 > 0
      s2 == IF hasHigh THEN LoadU128(s1, s1.val - 16) ELSE s1
      s3 == LoadU128(s2, IF hasHigh THEN 16 ELSE s1.val)
  IN  [s3 EXCEPT !.val = <<IF hasHigh THEN s2.val ELSE 0, s3.val>>]

StoreSmallUint(r, t, v) ==
  IF v > 2^SmallBits[t] - 1 THEN Fail(r, "IntOverflow") ELSE StoreUint(r, v, SmallBits[t])

LoadSmallUint(s, t) == LoadUint(s, SmallBits[t])

\* SplitDepth::store_into: store_small_uint(self.0.get(), 5).
StoreSplitDepth(r, d) == StoreUint(r, d, 5)

\* SplitDepth::load_from: load_small_uint(5), then SplitDepth::new.
LoadSplitDepth(s) ==
  LET s1 == LoadUint(s, 5)
  IN  IF s1.err = "ok" /\ s1.val = 0 THEN Fail(s1, "IntOverflow") ELSE s1

\* SplitDepth::new and from_bit_len: Err(IntOverflow) is -1.
NewSplitDepth(v) == IF v = 0 THEN -1 ELSE v
SplitDepthFromBitLen(n) == IF n < 255 THEN NewSplitDepth(n) ELSE -1

-----------------------------------------------------------------------------
(* The Store and Load implementations, chosen by type.  A value is a       *)
(* record [t |-> type, v |-> inner value]; VarUint248's v is <<hi, lo>>.   *)

StoreValue(r, x) ==
  CASE x.t \in VarUintTypes   -> StoreVarUint(r, x.t, x.v)
    [] x.t = "VarUint248"     -> StoreVarUint248(r, x.v)
    [] x.t \in SmallUintTypes -> StoreSmallUint(r, x.t, x.v)
    [] x.t = "SplitDepth"     -> StoreSplitDepth(r, x.v)

LoadValue(s, t) ==
  CASE t \in VarUintTypes   -> LoadVarUint(s, t)
    [] t = "VarUint248"     -> LoadVarUint248(s)
    [] t \in SmallUintTypes -> LoadSmallUint(s, t)
    [] t = "SplitDepth"     -> LoadSplitDepth(s)

\* ExactSize::exact_size().bits: bit_len().unwrap_or_default() for the
\* variable-length types, BITS for the fixed ones.
ExactSizeBits(x) ==
  CASE x.t \in VarUintTypes   -> IF BitLen(x.t, x.v) = -1 THEN 0 ELSE BitLen(x.t, x.v)
    [] x.t = "VarUint248"     -> IF BitLen248(x.v) = -1 THEN 0 ELSE BitLen248(x.v)
    [] x.t \in SmallUintTypes -> SmallBits[x.t]
    [] x.t = "SplitDepth"     -> 5

=============================================================================
