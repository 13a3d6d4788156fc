------------------------------ MODULE Address --------------------------------
(***************************************************************************)
(* The internal message addresses of src/models/message/address.rs and     *)
(* their cell encodings, at their real widths: bytes of 8 bits, a 256-bit  *)
(* account id, an i8 workchain for StdAddr and an i32 one for VarAddr.     *)
(* Wide integers and byte buffers are bit sequences, most significant bit  *)
(* first, and the shifts on them are what the code's shifts do; an i8 is  *)
(* a number, an i32 its 32 bits (the code only ever casts it to and from   *)
(* u32, which keeps the bits).                                             *)
(*                                                                         *)
(*   Anycast    [depth |-> SplitDepth value, prefix |-> depth bits]        *)
(*   StdAddr    [kind |-> "std", anycast, workchain, address]              *)
(*   VarAddr    [kind |-> "var", anycast, len, workchain, address]         *)
(*                                                                         *)
(* where anycast is the Option<Box<Anycast>>: <<>> for None, <<a>> for     *)
(* Some(a).                                                                *)
(***************************************************************************)
EXTENDS Num

\* The w low bits of the two's complement of v, most significant first,
\* by repeated halving (floor division keeps the sign bits of negatives).
BitsOf(v, w) ==
  LET h[j \in 0..w] == IF j = 0 THEN v ELSE h[j - 1] \div 2
  IN  [i \in 1..w |-> h[w - i] % 2]

Zeros(k) == [i \in 1..k |-> 0]

\* >> and << on an unsigned integer held as its bits.
ShrBits(x, k) == Zeros(k) \o SubSeq(x, 1, Len(x) - k)
ShlBits(x, k) == SubSeq(x, k + 1, Len(x)) \o Zeros(k)
OrBits(x, y) == [i \in DOMAIN x |-> IF x[i] + y[i] > 0 THEN 1 ELSE 0]

\* u8 as i8.
AsI8(n) == IF n >= 128 THEN n - 256 ELSE n

-----------------------------------------------------------------------------
(* Builder and slice primitives on bit strings (not under src/):           *)
(* store_raw / store_u8 / store_u32 / store_u256 and their loads, and the  *)
(* Store / Load of Option<T>: a bit, then the value if it is 1.            *)

StoreBits(r, b) ==
  IF r.err # "ok" THEN r
  ELSE IF Len(r.bits) + Len(b) > Cap THEN Fail(r, "CellOverflow")
  ELSE [r EXCEPT !.bits = @ \o b]

LoadBits(s, n) ==
  IF s.err # "ok" THEN s
  ELSE IF s.pos + n > Len(s.bits) THEN Fail(s, "CellUnderflow")
  ELSE [s EXCEPT !.pos = @ + n, !.val = SubSeq(s.bits, s.pos + 1, s.pos + n)]

-----------------------------------------------------------------------------
(* Anycast.                                                                *)

AnycastBitLen(a) == 5 + a.depth

StoreAnycast(r, a) ==
  IF Len(r.bits) + AnycastBitLen(a) > Cap THEN Fail(r, "CellOverflow")
  ELSE StoreBits(StoreSplitDepth(r, a.depth), a.prefix)

LoadAnycast(s) ==
  LET s1 == LoadSplitDepth(s)
      s2 == LoadBits(s1, s1.val)
  IN  IF s1.err # "ok" THEN s1
      ELSE IF s1.pos + s1.val > Len(s1.bits) THEN Fail(s1, "CellUnderflow")
      ELSE [s2 EXCEPT !.val = [depth |-> s1.val, prefix |-> s2.val]]

StoreOptAnycast(r, o) ==
  IF o = <<>> THEN StoreUint(r, 0, 1) ELSE StoreAnycast(StoreUint(r, 1, 1), o[1])

LoadOptAnycast(s) ==
  LET s1 == LoadUint(s, 1)
      s2 == LoadAnycast(s1)
  IN  IF s1.err # "ok" THEN s1
      ELSE IF s1.val = 0 THEN [s1 EXCEPT !.val = <<>>]
      ELSE IF s2.err # "ok" THEN s2
      ELSE [s2 EXCEPT !.val = <<s2.val>>]

\* Anycast::from_slice: the depth is from_bit_len of the remaining bits; the
\* prefix is read by get_raw into Vec::with_capacity(..), whose length is 0.
\* get_raw (not under src/) is given an empty target: it either fails or
\* fills nothing, and the Vec stays empty.  Err(e) is [err |-> e].
AnycastFromSlice(bits) ==
  LET d == SplitDepthFromBitLen(Len(bits))
  IN  IF d = -1 THEN {[err |-> "IntOverflow"]}
      ELSE {[err |-> "CellUnderflow"], [err |-> "ok", depth |-> d, prefix |-> <<>>]}

-----------------------------------------------------------------------------
(* StdAddr.                                                                *)

\* Mutant: the Maybe bit of the anycast is not counted.
StdBitLenNoMaybe(a) == 2 + 8 + 256 + (IF a.anycast = <<>> THEN 0 ELSE AnycastBitLen(a.anycast[1]))

StdBitLen(a) == 2 + 1 + 8 + 256 + (IF a.anycast = <<>> THEN 0 ELSE AnycastBitLen(a.anycast[1]))

\* Mutant: the has_capacity check on bit_len() is left out.
StoreStdAddrUnchecked(r, a) ==
  StoreBits(StoreBits(StoreOptAnycast(StoreUint(r, 2, 2), a.anycast),
                      Bits(a.workchain % 256, 8)),
            a.address)

StoreStdAddr(r, a) ==
  IF Len(r.bits) + StdBitLen(a) > Cap THEN Fail(r, "CellOverflow")
  ELSE StoreBits(StoreBits(StoreOptAnycast(StoreUint(r, 2, 2), a.anycast),
                           Bits(a.workchain % 256, 8)),
                 a.address)

\* Mutant: the workchain byte is kept as a u8.
LoadStdBodyUnsigned(s) ==
  LET s1 == LoadOptAnycast(s)
      s2 == LoadUint(s1, 8)
      s3 == LoadBits(s2, 256)
  IN  [s3 EXCEPT !.val = [kind |-> "std", anycast |-> s1.val,
                          workchain |-> s2.val, address |-> s3.val]]

\* The fields after the tag: anycast, load_u8 as i8, load_u256.
LoadStdBody(s) ==
  LET s1 == LoadOptAnycast(s)
      s2 == LoadUint(s1, 8)
      s3 == LoadBits(s2, 256)
  IN  [s3 EXCEPT !.val = [kind |-> "std", anycast |-> s1.val,
                          workchain |-> AsI8(s2.val), address |-> s3.val]]

LoadStdAddr(s) ==
  LET s1 == LoadUint(s, 1)
      s2 == LoadUint(s1, 1)
  IN  IF s1.err # "ok" THEN s1
      ELSE IF s1.val = 0 THEN Fail(s1, "InvalidTag")
      ELSE IF s2.err # "ok" THEN s2
      ELSE IF s2.val = 1 THEN Fail(s2, "InvalidTag")
      ELSE LoadStdBody(s2)

-----------------------------------------------------------------------------
(* VarAddr.                                                                *)

VarBitLen(a) ==
  2 + 1 + 9 + 32 + a.len + (IF a.anycast = <<>> THEN 0 ELSE AnycastBitLen(a.anycast[1]))

StoreVarAddr(r, a) ==
  IF Len(r.bits) + VarBitLen(a) > Cap THEN Fail(r, "CellOverflow")
  ELSE StoreBits(StoreBits(StoreSmallUint(StoreOptAnycast(StoreUint(r, 3, 2), a.anycast),
                                          "Uint9", a.len),
                           a.workchain),
                 SubSeq(a.address, 1, a.len))

\* Mutant: the workchain is read before the address length.
LoadVarBodySwapped(s) ==
  LET s1 == LoadOptAnycast(s)
      s3 == LoadBits(s1, 32)
      s2 == LoadSmallUint(s3, "Uint9")
      s4 == LoadBits(s2, s2.val)
  IN  IF s2.err # "ok" THEN s2
      ELSE IF s2.pos + s2.val > Len(s2.bits) THEN Fail(s2, "CellUnderflow")
      ELSE [s4 EXCEPT !.val = [kind |-> "var", anycast |-> s1.val, len |-> s2.val,
                               workchain |-> s3.val, address |-> s4.val]]

\* The fields after the tag: anycast, Uint9, load_u32 as i32, then
\* has_remaining(address_len) before load_raw.
LoadVarBody(s) ==
  LET s1 == LoadOptAnycast(s)
      s2 == LoadSmallUint(s1, "Uint9")
      s3 == LoadBits(s2, 32)
      s4 == LoadBits(s3, s2.val)
  IN  IF s3.err # "ok" THEN s3
      ELSE IF s3.pos + s2.val > Len(s3.bits) THEN Fail(s3, "CellUnderflow")
      ELSE [s4 EXCEPT !.val = [kind |-> "var", anycast |-> s1.val, len |-> s2.val,
                               workchain |-> s3.val, address |-> s4.val]]

-----------------------------------------------------------------------------
(* IntAddr.                                                                *)

StoreIntAddr(r, a) ==
  IF a.kind = "std" THEN StoreStdAddr(r, a) ELSE StoreVarAddr(r, a)

LoadIntAddr(s) ==
  LET s1 == LoadUint(s, 1)
      s2 == LoadUint(s1, 1)
  IN  IF s1.err # "ok" THEN s1
      ELSE IF s1.val = 0 THEN Fail(s1, "InvalidTag")
      ELSE IF s2.err # "ok" THEN s2
      ELSE IF s2.val = 1 THEN LoadVarBody(s2) ELSE LoadStdBody(s2)

-----------------------------------------------------------------------------
(* StdAddr as a dictionary key: DictKey::from_raw_data reads the first 34  *)
(* of the 128 bytes of key data; None is [none |-> TRUE].                  *)

\* Mutant: the bits carried from hi into lo are shifted by 120 + SHIFT.
StdFromRawDataShift(raw) ==
  LET first == ReadNat(raw, 0, 8)
      second == ReadNat(raw, 8, 8)
      hi == SubSeq(raw, 17, 144)
      lo == SubSeq(raw, 145, 272)
  IN  IF SubSeq(Bits(first, 8), 1, 3) # <<1, 0, 0>> THEN [none |-> TRUE]
      ELSE [kind |-> "std", anycast |-> <<>>,
            workchain |-> AsI8(((first * 8) % 256) + (second \div 32)),
            address |-> OrBits(ShrBits(hi, 5), ShlBits(Zeros(120) \o Bits(second, 8), 123))
                        \o OrBits(ShrBits(lo, 5), ShlBits(hi, 125))]

StdFromRawData(raw) ==
  LET first == ReadNat(raw, 0, 8)
      second == ReadNat(raw, 8, 8)
      hi == SubSeq(raw, 17, 144)
      lo == SubSeq(raw, 145, 272)
  IN  IF SubSeq(Bits(first, 8), 1, 3) # <<1, 0, 0>> THEN [none |-> TRUE]
      ELSE [kind |-> "std", anycast |-> <<>>,
            workchain |-> AsI8(((first * 8) % 256) + (second \div 32)),
            address |-> OrBits(ShrBits(hi, 5), ShlBits(Zeros(120) \o Bits(second, 8), 123))
                        \o OrBits(ShrBits(lo, 5), ShlBits(hi, 123))]

=============================================================================
