------------------------------ MODULE NumCodec -------------------------------
(***************************************************************************)
(* A program that uses the integer types of src/num/mod.rs: it makes a     *)
(* value (new, from_words, TryFrom, FromStr, SplitDepth::new and           *)
(* from_bit_len), computes with it (the operators and checked_* of         *)
(* impl_ops! and of the two macros), stores values into one builder, and   *)
(* then reads the finished cell back with the same sequence of types, as   *)
(* a schema's store_into and load_from do.                                 *)
(*                                                                         *)
(* Rust's + - * << >> on the inner integer panic on overflow in a debug    *)
(* build and wrap in a release build.  A panic ends the program, which for *)
(* the safety properties below is the end of a behaviour, so each operator *)
(* takes the release outcome and the debug outcome is the behaviour that   *)
(* stops there.  Division by zero panics in both builds.                   *)
(***************************************************************************)
EXTENDS Num

CONSTANTS
  Inputs,       \* [type -> the inner values the program starts from]
  Rhs,          \* right-hand operands of the arithmetic operators
  MaxOps,       \* bound on the values made and the operations applied
  MaxStores     \* bound on the values stored into the builder

ASSUME NumCodecAssumption ==
  /\ DOMAIN Inputs \subseteq AllTypes
  /\ \A t \in DOMAIN Inputs :
       Inputs[t] \subseteq (IF t = "VarUint248" THEN Nat \X Nat ELSE Nat)
  /\ Rhs \subseteq Nat
  /\ MaxOps \in Nat /\ MaxStores \in Nat

VARIABLES
  reg,      \* the value the program holds: [t |-> type, v |-> inner value]
  ops,      \* values made and operations applied so far
  builder,  \* the bits stored so far
  stored,   \* the values stored, each with the bits its store appended
  phase,    \* "build", then "read" once the cell is finished
  slice,    \* the reader: [bits, pos, err, val]
  loaded,   \* what each load_from returned: [err, v]
  status    \* the result of the last call: "ok" or its error

vars == <<reg, ops, builder, stored, phase, slice, loaded, status>>

NoValue == [t |-> "none", v |-> 0]

ArithTypes == (VarUintTypes \cup SmallUintTypes) \cap DOMAIN Inputs

Init ==
  /\ reg = NoValue
  /\ ops = 0
  /\ builder = <<>>
  /\ stored = <<>>
  /\ phase = "build"
  /\ slice = [bits |-> <<>>, pos |-> 0, err |-> "ok", val |-> 0]
  /\ loaded = <<>>
  /\ status = "ok"

\* Every step of the build phase that does not store leaves these alone.
BuildUnchanged == UNCHANGED <<builder, stored, phase, slice, loaded>>

-----------------------------------------------------------------------------
(* Making a value.                                                         *)

\* new / from_words: no check at all.
New(t, v) ==
  /\ phase = "build" /\ ops < MaxOps
  /\ t # "SplitDepth"
  /\ reg' = [t |-> t, v |-> v]
  /\ ops' = ops + 1 /\ status' = "ok"
  /\ BuildUnchanged

\* TryFrom<inner> and FromStr (impl_ops!): new(inner), then is_valid, else
\* Overflow.  A string whose number does not fit the inner integer fails
\* the inner parse: InvalidString.
TryFrom(t, v) ==
  /\ phase = "build" /\ ops < MaxOps
  /\ t \in ArithTypes
  /\ IF v > 2^InnerWidth(t) - 1 THEN status' = "InvalidString" /\ UNCHANGED reg
     ELSE IF v <= (IF t \in VarUintTypes THEN MAX(t) ELSE 2^SmallBits[t] - 1)
     THEN reg' = [t |-> t, v |-> v] /\ status' = "ok"
     ELSE status' = "Overflow" /\ UNCHANGED reg
  /\ ops' = ops + 1
  /\ BuildUnchanged

\* SplitDepth::new (from a u8) and SplitDepth::from_bit_len (from a u16).
MakeSplitDepth(v, fromBitLen) ==
  LET d == IF fromBitLen THEN SplitDepthFromBitLen(v) ELSE NewSplitDepth(v)
  IN  /\ phase = "build" /\ ops < MaxOps
      /\ IF d = -1 THEN status' = "IntOverflow" /\ UNCHANGED reg
         ELSE reg' = [t |-> "SplitDepth", v |-> d] /\ status' = "ok"
      /\ ops' = ops + 1
      /\ BuildUnchanged

-----------------------------------------------------------------------------
(* Arithmetic on the held value (impl_ops!, checked_* of both macros).     *)

Raw(op, a, b) ==
  CASE op = "add" -> a + b
    [] op = "sub" -> a - b
    [] op = "mul" -> a * b
    [] op = "div" -> IF b = 0 THEN -1 ELSE a \div b

\* Mutant: the result is not reduced to the width of the inner integer.
ArithNoWrap(op, b) ==
  /\ phase = "build" /\ ops < MaxOps
  /\ reg.t \in ArithTypes
  /\ op = "div" => b # 0
  /\ reg' = [reg EXCEPT !.v = Raw(op, reg.v, b)]
  /\ ops' = ops + 1 /\ status' = "ok"
  /\ BuildUnchanged

\* Add, Sub, Mul, Div and their *Assign forms, for Self and for $inner.
Arith(op, b) ==
  /\ phase = "build" /\ ops < MaxOps
  /\ reg.t \in ArithTypes
  /\ op = "div" => b # 0
  /\ reg' = [reg EXCEPT !.v = Raw(op, reg.v, b) % 2^InnerWidth(reg.t)]
  /\ ops' = ops + 1 /\ status' = "ok"
  /\ BuildUnchanged

\* Shr, Shl and their *Assign forms: the shift amount is masked to the width.
Shift(left, b) ==
  LET w == InnerWidth(reg.t)
      k == b % w
  IN  /\ phase = "build" /\ ops < MaxOps
      /\ reg.t \in ArithTypes
      /\ reg' = [reg EXCEPT !.v = IF left THEN (reg.v * 2^k) % 2^w ELSE reg.v \div 2^k]
      /\ ops' = ops + 1 /\ status' = "ok"
      /\ BuildUnchanged

\* checked_add/sub/mul/div: None leaves the program without a value.
Checked(op, b) ==
  LET c == CheckedResult(reg.t, InnerChecked(Raw(op, reg.v, b), InnerWidth(reg.t)))
  IN  /\ phase = "build" /\ ops < MaxOps
      /\ reg.t \in ArithTypes
      /\ IF c = -1 THEN status' = "None" /\ UNCHANGED reg
         ELSE reg' = [reg EXCEPT !.v = c] /\ status' = "ok"
      /\ ops' = ops + 1
      /\ BuildUnchanged

-----------------------------------------------------------------------------
(* Storing and loading.                                                    *)

\* <T as Store>::store_into on the builder.
Store ==
  LET r == StoreValue([bits |-> builder, err |-> "ok"], reg)
  IN  /\ phase = "build" /\ reg # NoValue
      /\ Len(stored) < MaxStores
      /\ builder' = r.bits
      /\ status' = r.err
      /\ stored' = IF r.err = "ok"
                   THEN Append(stored, [t |-> reg.t, v |-> reg.v,
                                        len |-> Len(r.bits) - Len(builder)])
                   ELSE stored
      /\ UNCHANGED <<reg, ops, phase, slice, loaded>>

\* The cell is finished and a slice over its data is opened.
Finish ==
  /\ phase = "build"
  /\ phase' = "read"
  /\ slice' = [bits |-> builder, pos |-> 0, err |-> "ok", val |-> 0]
  /\ UNCHANGED <<reg, ops, builder, stored, loaded, status>>

\* <T as Load>::load_from of the next type of the schema; a reader stops
\* at its first error.
Load ==
  LET s == LoadValue(slice, stored[Len(loaded) + 1].t)
  IN  /\ phase = "read"
      /\ Len(loaded) < Len(stored)
      /\ slice.err = "ok"
      /\ slice' = s
      /\ loaded' = Append(loaded, [err |-> s.err, v |-> s.val])
      /\ status' = s.err
      /\ UNCHANGED <<reg, ops, builder, stored, phase>>

Next ==
  \/ \E t \in DOMAIN Inputs \ {"SplitDepth"} : \E v \in Inputs[t] : New(t, v)
  \/ \E t \in ArithTypes : \E v \in Inputs[t] : TryFrom(t, v)
  \/ \E v \in IF "SplitDepth" \in DOMAIN Inputs THEN Inputs["SplitDepth"] ELSE {} :
       \E fromBitLen \in BOOLEAN : MakeSplitDepth(v, fromBitLen)
  \/ \E op \in {"add", "sub", "mul", "div"}, b \in Rhs : Arith(op, b) \/ Checked(op, b)
  \/ \E left \in BOOLEAN, b \in Rhs : Shift(left, b)
  \/ Store
  \/ Finish
  \/ Load

Spec == Init /\ [][Next]_vars

-----------------------------------------------------------------------------
(* Properties.                                                             *)

\* The values of the inner integer of each type.
InnerValues(t) ==
  CASE t = "VarUint248" -> (0..(2^U128Bits - 1)) \X (0..(2^U128Bits - 1))
    [] t = "SplitDepth" -> 1..254
    [] OTHER            -> 0..(2^InnerWidth(t) - 1)

IsValue(x) == x.t \in AllTypes /\ x.v \in InnerValues(x.t)

\* Every variable holds a value of its kind.
TypeOK ==
  /\ reg = NoValue \/ IsValue(reg)
  /\ \A i \in 1..Len(stored) : IsValue(stored[i])
  /\ ops \in 0..MaxOps
  /\ builder \in Seq({0, 1}) /\ Len(builder) <= Cap
  /\ Len(stored) <= MaxStores
  /\ phase \in {"build", "read"}
  /\ slice.pos \in 0..Len(slice.bits)
  /\ Len(loaded) <= Len(stored)

\* A SplitDepth is written by store_small_uint(_, 5), which keeps the low 5
\* bits: only a depth below 2^5 has an encoding.  new and from_bit_len
\* accept depths up to 254 (the finding of num_split_depth_range); every
\* other type refuses a value its width cannot hold.
FitsEncoding(x) == x.t = "SplitDepth" => x.v < 2^5

\* Reading the cell back with the schema it was written with gives every
\* stored value that has an encoding back, without error: the length prefix each store_into
\* writes (4 - leading_zeros / 8 bytes, the 16-byte and 8-byte splits of
\* VarUint248 and store_u128) is the one load_from reads, at every byte
\* boundary, so no field shifts the ones after it.
RoundTrip ==
  \A i \in 1..Len(loaded) :
    FitsEncoding(stored[i]) => loaded[i] = [err |-> "ok", v |-> stored[i].v]

\* A successful store_into appends exactly exact_size().bits bits: the
\* size that callers reserve before storing (bit_len of the var-uint macro,
\* of VarUint248, BITS of the fixed types) agrees with what the store writes.
StoreExactSize ==
  \A i \in 1..Len(stored) : stored[i].len = ExactSizeBits(stored[i])

\* A store_into that returns an error leaves the builder as it was: every
\* handler checks the capacity for all it writes before its first write, so
\* no failure can leave half a value behind.
StoreAllOrNothing ==
  [][builder' # builder => Len(stored') = Len(stored) + 1]_vars

\* SplitDepth is documented as a 5-bit integer in 1..=30: every SplitDepth
\* the program holds, made or loaded, is in that range.
SplitDepthInRange ==
  /\ reg.t = "SplitDepth" => reg.v \in 1..30
  /\ \A i \in 1..Len(loaded) :
       stored[i].t = "SplitDepth" /\ loaded[i].err = "ok" => loaded[i].v \in 1..30

\* VarUint248::MIN is documented as the smallest value: no VarUint248 the
\* program holds is less than it under VarUint248's Ord.
MinIsSmallest == reg.t = "VarUint248" => ~Less248(reg.v, MIN248)

=============================================================================
