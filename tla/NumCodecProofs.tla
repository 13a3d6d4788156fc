---------------------------- MODULE NumCodecProofs ----------------------------
(***************************************************************************)
(* Proofs about the program of NumCodec, for every width of a byte, every  *)
(* capacity and every set of inputs: every store_into appends exactly its  *)
(* exact size, and a store_into that fails appends nothing.                *)
(***************************************************************************)
EXTENDS NumCodec, NumProofs

-----------------------------------------------------------------------------
(* The inductive invariant.                                                *)

\* An entry of stored: the value stored and the bits its store appended.
Entry == [t : AllTypes, v : Int \cup (Int \X Int), len : Int]

\* stored is a sequence of entries.
StoredOK == stored \in Seq(Entry)

\* StoreExactSize with what its preservation needs: the builder is a bit
\* sequence, every entry is one, and the value held is a value (or none),
\* so that the next store_into computes the size of a value.
IInv ==
  /\ builder \in Seq({0, 1})
  /\ StoredOK
  /\ reg = NoValue \/ ValueOK(reg)
  /\ StoreExactSize

\* ExactSizeBits reads only the type and the inner value.
LEMMA ExactSizeBitsTV ==
  ASSUME NEW x, NEW y, x.t = y.t, x.v = y.v
  PROVE  ExactSizeBits(x) = ExactSizeBits(y)
  BY Zenon DEF ExactSizeBits

LEMMA IntOps ==
  ASSUME NEW a \in Int, NEW c \in Int
  PROVE  /\ a * c \in Int
         /\ c > 0 => a \div c \in Int
  OBVIOUS

\* The release outcome of an operator on integers is an integer.
LEMMA RawInt ==
  ASSUME NEW op \in {"add", "sub", "mul", "div"}, NEW a \in Int, NEW c \in Nat
  PROVE  Raw(op, a, c) \in Int
  <1>1. CASE op = "add"
    BY <1>1 DEF Raw
  <1>2. CASE op = "sub"
    BY <1>2 DEF Raw
  <1>0. c \in Int /\ -1 \in Int
    OBVIOUS
  <1>3. CASE op = "mul"
    <2>1. a * c \in Int
      BY <1>0, IntOps, Zenon
    <2>2. QED
      BY <1>3, <2>1, Zenon DEF Raw
  <1>4. CASE op = "div"
    <2>1. c # 0 => a \div c \in Int
      <3>1. c \in Int /\ (c # 0 => c > 0)
        OBVIOUS
      <3>2. QED
        BY <3>1, IntOps, Zenon
    <2>2. QED
      BY <1>0, <1>4, <2>1, Zenon DEF Raw
  <1>5. QED
    BY <1>1, <1>2, <1>3, <1>4

\* The inner integer of a type with arithmetic has a positive width.
LEMMA InnerWidthPos ==
  ASSUME NEW t \in ArithTypes
  PROVE  InnerWidth(t) \in Nat \ {0}
  <1>1. CASE t \in VarUintTypes
    <2>1. InnerBytes[t] \in {4, 8, 16}
      BY <1>1 DEF InnerBytes, VarUintTypes
    <2>2. QED
      BY <1>1, <2>1, NumAssumption DEF InnerWidth
  <1>2. CASE t \notin VarUintTypes
    BY <1>2 DEF InnerWidth
  <1>3. QED
    BY <1>1, <1>2

\* An operator that changes the inner integer of a value to an integer
\* keeps it a value.
LEMMA SetV ==
  ASSUME NEW x, ValueOK(x), x.t # "VarUint248", NEW n \in Int
  PROVE  ValueOK([x EXCEPT !.v = n])
  <1>1. x = [t |-> x.t, v |-> x.v] /\ x.t \in AllTypes
    BY ValueOKParts
  <1>2. [x EXCEPT !.v = n] = [t |-> x.t, v |-> n]
    BY <1>1
  <1>3. QED
    BY <1>1, <1>2 DEF ValueOK, InnerOf

\* A value held by the program of a type with arithmetic is a value with
\* an integer inside.
LEMMA ArithReg ==
  ASSUME IInv, reg.t \in ArithTypes
  PROVE  ValueOK(reg) /\ reg.t # "VarUint248" /\ reg.v \in Int
  <1>1. reg # NoValue
    BY DEF NoValue, ArithTypes, VarUintTypes, SmallUintTypes
  <1>2. ValueOK(reg)
    BY <1>1 DEF IInv
  <1>3. reg.t # "VarUint248"
    BY DEF ArithTypes, VarUintTypes, SmallUintTypes
  <1>4. QED
    BY <1>2, <1>3, ValueOKParts

\* What every step must keep: the invariant, and StoreAllOrNothing's step.
AllOrNothingStep == builder' # builder => Len(stored') = Len(stored) + 1

\* A step that changes at most the value held, to a value or to none.
LEMMA RegOnlyStep ==
  ASSUME IInv, builder' = builder, stored' = stored, reg' = NoValue \/ ValueOK(reg')
  PROVE  IInv' /\ AllOrNothingStep
  BY DEF IInv, StoredOK, StoreExactSize, AllOrNothingStep

\* A value made from the inputs is a value.
LEMMA InputValue ==
  ASSUME NEW t \in DOMAIN Inputs, NEW v \in Inputs[t]
  PROVE  ValueOK([t |-> t, v |-> v])
  <1>1. t \in AllTypes
    BY NumCodecAssumption
  <1>2. v \in InnerOf(t)
    <2>1. CASE t = "VarUint248"
      <3>1. v \in Nat \X Nat
        BY <2>1, NumCodecAssumption
      <3>2. QED
        BY <2>1, <3>1 DEF InnerOf
    <2>2. CASE t # "VarUint248"
      <3>1. v \in Nat
        BY <2>2, NumCodecAssumption
      <3>2. QED
        BY <2>2, <3>1 DEF InnerOf
    <2>3. QED
      BY <2>1, <2>2
  <1>3. QED
    BY <1>1, <1>2 DEF ValueOK

LEMMA NewStep ==
  ASSUME IInv, NEW t \in DOMAIN Inputs \ {"SplitDepth"}, NEW v \in Inputs[t], New(t, v)
  PROVE  IInv' /\ AllOrNothingStep
  BY InputValue, RegOnlyStep DEF New, BuildUnchanged

LEMMA TryFromStep ==
  ASSUME IInv, NEW t \in ArithTypes, NEW v \in Inputs[t], TryFrom(t, v)
  PROVE  IInv' /\ AllOrNothingStep
  <1>1. t \in DOMAIN Inputs
    BY DEF ArithTypes
  <1>2. reg' = reg \/ reg' = [t |-> t, v |-> v]
    BY Zenon DEF TryFrom
  <1>3. reg' = NoValue \/ ValueOK(reg')
    BY <1>1, <1>2, InputValue DEF IInv
  <1>4. QED
    BY <1>3, RegOnlyStep DEF TryFrom, BuildUnchanged

LEMMA MakeSplitDepthStep ==
  ASSUME IInv, NEW v \in IF "SplitDepth" \in DOMAIN Inputs THEN Inputs["SplitDepth"] ELSE {},
         NEW fromBitLen \in BOOLEAN, MakeSplitDepth(v, fromBitLen)
  PROVE  IInv' /\ AllOrNothingStep
  <1>1. v \in Nat
    BY NumCodecAssumption
  <1>2. (IF fromBitLen THEN SplitDepthFromBitLen(v) ELSE NewSplitDepth(v)) \in Int
    BY <1>1 DEF SplitDepthFromBitLen, NewSplitDepth
  <1>3. reg' = reg
        \/ reg' = [t |-> "SplitDepth",
                   v |-> IF fromBitLen THEN SplitDepthFromBitLen(v) ELSE NewSplitDepth(v)]
    BY Zenon DEF MakeSplitDepth
  <1>4. ValueOK([t |-> "SplitDepth",
                 v |-> IF fromBitLen THEN SplitDepthFromBitLen(v) ELSE NewSplitDepth(v)])
    BY <1>2 DEF ValueOK, InnerOf, AllTypes
  <1>5. QED
    BY <1>3, <1>4, RegOnlyStep DEF IInv, MakeSplitDepth, BuildUnchanged

LEMMA ModDivInt ==
  ASSUME NEW a \in Int, NEW c \in Nat \ {0}
  PROVE  a % c \in Nat /\ a \div c \in Int
  OBVIOUS

LEMMA ArithStep ==
  ASSUME IInv, NEW op \in {"add", "sub", "mul", "div"}, NEW b \in Rhs, Arith(op, b)
  PROVE  IInv' /\ AllOrNothingStep
  <1>1. reg.t \in ArithTypes
    BY DEF Arith
  <1>2. ValueOK(reg) /\ reg.t # "VarUint248" /\ reg.v \in Int
    BY <1>1, ArithReg
  <1>3. 2^InnerWidth(reg.t) \in Nat \ {0}
    BY <1>1, InnerWidthPos, PowPos
  <1>4. Raw(op, reg.v, b) \in Int
    BY <1>2, RawInt, NumCodecAssumption
  <1>5. Raw(op, reg.v, b) % 2^InnerWidth(reg.t) \in Int
    BY <1>3, <1>4, ModDivInt
  <1>6. ValueOK(reg')
    BY <1>2, <1>5, SetV DEF Arith
  <1>7. QED
    BY <1>6, RegOnlyStep DEF Arith, BuildUnchanged

LEMMA ShiftStep ==
  ASSUME IInv, NEW left \in BOOLEAN, NEW b \in Rhs, Shift(left, b)
  PROVE  IInv' /\ AllOrNothingStep
  <1>1. reg.t \in ArithTypes
    BY DEF Shift
  <1>2. ValueOK(reg) /\ reg.t # "VarUint248" /\ reg.v \in Int
    BY <1>1, ArithReg
  <1>3. InnerWidth(reg.t) \in Nat \ {0} /\ 2^InnerWidth(reg.t) \in Nat \ {0}
    BY <1>1, InnerWidthPos, PowPos
  <1>4. b % InnerWidth(reg.t) \in Nat
    BY <1>3, ModDivInt, NumCodecAssumption
  <1>5. 2^(b % InnerWidth(reg.t)) \in Nat \ {0}
    BY <1>4, PowPos
  <1>6. reg.v * 2^(b % InnerWidth(reg.t)) \in Int
    BY <1>2, <1>5, IntOps
  <1>7. (IF left THEN (reg.v * 2^(b % InnerWidth(reg.t))) % 2^InnerWidth(reg.t)
         ELSE reg.v \div 2^(b % InnerWidth(reg.t))) \in Int
    BY <1>2, <1>3, <1>5, <1>6, ModDivInt
  <1>8. ValueOK(reg')
    BY <1>2, <1>7, SetV DEF Shift
  <1>9. QED
    BY <1>8, RegOnlyStep DEF Shift, BuildUnchanged

LEMMA CheckedStep ==
  ASSUME IInv, NEW op \in {"add", "sub", "mul", "div"}, NEW b \in Rhs, Checked(op, b)
  PROVE  IInv' /\ AllOrNothingStep
  <1>1. reg.t \in ArithTypes
    BY DEF Checked
  <1>2. ValueOK(reg) /\ reg.t # "VarUint248" /\ reg.v \in Int
    BY <1>1, ArithReg
  <1>3. Raw(op, reg.v, b) \in Int
    BY <1>2, RawInt, NumCodecAssumption
  <1>4. InnerChecked(Raw(op, reg.v, b), InnerWidth(reg.t)) \in Int
    BY <1>3 DEF InnerChecked
  <1>5. CheckedResult(reg.t, InnerChecked(Raw(op, reg.v, b), InnerWidth(reg.t))) \in Int
    BY <1>4 DEF CheckedResult
  <1>6. reg' = reg \/ ValueOK(reg')
    BY <1>2, <1>5, SetV DEF Checked
  <1>7. QED
    BY <1>2, <1>6, RegOnlyStep DEF Checked, BuildUnchanged, IInv

\* What store_into gives on the builder, and the entry Store records.
StoreResult == StoreValue([bits |-> builder, err |-> "ok"], reg)
NewEntry == [t |-> reg.t, v |-> reg.v, len |-> Len(StoreResult.bits) - Len(builder)]

\* Store appends an entry whose len is its exact size, or appends nothing
\* and leaves the builder as it was.
LEMMA StoreStep ==
  ASSUME IInv, Store
  PROVE  IInv' /\ AllOrNothingStep
  <1>1. /\ reg # NoValue
        /\ builder' = StoreResult.bits
        /\ stored' = IF StoreResult.err = "ok" THEN Append(stored, NewEntry) ELSE stored
        /\ reg' = reg
    BY Zenon DEF Store, StoreResult, NewEntry
  <1>2. /\ ValueOK(reg)
        /\ builder \in Seq({0, 1})
        /\ stored \in Seq(Entry)
        /\ StoreExactSize
    BY <1>1 DEF IInv, StoredOK
  <1>3. AllOrExactly(StoreResult, builder, ExactSizeBits(reg)) /\ ExactSizeBits(reg) \in Nat
    BY <1>2, StoreValueExact DEF StoreResult
  <1>4. builder' \in Seq({0, 1})
    BY <1>1, <1>3 DEF AllOrExactly, Builder
  <1>5. CASE StoreResult.err = "ok"
    <2>1. Len(StoreResult.bits) = Len(builder) + ExactSizeBits(reg)
      BY <1>3, <1>5 DEF AllOrExactly
    <2>2. NewEntry.len = ExactSizeBits(reg)
      <3>1. Len(builder) \in Nat
        BY <1>2, LenProperties
      <3>2. QED
        BY <1>3, <2>1, <3>1, Diff DEF NewEntry
    <2>3. ExactSizeBits(NewEntry) = ExactSizeBits(reg)
      BY ExactSizeBitsTV DEF NewEntry
    <2>4. NewEntry \in Entry
      <3>1. reg.t \in AllTypes /\ reg.v \in Int \cup (Int \X Int)
        BY <1>2, ValueOKParts
      <3>2. QED
        BY <1>3, <2>2, <3>1 DEF NewEntry, Entry
    <2>5. stored' = Append(stored, NewEntry)
      BY <1>1, <1>5
    <2>6. /\ stored' \in Seq(Entry)
          /\ Len(stored') = Len(stored) + 1
          /\ \A i \in 1..Len(stored) : stored'[i] = stored[i]
          /\ stored'[Len(stored) + 1] = NewEntry
      BY <1>2, <2>4, <2>5, AppendProperties
    <2>7. StoreExactSize'
      <3> SUFFICES ASSUME NEW i \in 1..Len(stored')
                   PROVE  stored'[i].len = ExactSizeBits(stored'[i])
        BY DEF StoreExactSize
      <3>0. Len(stored) \in Nat
        BY <1>2, LenProperties
      <3>1. CASE i \in 1..Len(stored)
        BY <1>2, <2>6, <3>1 DEF StoreExactSize
      <3>2. CASE i = Len(stored) + 1
        BY <2>2, <2>3, <2>6, <3>2
      <3>3. QED
        BY <2>6, <3>0, <3>1, <3>2
    <2>8. QED
      BY <1>1, <1>2, <1>4, <2>6, <2>7 DEF IInv, StoredOK, AllOrNothingStep
  <1>6. CASE StoreResult.err # "ok"
    <2>1. builder' = builder /\ stored' = stored
      BY <1>1, <1>3, <1>6 DEF AllOrExactly
    <2>2. QED
      BY <1>1, <1>2, <2>1, RegOnlyStep
  <1>7. QED
    BY <1>5, <1>6

LEMMA IInvInit ==
  ASSUME Init
  PROVE  IInv
  <1>1. <<>> \in Seq(Entry) /\ <<>> \in Seq({0, 1}) /\ Len(<<>>) = 0
    OBVIOUS
  <1>2. QED
    BY <1>1 DEF Init, IInv, StoredOK, StoreExactSize

\* Every step keeps the inductive invariant and StoreAllOrNothing's step.
LEMMA IInvNext ==
  ASSUME IInv, [Next]_vars
  PROVE  IInv' /\ AllOrNothingStep
  <1>1. CASE \E t \in DOMAIN Inputs \ {"SplitDepth"} : \E v \in Inputs[t] : New(t, v)
    BY <1>1, NewStep
  <1>2. CASE \E t \in ArithTypes : \E v \in Inputs[t] : TryFrom(t, v)
    BY <1>2, TryFromStep
  <1>3. CASE \E v \in IF "SplitDepth" \in DOMAIN Inputs THEN Inputs["SplitDepth"] ELSE {} :
               \E fromBitLen \in BOOLEAN : MakeSplitDepth(v, fromBitLen)
    BY <1>3, MakeSplitDepthStep
  <1>4. CASE \E op \in {"add", "sub", "mul", "div"}, b \in Rhs : Arith(op, b) \/ Checked(op, b)
    BY <1>4, ArithStep, CheckedStep
  <1>5. CASE \E left \in BOOLEAN, b \in Rhs : Shift(left, b)
    BY <1>5, ShiftStep
  <1>6. CASE Store
    BY <1>6, StoreStep
  <1>7. CASE Finish
    BY <1>7, RegOnlyStep DEF Finish, IInv
  <1>8. CASE Load
    BY <1>8, RegOnlyStep DEF Load, IInv
  <1>9. CASE UNCHANGED vars
    BY <1>9, RegOnlyStep DEF vars, IInv
  <1>10. QED
    BY <1>1, <1>2, <1>3, <1>4, <1>5, <1>6, <1>7, <1>8, <1>9 DEF Next

\* StoreExactSize: in every behaviour, every value the builder took holds
\* exactly exact_size().bits bits, for every width of a byte, every
\* capacity and every set of inputs.
THEOREM StoreExactSizeHolds == Spec => []StoreExactSize
  <1>1. Init => IInv
    BY IInvInit
  <1>2. IInv /\ [Next]_vars => IInv'
    BY IInvNext
  <1>3. IInv => StoreExactSize
    BY DEF IInv
  <1>4. QED
    BY <1>1, <1>2, <1>3, PTL DEF Spec

\* StoreAllOrNothing: no store_into that fails changes the builder, for
\* every width of a byte and every capacity.
THEOREM StoreAllOrNothingHolds == Spec => StoreAllOrNothing
  <1>1. Init => IInv
    BY IInvInit
  <1>2. IInv /\ [Next]_vars => IInv' /\ [AllOrNothingStep]_vars
    BY IInvNext
  <1>3. QED
    BY <1>1, <1>2, PTL DEF Spec, StoreAllOrNothing, AllOrNothingStep

=============================================================================
