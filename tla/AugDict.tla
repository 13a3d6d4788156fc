------------------------------- MODULE AugDict --------------------------------
(***************************************************************************)
(* AugDict::load_from_root of src/dict/aug.rs: the root node of an         *)
(* augmented dictionary is read in place from a slice (its label, then     *)
(* the two child references and the extra of a fork, or the extra and the  *)
(* value of a leaf), and the bits and references it took become the root   *)
(* cell.  The extra A and the value V are Tokens, the only type with the   *)
(* AugDictSkipValue the code defines, so the node is written with Num's    *)
(* StoreVarUint.                                                           *)
(*                                                                         *)
(*   ahm_edge label:(HmLabel ~l n) node:(HashmapAugNode m V A)             *)
(*   ahmn_leaf extra:A value:V;   ahmn_fork left:^ right:^ extra:A         *)
(*   hml_short$0 len:(Unary ~n) s:(n * Bit)                                *)
(*   hml_long$10 n:(#<= m) s:(n * Bit)                                     *)
(*   hml_same$11 v:Bit n:(#<= m)                                           *)
(*                                                                         *)
(* read_label and the writer of a node are not under src/: they are        *)
(* modelled from the TL-B scheme above.                                    *)
(***************************************************************************)
EXTENDS Refs

CONSTANTS
  KeyBits,    \* K::BITS, the key length of the dictionary
  Extras,     \* the Tokens values written as the extra
  Values,     \* the Tokens values written as a leaf's value
  Trailers    \* what follows the node in the slice: [bits, refs]

ASSUME AugDictAssumption ==
  /\ KeyBits \in Nat
  /\ Extras \subseteq Nat /\ Values \subseteq Nat

\* #<= m: the bits of a label length, 16 - leading_zeros of the key length.
LenBits(m) == 16 - LeadingZeros(m, 16)

-----------------------------------------------------------------------------
(* HmLabel, from the TL-B scheme (not under src/).                         *)

\* The three encodings of a label s of a key of m bits; "same" only when
\* every bit of s is v.
LabelBits(kind, s, m) ==
  CASE kind = "short" -> <<0>> \o [i \in 1..Len(s) |-> 1] \o <<0>> \o s
    [] kind = "long"  -> <<1, 0>> \o Bits(Len(s), LenBits(m)) \o s
    [] kind = "same"  -> <<1, 1, IF s = <<>> THEN 0 ELSE s[1]>> \o Bits(Len(s), LenBits(m))

CanEncode(kind, s) == kind = "same" => \A i, j \in DOMAIN s : s[i] = s[j]

\* The number of ones before the first zero after position p.
Unary(s, p) == CHOOSE k \in 0..(Len(s.bits) - p - 1) :
                 /\ \A i \in 1..k : s.bits[p + i] = 1
                 /\ s.bits[p + k + 1] = 0

HasUnary(s, p) == \E k \in 0..(Len(s.bits) - p - 1) : s.bits[p + k + 1] = 0

\* read_label: the label's bits in val.
ReadLabel(s, m) ==
  LET t1 == LoadUint(s, 1)
      t2 == LoadUint(t1, 1)
      n  == Unary(t1, t1.pos)
      short == LoadBits([t1 EXCEPT !.pos = @ + n + 1], n)
      long1 == LoadUint(t2, LenBits(m))
      same1 == LoadUint(t2, 1)
      same2 == LoadUint(same1, LenBits(m))
  IN  CASE LenBits(m) = 0 /\ s.pos = Len(s.bits) -> [s EXCEPT !.val = <<>>]
        [] t1.err # "ok" -> t1
        [] t1.val = 0 -> IF HasUnary(t1, t1.pos) THEN short ELSE Fail(t1, "CellUnderflow")
        [] t2.err # "ok" -> t2
        [] t2.val = 0 -> IF long1.err # "ok" THEN long1 ELSE LoadBits(long1, long1.val)
        [] OTHER -> [same2 EXCEPT !.val = [i \in 1..same2.val |-> same1.val]]

-----------------------------------------------------------------------------
(* The code.                                                               *)

\* Mutant: skip_value advances by the byte count, not by 8 bits per byte.
SkipValueBytes(s) ==
  LET s1 == LoadUint(s, 4)
  IN  IF s1.err = "ok" /\ TryAdvance(s1, s1.val, 0)
      THEN Advance(s1, s1.val, 0) ELSE Fail(s, "CellUnderflow")

\* AugDictSkipValue for Tokens: load_small_uint(4), then try_advance over
\* the bytes; false is CellUnderflow.
SkipValue(s) ==
  LET s1 == LoadUint(s, 4)
  IN  IF s1.err = "ok" /\ TryAdvance(s1, ByteBits * s1.val, 0)
      THEN Advance(s1, ByteBits * s1.val, 0) ELSE Fail(s, "CellUnderflow")

\* load_from_root: [err, extra, root, rest], root the cell of the prefix
\* of the slice that the node took, rest the slice after it.
LoadFromRoot(s, m) ==
  LET s1 == ReadLabel(s, m)
      fork == Len(s1.val) # m
      s2 == IF fork THEN LoadVarUint(Advance(s1, 0, 2), "Tokens")
            ELSE LoadVarUint(s1, "Tokens")
      s3 == IF fork THEN s2 ELSE SkipValue(s2)
  IN  CASE s1.err # "ok" -> [err |-> s1.err]
        [] fork /\ ~TryAdvance(s1, 0, 2) -> [err |-> "CellUnderflow"]
        [] s2.err # "ok" -> [err |-> s2.err]
        [] s3.err # "ok" -> [err |-> s3.err]
        [] OTHER ->
             [err |-> "ok", extra |-> s2.val,
              root |-> [bits |-> SubSeq(s.bits, s.pos + 1, s3.pos),
                        refs |-> SubSeq(s.refs, s.rpos + 1, s3.rpos)],
              rest |-> [bits |-> SubSeq(s3.bits, s3.pos + 1, Len(s3.bits)),
                        refs |-> SubSeq(s3.refs, s3.rpos + 1, Len(s3.refs))]]

\* Store for AugDict: the dictionary (Dict::store_into, not under src/: a
\* Maybe bit and the root as a reference), then the extra.  The root is an
\* Option<Cell>: <<>> or <<c>>.
StoreAugDict(r, d) ==
  LET r1 == IF d.root = <<>> THEN StoreUint(r, 0, 1)
            ELSE StoreRef(StoreUint(r, 1, 1), d.root[1])
  IN  StoreVarUint(r1, "Tokens", d.extra)

\* Mutant: the extra is read before the dictionary.
LoadAugDictSwapped(s) ==
  LET s0 == LoadVarUint(s, "Tokens")
      s1 == LoadUint(s0, 1)
      s2 == IF s1.err = "ok" /\ s1.val = 1 THEN LoadRef(s1) ELSE s1
  IN  IF s2.err # "ok" THEN s2
      ELSE [s2 EXCEPT !.val = [root |-> IF s1.val = 1 THEN <<s2.val>> ELSE <<>>,
                               extra |-> s0.val]]

\* Load for AugDict: Dict::load_from (the Maybe bit and the reference),
\* then the extra; val is [root, extra].
LoadAugDict(s) ==
  LET s1 == LoadUint(s, 1)
      s2 == IF s1.err = "ok" /\ s1.val = 1 THEN LoadRef(s1) ELSE s1
      s3 == LoadVarUint(s2, "Tokens")
  IN  IF s3.err # "ok" THEN s3
      ELSE [s3 EXCEPT !.val = [root |-> IF s1.val = 1 THEN <<s2.val>> ELSE <<>>,
                               extra |-> s3.val]]

-----------------------------------------------------------------------------
(* A program: some schema writes a dictionary root in place, followed by   *)
(* other fields, and AugDict::load_from_root reads it back.                *)

VARIABLES
  written,   \* the node written: label, kind, extra, value, and its cell
  result,    \* what load_from_root returned
  cell,      \* the cell the AugDict was then stored into
  reloaded   \* what AugDict::load_from of that cell returned

vars == <<written, result, cell, reloaded>>

NoNode == [none |-> TRUE]

Init ==
  /\ written = NoNode
  /\ result = [err |-> "none"]
  /\ cell = NoNode
  /\ reloaded = [err |-> "none"]

\* The node: a label of the key prefix p, then a fork (two references and
\* the extra) when p is shorter than the key, or a leaf (the extra and the
\* value) when p is the whole key; then the trailer.
NodeCell(kind, p, extra, value) ==
  LET r0 == StoreBits([bits |-> <<>>, refs |-> <<>>, err |-> "ok"], LabelBits(kind, p, KeyBits))
      r1 == IF Len(p) < KeyBits
            THEN StoreVarUint(StoreRef(StoreRef(r0, "left"), "right"), "Tokens", extra)
            ELSE StoreVarUint(StoreVarUint(r0, "Tokens", extra), "Tokens", value)
  IN  r1

\* A schema's store_into writes the root node of a dictionary whose keys
\* start with p, with the label encoding kind, then its trailer.
Write(kind, p) ==
  /\ written = NoNode
  /\ CanEncode(kind, p)
  /\ \E extra \in Extras, value \in Values, t \in Trailers :
       LET node == NodeCell(kind, p, extra, value)
       IN  /\ node.err = "ok"
           /\ written' = [kind |-> kind, prefix |-> p, extra |-> extra,
                          node |-> [bits |-> node.bits, refs |-> node.refs], trailer |-> t]
  /\ UNCHANGED <<result, cell, reloaded>>

\* AugDict::load_from_root on a slice over the node and its trailer.
Read ==
  /\ written # NoNode /\ result.err = "none"
  /\ result' = LoadFromRoot(SliceOf([bits |-> written.node.bits \o written.trailer.bits,
                                     refs |-> written.node.refs \o written.trailer.refs]),
                            KeyBits)
  /\ UNCHANGED <<written, cell, reloaded>>

\* The AugDict made by load_from_root (dict Some(root), its extra) is
\* stored into a fresh builder with its Store impl.
StoreDict ==
  LET r == StoreAugDict([bits |-> <<>>, refs |-> <<>>, err |-> "ok"],
                        [root |-> <<result.root>>, extra |-> result.extra])
  IN  /\ result.err = "ok" /\ cell = NoNode
      /\ r.err = "ok"
      /\ cell' = [bits |-> r.bits, refs |-> r.refs]
      /\ UNCHANGED <<written, result, reloaded>>

\* AugDict::load_from of that cell.
LoadDict ==
  LET s == LoadAugDict(SliceOf(cell))
  IN  /\ cell # NoNode /\ reloaded.err = "none"
      /\ reloaded' = [err |-> s.err, val |-> s.val]
      /\ UNCHANGED <<written, result, cell>>

Prefixes == UNION {[1..l -> {0, 1}] : l \in 0..KeyBits}

Next ==
  \/ \E kind \in {"short", "long", "same"}, p \in Prefixes : Write(kind, p)
  \/ Read
  \/ StoreDict
  \/ LoadDict

Spec == Init /\ [][Next]_vars

-----------------------------------------------------------------------------
(* Properties.                                                             *)

\* load_from_root reads back the node that was written, whatever label
\* encoding was chosen and whatever follows: the extra is the one written,
\* the root cell is exactly the node's bits and references (the two child
\* references of a fork, none of the trailer's), and the slice is left at
\* the first bit and reference after the node.
RootNodeExact ==
  result.err # "none" =>
    result = [err |-> "ok", extra |-> written.extra, root |-> written.node,
              rest |-> written.trailer]

\* The AugDict that load_from_root built survives its own Store and Load:
\* the root is the reference behind the Maybe bit of the HashmapAugE and the
\* extra the Tokens after it, so the cell gives back the same root and the
\* same extra.
AugDictRoundTrip ==
  reloaded.err # "none" =>
    /\ reloaded.err = "ok"
    /\ reloaded.val = [root |-> <<result.root>>, extra |-> result.extra]

=============================================================================
