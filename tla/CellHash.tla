------------------------------ MODULE CellHash ------------------------------
(***************************************************************************)
(* The cell content model of everscale-types: level masks, the exotic-cell *)
(* validation and the per-level hash/depth computation of                  *)
(* CellParts::compute_hashes (src/src/cell/cell_context.rs), and the       *)
(* hash(level)/depth(level) accessors through which a parent reads its     *)
(* children.                                                               *)
(*                                                                         *)
(* Data abstraction.  A level mask (3 bits in the code) is the set of the  *)
(* levels 1..3 whose bit is set.  SHA-256 is an injective digest: the      *)
(* digest of an input is the input tagged "sha256", so two digests are     *)
(* equal exactly when the hashed byte strings are.  The data bytes of a    *)
(* cell are a record: the first byte (the exotic type tag), the second     *)
(* byte (the stored mask of a pruned branch) and the rest as a sequence of *)
(* abstract fields (stored hashes and depths, or an opaque token).         *)
(* Depths keep their width: they are DepthBits-bit unsigned integers.      *)
(***************************************************************************)
EXTENDS Naturals, Sequences

CONSTANTS
  DepthBits,   \* width of a depth: u16 in the code, smaller for TLC
  NoByte       \* the first byte of an exotic cell with no data bytes

ASSUME DepthBitsAssumption == DepthBits \in Nat \ {0}

\* NoByte stands for the missing first byte, so it is no byte value.
ASSUME NoByteAssumption == NoByte \notin Nat

\* 2^DepthBits is a positive natural number: a fact of arithmetic the
\* provers do not derive from the definition of ^, checked here by TLC.
ASSUME PowerAssumption == 2^DepthBits \in Nat \ {0, 1}

\* The code's u16 depth saturates here: checked_add fails above it.
MaxDepth == 2^DepthBits - 1

\* MAX_REF_COUNT
MaxRefCount == 4

HashBits == 256
DepthBitsInData == 16

Levels == 1..3
LevelMasks == SUBSET Levels
AllLevels == 0..3

CellTypes == {"Ordinary", "PrunedBranch", "LibraryReference",
              "MerkleProof", "MerkleUpdate"}

-----------------------------------------------------------------------------
(* LevelMask operations.                                                   *)

\* LevelMask::level: the highest set bit plus one (spec section 3).
MaskLevel(m) == IF 3 \in m THEN 3 ELSE IF 2 \in m THEN 2
                ELSE IF 1 \in m THEN 1 ELSE 0

\* LevelMask::from_level: the mask of all levels up to l.
FromLevel(l) == 1..l

\* LevelMask::virtualize(1): the mask shifted right by one bit.
Virtualize(m) == {l - 1 : l \in m \ {1}}

\* LevelMask::hash_index: the number of set bits of m among levels 1..l,
\* i.e. the position of hash(l) in a cell's vector of hashes.
HashIndex(m, l) == (IF 1 \in m /\ 1 <= l THEN 1 ELSE 0)
                 + (IF 2 \in m /\ 2 <= l THEN 1 ELSE 0)
                 + (IF 3 \in m /\ 3 <= l THEN 1 ELSE 0)

-----------------------------------------------------------------------------
(* Exotic type tags.                                                       *)

\* CellType::from_byte_exotic
FromByteExotic(b) == CASE b = 1 -> "PrunedBranch"
                       [] b = 2 -> "LibraryReference"
                       [] b = 3 -> "MerkleProof"
                       [] b = 4 -> "MerkleUpdate"
                       [] OTHER -> "None"

IsMerkle(t) == t \in {"MerkleProof", "MerkleUpdate"}

\* The descriptor byte d2: floor(bits/8) + ceil(bits/8).
D2(bitLen) == bitLen \div 8 + (bitLen + 7) \div 8

\* SHA-256, abstracted as an injective digest.
Sha256(input) == <<"sha256", input>>

-----------------------------------------------------------------------------
(* Accessors of a finalized cell c (a record with fields type, mask,       *)
(* data, refs, hashes), as a parent reads them.  A cell keeps one          *)
(* (hash, depth) pair per significant level, in level order; hash(l) is    *)
(* the entry at HashIndex(mask, l).  A pruned branch of level L keeps one  *)
(* pair of its own and answers the levels with index below L from the      *)
(* hashes and depths stored in its data (L hashes, then L depths).         *)

StoredIndex(c, l) ==
  c.type = "PrunedBranch" /\ HashIndex(c.mask, l) < MaskLevel(c.mask)

CellHashAt(c, l) ==
  IF StoredIndex(c, l)
    THEN c.data.body[HashIndex(c.mask, l) + 1]
    ELSE c.hashes[IF c.type = "PrunedBranch" THEN 1
                  ELSE HashIndex(c.mask, l) + 1][1]

CellDepthAt(c, l) ==
  IF StoredIndex(c, l)
    THEN c.data.body[MaskLevel(c.mask) + HashIndex(c.mask, l) + 1]
    ELSE c.hashes[IF c.type = "PrunedBranch" THEN 1
                  ELSE HashIndex(c.mask, l) + 1][2]

-----------------------------------------------------------------------------
(* CellParts::compute_hashes.  The parts p are a record with fields        *)
(* exotic, mask (the descriptor's level mask), bitLen, data, refs (the     *)
(* child cells, as records) and childrenMask (supplied by the caller).     *)

\* The cell type: from the first data byte if exotic, Ordinary otherwise.
PartsType(p) ==
  IF ~p.exotic THEN "Ordinary"
  ELSE IF p.data.first = NoByte THEN "None"
  ELSE FromByteExotic(p.data.first)

\* The layout checks of each exotic type.
LayoutOK(p) ==
  LET level == MaskLevel(p.mask) IN
  CASE PartsType(p) = "Ordinary" -> TRUE
    [] PartsType(p) = "PrunedBranch" ->
         /\ level # 0
         /\ p.bitLen = 8 + 8 + level * (HashBits + DepthBitsInData)
         /\ p.refs = <<>>
         /\ p.data.second = p.mask
    [] PartsType(p) = "MerkleProof" ->
         /\ p.bitLen = 8 + HashBits + DepthBitsInData
         /\ Len(p.refs) = 1
    [] PartsType(p) = "MerkleUpdate" ->
         /\ p.bitLen = 8 + 2 * (HashBits + DepthBitsInData)
         /\ Len(p.refs) = 2
    [] PartsType(p) = "LibraryReference" ->
         /\ p.bitLen = 8 + HashBits
         /\ p.refs = <<>>
    [] OTHER -> FALSE

\* The level mask the cell must declare.
ComputedMask(p) ==
  CASE PartsType(p) = "Ordinary"         -> p.childrenMask
    [] PartsType(p) = "PrunedBranch"     -> p.mask
    [] IsMerkle(PartsType(p))            -> Virtualize(p.childrenMask)
    [] OTHER                             -> {}

\* Everything compute_hashes checks before it hashes.
ValidParts(p) ==
  /\ PartsType(p) \in CellTypes
  /\ LayoutOK(p)
  /\ ComputedMask(p) = p.mask

\* Mutant: merkle cells read their children at the same level.
LevelOffsetFlat(p) == 0

LevelOffset(p) == IF IsMerkle(PartsType(p)) THEN 1 ELSE 0

\* The levels the loop does not skip.
SigLevels(p) ==
  IF PartsType(p) = "PrunedBranch" THEN {0} ELSE {0} \cup p.mask

\* The depth a child contributes at level l.
ChildDepth(p, k, l) == CellDepthAt(p.refs[k], l + LevelOffset(p))

\* Mutant: the depth addition is never checked.
DepthOverflowUnchecked(p) == FALSE

\* checked_add(1) fails on a child depth of MaxDepth at a hashed level.
DepthOverflow(p) ==
  \E l \in SigLevels(p), k \in DOMAIN p.refs : ChildDepth(p, k, l) = MaxDepth

Max2(a, b) == IF a >= b THEN a ELSE b

\* Mutant: depth = next_depth instead of max(depth, next_depth).
LevelDepthLast(p, l) ==
  IF p.refs = <<>> THEN 0 ELSE ChildDepth(p, Len(p.refs), l) + 1

\* depth = max over the children of child_depth + 1, 0 without children:
\* the loop over at most MAX_REF_COUNT references, unrolled.
LevelDepth(p, l) ==
  LET t(k) == IF k <= Len(p.refs) THEN ChildDepth(p, k, l) + 1 ELSE 0
  IN  Max2(Max2(Max2(Max2(0, t(1)), t(2)), t(3)), t(4))

\* Mutant: the declared mask is hashed at every level.
HashedD1FullMask(p, l) == <<Len(p.refs), p.exotic, p.mask>>

\* The descriptor byte d1 as hashed at level l: the reference count and the
\* exotic flag kept, the level mask bits rewritten, store-hashes cleared.
HashedD1(p, l) ==
  <<Len(p.refs), p.exotic,
    IF PartsType(p) = "PrunedBranch" THEN p.mask ELSE FromLevel(l)>>

\* The hash of level l, given the data (level 0) or the previous hash.
LevelHash(p, l, payload) ==
  Sha256(<<HashedD1(p, l), D2(p.bitLen), payload,
           [k \in DOMAIN p.refs |-> ChildDepth(p, k, l)],
           [k \in DOMAIN p.refs |-> CellHashAt(p.refs[k], l + LevelOffset(p))]>>)

\* The loop "for level in 0..4", unrolled: each significant level hashes
\* the hash pushed last (hashes.last()), level 0 hashes the data.
ComputeHashes(p) ==
  LET sig == SigLevels(p)
      h0 == LevelHash(p, 0, p.data)
      h1 == IF 1 \in sig THEN LevelHash(p, 1, h0) ELSE h0
      h2 == IF 2 \in sig THEN LevelHash(p, 2, h1) ELSE h1
      h3 == IF 3 \in sig THEN LevelHash(p, 3, h2) ELSE h2
      entry(l, h) == IF l \in sig THEN <<<<h, LevelDepth(p, l)>>>> ELSE <<>>
  IN  <<<<h0, LevelDepth(p, 0)>>>> \o entry(1, h1) \o entry(2, h2) \o entry(3, h3)

\* The outcome of compute_hashes: the error it returns, or "Ok".
Outcome(p) ==
  IF ~ValidParts(p) THEN "InvalidCell"
  ELSE IF DepthOverflow(p) THEN "DepthOverflow"
  ELSE "Ok"

=============================================================================
