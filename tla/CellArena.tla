------------------------------ MODULE CellArena -----------------------------
(***************************************************************************)
(* The cells alive in a program and the Cell Context that creates them.    *)
(* Cells are immutable and shared: the arena is the sequence of every cell *)
(* finalized so far, and a cell refers to its children by their position   *)
(* in it, which is always an earlier one (a cell can only reference cells  *)
(* that exist when it is built).                                           *)
(*                                                                         *)
(* The one operation is CellContext::finalize_cell, which runs             *)
(* CellParts::compute_hashes and either appends the new cell or returns    *)
(* the error.  Its inputs are the parts the producers hand it: the         *)
(* builder (ordinary cells, pruned branches made by pruning an existing    *)
(* cell, merkle proofs and updates over existing cells, library cells) and *)
(* the BOC decoder (any descriptor the bytes say, so wrong masks, wrong    *)
(* lengths, wrong reference counts and unknown tags too).                  *)
(***************************************************************************)
EXTENDS CellHash

CONSTANTS
  MaxCells,     \* bound on the number of finalized cells
  MaxRefsIn,    \* longest reference list the producers hand in
  Tokens        \* opaque data payloads of ordinary and library cells

ASSUME ArenaAssumption ==
  /\ MaxCells \in Nat
  /\ MaxRefsIn \in 0..MaxRefCount

VARIABLES
  arena,    \* the finalized cells, in the order they were created
  result    \* the outcome of the last finalize_cell call

vars == <<arena, result>>

Outcomes == {"None", "Ok", "InvalidCell", "DepthOverflow"}

Idx == 1..Len(arena)

\* The child records of a reference list.
Children(refs) == [k \in DOMAIN refs |-> arena[refs[k]]]

\* hash(l) and depth(l) of the cell at position i.
HashAt(i, l) == CellHashAt(arena[i], l)
DepthAt(i, l) == CellDepthAt(arena[i], l)

\* CellParts::children_mask: the bitwise OR of the child level masks.
ChildrenMaskOf(refs) == UNION {arena[refs[k]].mask : k \in DOMAIN refs}

\* Reference lists of up to MaxRefsIn existing cells.
RefLists == UNION {[1..n -> Idx] : n \in 0..MaxRefsIn}

-----------------------------------------------------------------------------
(* The parts the producers hand to finalize_cell.  origin is history: the  *)
(* cell a pruned branch was made from and the level it was pruned at, or   *)
(* <<0, 0>>.                                                               *)

MkParts(exotic, mask, bitLen, data, refs, origin) ==
  [exotic |-> exotic, mask |-> mask, bitLen |-> bitLen, data |-> data,
   refIdx |-> refs, refs |-> Children(refs),
   childrenMask |-> ChildrenMaskOf(refs), origin |-> origin]

Data(first, second, body) == [first |-> first, second |-> second, body |-> body]

\* A mask the decoder may read instead of the right one.
WrongMask(m) == IF 1 \in m THEN m \ {1} ELSE m \cup {1}

-----------------------------------------------------------------------------

\* The cell finalize_cell builds from valid parts.
NewCell(p) ==
  [type |-> PartsType(p), mask |-> p.mask, bitLen |-> p.bitLen,
   data |-> p.data, refs |-> p.refIdx, hashes |-> ComputeHashes(p),
   origin |-> p.origin]

Init ==
  /\ arena = <<>>
  /\ result = "None"

\* finalize_cell on parts compute_hashes accepts: the cell is created.
FinalizeAccepted(p) ==
  /\ Outcome(p) = "Ok"
  /\ Len(arena) < MaxCells
  /\ arena' = Append(arena, NewCell(p))
  /\ result' = "Ok"

\* finalize_cell on parts compute_hashes rejects: the error is returned and
\* no cell is created.
FinalizeRejected(p) ==
  /\ Outcome(p) # "Ok"
  /\ result' = Outcome(p)
  /\ UNCHANGED arena

\* CellContext::finalize_cell: compute_hashes, then the cell or the error.
Finalize(p) == FinalizeAccepted(p) \/ FinalizeRejected(p)

\* PrunedBranch::create(cell, level) for level = level(cell) + 1: the mask
\* gains that level and the data stores hash(k), depth(k) for k < level.
PruneLevel(i) == MaskLevel(arena[i].mask) + 1

PrunedMask(i) == arena[i].mask \cup {PruneLevel(i)}

PrunedBody(i) == [k \in 1..PruneLevel(i) |-> HashAt(i, k - 1)]
                 \o [k \in 1..PruneLevel(i) |-> DepthAt(i, k - 1)]

-----------------------------------------------------------------------------
(* The producers: each hands finalize_cell the parts of one kind of cell,  *)
(* built over the existing cells, as the builder makes them or as the BOC  *)
(* decoder reads them (wrong masks, wrong lengths and counts included).    *)

\* Ordinary cells: any references, a token; the first data byte is 1, the
\* pruned-branch tag, which only the exotic flag may make meaningful.
OrdinaryInput ==
  \E r \in RefLists :
    \E t \in Tokens :
      \E m \in {ChildrenMaskOf(r), WrongMask(ChildrenMaskOf(r))} :
        Finalize(MkParts(FALSE, m, 8, Data(1, {}, <<t>>), r, <<0, 0>>))

\* A pruned branch of an existing cell, declaring the new mask or the old.
PrunedInput ==
  \E i \in Idx :
    /\ PruneLevel(i) <= 3
    /\ \E dm \in {PrunedMask(i), arena[i].mask} :
         \E extra \in {0, 8} :
           Finalize(MkParts(TRUE, dm, 16 + PruneLevel(i) * 272 + extra,
                            Data(1, PrunedMask(i), PrunedBody(i)), <<>>,
                            <<i, PruneLevel(i)>>))

\* MerkleProof::create over an existing cell: the data stores its level-0
\* hash and depth.
MerkleProofInput ==
  \E i \in Idx :
    \E extra \in {0, 8} :
      \E m \in {Virtualize(arena[i].mask), WrongMask(Virtualize(arena[i].mask))} :
        Finalize(MkParts(TRUE, m, 8 + 272 + extra,
                         Data(3, {}, <<HashAt(i, 0), DepthAt(i, 0)>>),
                         <<i>>, <<0, 0>>))

\* MerkleUpdate::create over two existing cells, or with one reference.
MerkleUpdateInput ==
  \E i \in Idx :
    \E j \in Idx :
      \E refs \in {<<i, j>>, <<i>>} :
        Finalize(MkParts(TRUE, Virtualize(arena[i].mask \cup arena[j].mask),
                         8 + 2 * 272,
                         Data(4, {}, <<HashAt(i, 0), HashAt(j, 0),
                                       DepthAt(i, 0), DepthAt(j, 0)>>),
                         refs, <<0, 0>>))

\* Library cells, with or without a reference.
LibraryInput ==
  \E t \in Tokens :
    \E extra \in {0, 8} :
      \E r \in {<<>>} \cup {<<i>> : i \in Idx} :
        Finalize(MkParts(TRUE, {}, 8 + 256 + extra, Data(2, {}, <<t>>), r, <<0, 0>>))

\* Exotic parts the decoder may read: an unknown tag, no data at all, a
\* pruned branch of level 0.
MalformedInput ==
  \/ Finalize(MkParts(TRUE, {}, 8, Data(5, {}, <<>>), <<>>, <<0, 0>>))
  \/ Finalize(MkParts(TRUE, {}, 0, Data(NoByte, {}, <<>>), <<>>, <<0, 0>>))
  \/ Finalize(MkParts(TRUE, {}, 16, Data(1, {}, <<>>), <<>>, <<0, 0>>))

Next ==
  \/ OrdinaryInput
  \/ PrunedInput
  \/ MerkleProofInput
  \/ MerkleUpdateInput
  \/ LibraryInput
  \/ MalformedInput

Spec == Init /\ [][Next]_vars

-----------------------------------------------------------------------------
(* Properties.                                                             *)

\* Every cell has a known type and mask, refers only to cells created
\* before it, and reports depths that fit their width at every level.
TypeOK ==
  /\ result \in Outcomes
  /\ arena \in Seq({arena[i] : i \in DOMAIN arena})
  /\ \A i \in Idx :
       /\ arena[i].type \in CellTypes
       /\ arena[i].mask \in LevelMasks
       /\ arena[i].refs \in Seq(1..(i - 1))
       /\ Len(arena[i].refs) <= MaxRefCount
       /\ \A l \in AllLevels : DepthAt(i, l) \in 0..MaxDepth

\* The structure of the cell at position i: its type, mask, length and data
\* bytes and the structures of its children, in order.
Tree[i \in Idx] ==
  <<arena[i].type, arena[i].mask, arena[i].bitLen, arena[i].data,
    [k \in DOMAIN arena[i].refs |-> Tree[arena[i].refs[k]]]>>

\* The representation hash, Cell::repr_hash: hash(3).
ReprHash(i) == HashAt(i, 3)

\* Deduplication soundness (the BOC encoder interns cells by representation
\* hash): two cells with the same representation hash have the same
\* structure.  This needs every part of a cell, its children's hashes at
\* the right (virtualized) level included, to reach the hashed bytes.
ReprHashIdentifiesCell ==
  \A i, j \in Idx : ReprHash(i) = ReprHash(j) => Tree[i] = Tree[j]

\* The tree a cell stands for when it is read at level l: a pruned branch
\* made from cell c at level L stands for c at every level below L; merkle
\* cells show their children one level up.
VirtAt[i \in Idx, l \in AllLevels] ==
  LET c == arena[i]
      up == IF IsMerkle(c.type) /\ l < 3 THEN l + 1 ELSE l
  IN  IF c.origin[1] # 0 /\ l < c.origin[2] THEN VirtAt[c.origin[1], l]
      ELSE IF c.type = "PrunedBranch" THEN <<"pruned", c.mask, c.data>>
      ELSE <<c.type, c.bitLen, c.data,
             [k \in DOMAIN c.refs |-> VirtAt[c.refs[k], up]]>>

\* Merkle transparency (the per-level hashing of compute_hashes): a tree in
\* which subtrees were replaced by pruned branches has, at every level
\* below the pruning, the hash and depth of the original tree.
PrunedTreeKeepsHash ==
  \A i, j \in Idx, l \in AllLevels :
    VirtAt[i, l] = VirtAt[j, l] =>
      /\ HashAt(i, l) = HashAt(j, l)
      /\ DepthAt(i, l) = DepthAt(j, l)

\* Depth is exact (no u16 wrap-around, depth = 1 + max child depth): a cell
\* is strictly deeper at every level than each child at the level it reads.
DepthExceedsChildren ==
  \A i \in Idx, l \in AllLevels :
    \A k \in DOMAIN arena[i].refs :
      LET up == IF IsMerkle(arena[i].type) /\ l < 3 THEN l + 1 ELSE l
      IN  DepthAt(i, l) > DepthAt(arena[i].refs[k], up)

=============================================================================
