--------------------------- MODULE CellArenaProofs ---------------------------
(***************************************************************************)
(* Proofs about the cell arena: type correctness of every cell that        *)
(* finalize_cell creates, for every depth width and bound.                 *)
(***************************************************************************)
EXTENDS CellArena, SequenceTheorems, TLAPS

USE DepthBitsAssumption, NoByteAssumption, PowerAssumption, ArenaAssumption

\* The largest depth is a natural number.
LEMMA MaxDepthNat == MaxDepth \in Nat
  BY DEF MaxDepth

\* The depth loop of compute_hashes: when no child depth at the level is
\* MaxDepth (checked_add(1) succeeded for every child), the maximum of the
\* child depths plus one fits the width.
LEMMA LevelDepthRange ==
  ASSUME NEW p, NEW l, NEW C,
         p.refs \in Seq(C),
         Len(p.refs) <= MaxRefCount,
         \A k \in 1..Len(p.refs) : ChildDepth(p, k, l) \in 0..(MaxDepth - 1)
  PROVE  LevelDepth(p, l) \in 0..MaxDepth
  <1> DEFINE t(k) == IF k <= Len(p.refs) THEN ChildDepth(p, k, l) + 1 ELSE 0
  <1>0. Len(p.refs) \in Nat
    BY LenProperties
  <1>1. Len(p.refs) <= 4
    BY DEF MaxRefCount
  <1>2. \A k \in 1..4 : t(k) \in 0..MaxDepth
    BY <1>0, <1>1, MaxDepthNat
  <1>3. LevelDepth(p, l) = Max2(Max2(Max2(Max2(0, t(1)), t(2)), t(3)), t(4))
    BY DEF LevelDepth
  <1>4. QED
    BY <1>2, <1>3, MaxDepthNat DEF Max2

\* The depth a finalized cell that is not a pruned branch reports at any
\* level is the depth compute_hashes computed at one of its significant
\* levels.
LEMMA HashesDepth ==
  ASSUME NEW p, NEW l \in AllLevels, NEW S,
         p.mask \in LevelMasks,
         PartsType(p) # "PrunedBranch",
         \A x \in {0} \cup p.mask : LevelDepth(p, x) \in S
  PROVE  ComputeHashes(p)[HashIndex(p.mask, l) + 1][2] \in S
  <1> DEFINE m  == p.mask
             h0 == LevelHash(p, 0, p.data)
             h1 == IF 1 \in m THEN LevelHash(p, 1, h0) ELSE h0
             h2 == IF 2 \in m THEN LevelHash(p, 2, h1) ELSE h1
             h3 == IF 3 \in m THEN LevelHash(p, 3, h2) ELSE h2
  <1>1. SigLevels(p) = {0} \cup m
    BY DEF SigLevels
  <1>2. ComputeHashes(p) =
          <<<<h0, LevelDepth(p, 0)>>>>
            \o (IF 1 \in m THEN <<<<h1, LevelDepth(p, 1)>>>> ELSE <<>>)
            \o (IF 2 \in m THEN <<<<h2, LevelDepth(p, 2)>>>> ELSE <<>>)
            \o (IF 3 \in m THEN <<<<h3, LevelDepth(p, 3)>>>> ELSE <<>>)
    BY <1>1 DEF ComputeHashes
  <1>3. /\ <<h0, LevelDepth(p, 0)>>[2] \in S
        /\ 1 \in m => <<h1, LevelDepth(p, 1)>>[2] \in S
        /\ 2 \in m => <<h2, LevelDepth(p, 2)>>[2] \in S
        /\ 3 \in m => <<h3, LevelDepth(p, 3)>>[2] \in S
    OBVIOUS
  <1>4. (<<<<h0, LevelDepth(p, 0)>>>>
            \o (IF 1 \in m THEN <<<<h1, LevelDepth(p, 1)>>>> ELSE <<>>)
            \o (IF 2 \in m THEN <<<<h2, LevelDepth(p, 2)>>>> ELSE <<>>)
            \o (IF 3 \in m THEN <<<<h3, LevelDepth(p, 3)>>>> ELSE <<>>))
           [HashIndex(m, l) + 1][2] \in S
    <2>1. CASE 1 \in m /\ 2 \in m /\ 3 \in m
      BY <1>3, <2>1 DEF HashIndex, AllLevels, LevelMasks, Levels
    <2>2. CASE 1 \in m /\ 2 \in m /\ 3 \notin m
      BY <1>3, <2>2 DEF HashIndex, AllLevels, LevelMasks, Levels
    <2>3. CASE 1 \in m /\ 2 \notin m /\ 3 \in m
      BY <1>3, <2>3 DEF HashIndex, AllLevels, LevelMasks, Levels
    <2>4. CASE 1 \in m /\ 2 \notin m /\ 3 \notin m
      BY <1>3, <2>4 DEF HashIndex, AllLevels, LevelMasks, Levels
    <2>5. CASE 1 \notin m /\ 2 \in m /\ 3 \in m
      BY <1>3, <2>5 DEF HashIndex, AllLevels, LevelMasks, Levels
    <2>6. CASE 1 \notin m /\ 2 \in m /\ 3 \notin m
      BY <1>3, <2>6 DEF HashIndex, AllLevels, LevelMasks, Levels
    <2>7. CASE 1 \notin m /\ 2 \notin m /\ 3 \in m
      BY <1>3, <2>7 DEF HashIndex, AllLevels, LevelMasks, Levels
    <2>8. CASE 1 \notin m /\ 2 \notin m /\ 3 \notin m
      BY <1>3, <2>8 DEF HashIndex, AllLevels, LevelMasks, Levels
    <2>9. QED
      BY <2>1, <2>2, <2>3, <2>4, <2>5, <2>6, <2>7, <2>8
  <1>5. QED
    BY <1>2, <1>4

\* A pruned branch keeps the single entry compute_hashes pushes for level 0.
LEMMA PrunedDepth ==
  ASSUME NEW p, NEW S,
         PartsType(p) = "PrunedBranch",
         LevelDepth(p, 0) \in S
  PROVE  ComputeHashes(p)[1][2] \in S
  <1> DEFINE h0 == LevelHash(p, 0, p.data)
  <1>1. SigLevels(p) = {0}
    BY DEF SigLevels
  <1>2. ComputeHashes(p) = <<<<h0, LevelDepth(p, 0)>>>> \o <<>> \o <<>> \o <<>>
    BY <1>1 DEF ComputeHashes
  <1>3. QED
    BY <1>2

-----------------------------------------------------------------------------
(* The parts handed to finalize_cell refer to existing cells, declare a    *)
(* mask of levels 1..3, and a pruned branch stores depths of the width.    *)

PartsOK(p) ==
  /\ p.refIdx \in Seq(Idx)
  /\ Len(p.refIdx) <= MaxRefCount
  /\ p.refs = Children(p.refIdx)
  /\ p.childrenMask \in LevelMasks
  /\ p.childrenMask = ChildrenMaskOf(p.refIdx)
  /\ p.mask \in LevelMasks
  /\ PartsType(p) = "PrunedBranch" /\ ValidParts(p) =>
       \A x \in 0..(MaskLevel(p.mask) - 1) :
         p.data.body[MaskLevel(p.mask) + x + 1] \in 0..MaxDepth

\* The children of parts read at a level l: depth within the width, and
\* below it at a level compute_hashes hashes when it returned no error.
LEMMA ChildDepthOK ==
  ASSUME TypeOK, NEW p, PartsOK(p), ValidParts(p), ~DepthOverflow(p),
         NEW x \in SigLevels(p)
  PROVE  \A k \in 1..Len(p.refs) : ChildDepth(p, k, x) \in 0..(MaxDepth - 1)
  <1> SUFFICES ASSUME NEW k \in 1..Len(p.refs)
               PROVE  ChildDepth(p, k, x) \in 0..(MaxDepth - 1)
    OBVIOUS
  <1>1. Len(p.refs) = Len(p.refIdx) /\ k \in DOMAIN p.refIdx
    BY LenProperties DEF PartsOK, Children
  <1>2. p.refIdx[k] \in Idx
    BY <1>1 DEF PartsOK
  <1>3. ChildDepth(p, k, x) = DepthAt(p.refIdx[k], x + LevelOffset(p))
    BY <1>1 DEF PartsOK, Children, ChildDepth, DepthAt
  <1>4. x + LevelOffset(p) \in AllLevels
    <2>1. CASE IsMerkle(PartsType(p))
      <3>1. p.mask = Virtualize(p.childrenMask)
        BY <2>1 DEF ValidParts, ComputedMask, IsMerkle
      <3>2. x \in {0, 1, 2}
        BY <3>1, <2>1 DEF PartsOK, LevelMasks, Levels, Virtualize, SigLevels, IsMerkle
      <3>3. QED
        BY <2>1, <3>2 DEF LevelOffset, AllLevels
    <2>2. CASE ~IsMerkle(PartsType(p))
      BY <2>2 DEF LevelOffset, AllLevels, SigLevels, PartsOK, LevelMasks, Levels
    <2>3. QED
      BY <2>1, <2>2
  <1>5. DepthAt(p.refIdx[k], x + LevelOffset(p)) \in 0..MaxDepth
    BY <1>2, <1>4 DEF TypeOK
  <1>6. ChildDepth(p, k, x) # MaxDepth
    BY <1>1 DEF DepthOverflow, PartsOK, Children
  <1>7. QED
    BY <1>3, <1>5, <1>6, MaxDepthNat

\* Every depth the cell finalize_cell creates reports fits the width.
LEMMA NewCellDepth ==
  ASSUME TypeOK, NEW p, PartsOK(p), Outcome(p) = "Ok", NEW l \in AllLevels
  PROVE  CellDepthAt(NewCell(p), l) \in 0..MaxDepth
  <1> DEFINE c == NewCell(p)
  <1>1. ValidParts(p) /\ ~DepthOverflow(p)
    BY DEF Outcome
  <1>2. p.refs \in Seq({arena[i] : i \in Idx})
    <2>1. p.refIdx \in Seq(Idx)
      BY DEF PartsOK
    <2>2. QED
      BY <2>1, LenProperties DEF PartsOK, Children
  <1>3. Len(p.refs) <= MaxRefCount
    BY <1>2, LenProperties DEF PartsOK, Children
  <1>4. CASE PartsType(p) = "PrunedBranch"
    <2>1. p.refs = <<>>
      BY <1>1, <1>4 DEF ValidParts, LayoutOK
    <2>2. LevelDepth(p, 0) \in 0..MaxDepth
      <3>1. Len(p.refs) = 0
        BY <2>1
      <3>2. \A k \in 1..Len(p.refs) : ChildDepth(p, k, 0) \in 0..(MaxDepth - 1)
        BY <3>1
      <3>3. QED
        BY <1>2, <1>3, <3>2, LevelDepthRange
    <2>3. CASE StoredIndex(c, l)
      <3>1. HashIndex(p.mask, l) \in 0..(MaskLevel(p.mask) - 1)
        BY <2>3, <1>4 DEF StoredIndex, NewCell, HashIndex, MaskLevel
      <3>2. QED
        BY <1>1, <1>4, <2>3, <3>1 DEF PartsOK, CellDepthAt, NewCell
    <2>4. CASE ~StoredIndex(c, l)
      <3>1. ComputeHashes(p)[1][2] \in 0..MaxDepth
        BY <1>4, <2>2, PrunedDepth
      <3>2. QED
        BY <1>4, <2>4, <3>1 DEF CellDepthAt, NewCell
    <2>5. QED
      BY <2>3, <2>4
  <1>5. CASE PartsType(p) # "PrunedBranch"
    <2>1. SigLevels(p) = {0} \cup p.mask
      BY <1>5 DEF SigLevels
    <2>2. \A x \in {0} \cup p.mask : LevelDepth(p, x) \in 0..MaxDepth
      BY <1>1, <1>2, <1>3, <2>1, ChildDepthOK, LevelDepthRange
    <2>3. ComputeHashes(p)[HashIndex(p.mask, l) + 1][2] \in 0..MaxDepth
      BY <1>5, <2>2, HashesDepth DEF PartsOK
    <2>4. ~StoredIndex(c, l)
      BY <1>5 DEF StoredIndex, NewCell
    <2>5. QED
      BY <1>5, <2>3, <2>4 DEF CellDepthAt, NewCell
  <1>6. QED
    BY <1>4, <1>5

\* finalize_cell keeps every cell well typed: a rejected call changes no
\* cell, an accepted one appends a cell over earlier cells whose depths fit.
LEMMA FinalizeOK ==
  ASSUME TypeOK, NEW p, PartsOK(p), Finalize(p)
  PROVE  TypeOK'
  <1>1. CASE FinalizeRejected(p)
    <2>1. result' \in Outcomes
      BY <1>1 DEF FinalizeRejected, Outcome, Outcomes
    <2>2. QED
      BY <1>1, <2>1 DEF FinalizeRejected, TypeOK, Idx, DepthAt
  <1>2. CASE FinalizeAccepted(p)
    <2> DEFINE c == NewCell(p)
               n == Len(arena) + 1
    <2>1. Outcome(p) = "Ok" /\ arena' = Append(arena, c) /\ result' = "Ok"
      BY <1>2 DEF FinalizeAccepted
    <2> DEFINE R == {arena[i] : i \in DOMAIN arena}
    <2>2. arena \in Seq(R)
      BY DEF TypeOK
    <2>3. /\ arena' \in Seq(R \cup {c})
          /\ Len(arena') = n
          /\ DOMAIN arena' = 1..n
          /\ \A i \in 1..(n - 1) : arena'[i] = arena[i]
          /\ arena'[n] = c
      <3>1. c \in R \cup {c} /\ arena \in Seq(R \cup {c})
        BY <2>2, SeqMonotonic
      <3>2. QED
        BY <2>1, <3>1, AppendProperties
    <2>3a. arena' \in Seq({arena'[i] : i \in DOMAIN arena'})
      <3>1. R \cup {c} = {arena'[i] : i \in DOMAIN arena'}
        <4>1. DOMAIN arena = 1..(n - 1) /\ n \in Nat \ {0}
          BY <2>2, LenProperties
        <4>2. R \subseteq {arena'[i] : i \in DOMAIN arena'}
          BY <2>3, <4>1
        <4>3. c \in {arena'[i] : i \in DOMAIN arena'}
          BY <2>3, <4>1
        <4>4. {arena'[i] : i \in DOMAIN arena'} \subseteq R \cup {c}
          <5> SUFFICES ASSUME NEW i \in 1..n PROVE arena'[i] \in R \cup {c}
            BY <2>3
          <5>1. CASE i = n
            BY <2>3, <5>1
          <5>2. CASE i # n
            BY <2>3, <4>1, <5>2
          <5>3. QED
            BY <5>1, <5>2
        <4>5. QED
          BY <4>2, <4>3, <4>4
      <3>2. QED
        BY <2>3, <3>1
    <2>4. ValidParts(p)
      BY <2>1 DEF Outcome
    <2>5. /\ c.type \in CellTypes
          /\ c.mask \in LevelMasks
          /\ c.refs \in Seq(1..(n - 1))
          /\ Len(c.refs) <= MaxRefCount
      BY <2>4 DEF ValidParts, NewCell, PartsOK, Idx
    <2>6. \A l \in AllLevels : CellDepthAt(c, l) \in 0..MaxDepth
      BY <2>1, NewCellDepth
    <2>7. \A i \in 1..n :
            /\ arena'[i].type \in CellTypes
            /\ arena'[i].mask \in LevelMasks
            /\ arena'[i].refs \in Seq(1..(i - 1))
            /\ Len(arena'[i].refs) <= MaxRefCount
            /\ \A l \in AllLevels : CellDepthAt(arena'[i], l) \in 0..MaxDepth
      <3> SUFFICES ASSUME NEW i \in 1..n
                   PROVE  /\ arena'[i].type \in CellTypes
                          /\ arena'[i].mask \in LevelMasks
                          /\ arena'[i].refs \in Seq(1..(i - 1))
                          /\ Len(arena'[i].refs) <= MaxRefCount
                          /\ \A l \in AllLevels : CellDepthAt(arena'[i], l) \in 0..MaxDepth
        OBVIOUS
      <3>1. CASE i = n
        BY <3>1, <2>3, <2>5, <2>6
      <3>2. CASE i # n
        <4>1. i \in Idx /\ arena'[i] = arena[i]
          BY <3>2, <2>3 DEF Idx
        <4>2. QED
          BY <4>1 DEF TypeOK, DepthAt
      <3>3. QED
        BY <3>1, <3>2
    <2>8. QED
      BY <2>1, <2>3, <2>3a, <2>7 DEF TypeOK, Idx, DepthAt, Outcomes
  <1>3. QED
    BY <1>1, <1>2 DEF Finalize

-----------------------------------------------------------------------------
(* Each producer hands finalize_cell parts that satisfy PartsOK.           *)

\* Reference lists are sequences of existing cells of at most four entries.
LEMMA RefListsOK ==
  ASSUME NEW r \in RefLists
  PROVE  r \in Seq(Idx) /\ Len(r) <= MaxRefCount
  <1>1. PICK n \in 0..MaxRefsIn : r \in [1..n -> Idx]
    BY DEF RefLists
  <1>2. r \in Seq(Idx) /\ Len(r) = n
    BY <1>1
  <1>3. QED
    BY <1>1, <1>2 DEF MaxRefCount

\* The union of the masks of existing cells is a mask.
LEMMA ChildrenMaskOK ==
  ASSUME TypeOK, NEW r \in Seq(Idx)
  PROVE  ChildrenMaskOf(r) \in LevelMasks
  BY DEF ChildrenMaskOf, TypeOK, LevelMasks

\* A mask with level 1 toggled is a mask.
LEMMA WrongMaskOK ==
  ASSUME NEW m \in LevelMasks
  PROVE  WrongMask(m) \in LevelMasks
  BY DEF WrongMask, LevelMasks, Levels

\* Ordinary cells.
LEMMA OrdinaryInputOK ==
  ASSUME TypeOK, OrdinaryInput
  PROVE  \E q : PartsOK(q) /\ Finalize(q)
  <1>1. PICK r \in RefLists :
          \E t \in Tokens :
            \E m \in {ChildrenMaskOf(r), WrongMask(ChildrenMaskOf(r))} :
              Finalize(MkParts(FALSE, m, 8, Data(1, {}, <<t>>), r, <<0, 0>>))
    BY DEF OrdinaryInput
  <1>2. PICK t \in Tokens :
          \E m \in {ChildrenMaskOf(r), WrongMask(ChildrenMaskOf(r))} :
            Finalize(MkParts(FALSE, m, 8, Data(1, {}, <<t>>), r, <<0, 0>>))
    BY <1>1
  <1>3. PICK m \in {ChildrenMaskOf(r), WrongMask(ChildrenMaskOf(r))} :
          Finalize(MkParts(FALSE, m, 8, Data(1, {}, <<t>>), r, <<0, 0>>))
    BY <1>2
  <1> DEFINE p == MkParts(FALSE, m, 8, Data(1, {}, <<t>>), r, <<0, 0>>)
  <1>4. r \in Seq(Idx) /\ Len(r) <= MaxRefCount
    BY RefListsOK
  <1>5. ChildrenMaskOf(r) \in LevelMasks /\ m \in LevelMasks
    BY <1>4, ChildrenMaskOK, WrongMaskOK
  <1>6. PartsType(p) = "Ordinary"
    BY DEF PartsType, MkParts
  <1>7. PartsOK(p)
    BY <1>4, <1>5, <1>6 DEF PartsOK, MkParts
  <1>8. QED
    BY <1>3, <1>7

\* The data of a pruned branch: L hashes, then the L depths of the cell.
LEMMA PrunedBodyDepth ==
  ASSUME TypeOK, NEW i \in Idx, PruneLevel(i) <= 3,
         NEW x \in 0..(PruneLevel(i) - 1)
  PROVE  PrunedBody(i)[PruneLevel(i) + x + 1] = DepthAt(i, x)
  <1> DEFINE L == PruneLevel(i)
             H == [k \in 1..L |-> HashAt(i, k - 1)]
             D == [k \in 1..L |-> DepthAt(i, k - 1)]
             S == {HashAt(i, k - 1) : k \in 1..L} \cup {DepthAt(i, k - 1) : k \in 1..L}
  <1>1. L \in 1..3
    BY DEF PruneLevel, MaskLevel
  <1>2. H \in Seq(S) /\ D \in Seq(S) /\ Len(H) = L /\ Len(D) = L
    BY <1>1
  <1>3. \A j \in 1..(Len(H) + Len(D)) :
          (H \o D)[j] = IF j <= Len(H) THEN H[j] ELSE D[j - Len(H)]
    BY <1>2, ConcatProperties, ZenonT(30)
  <1>4. (H \o D)[L + x + 1] = D[x + 1]
    <2>1. x \in Nat /\ x < L
      BY <1>1
    <2>2. L + x + 1 \in 1..(Len(H) + Len(D)) /\ ~(L + x + 1 <= Len(H))
      BY <1>1, <1>2, <2>1
    <2>3. (L + x + 1) - Len(H) = x + 1
      BY <1>1, <1>2, <2>1
    <2>4. QED
      BY <1>3, <2>2, <2>3
  <1>5. D[x + 1] = DepthAt(i, x)
    BY <1>1
  <1>6. QED
    BY <1>4, <1>5 DEF PrunedBody

\* Pruned branches of existing cells.
LEMMA PrunedInputOK ==
  ASSUME TypeOK, PrunedInput
  PROVE  \E q : PartsOK(q) /\ Finalize(q)
  <1>1. PICK i \in Idx :
          /\ PruneLevel(i) <= 3
          /\ \E dm \in {PrunedMask(i), arena[i].mask} :
               \E extra \in {0, 8} :
                 Finalize(MkParts(TRUE, dm, 16 + PruneLevel(i) * 272 + extra,
                                  Data(1, PrunedMask(i), PrunedBody(i)), <<>>,
                                  <<i, PruneLevel(i)>>))
    BY DEF PrunedInput
  <1>2. PICK dm \in {PrunedMask(i), arena[i].mask} :
          \E extra \in {0, 8} :
            Finalize(MkParts(TRUE, dm, 16 + PruneLevel(i) * 272 + extra,
                             Data(1, PrunedMask(i), PrunedBody(i)), <<>>,
                             <<i, PruneLevel(i)>>))
    BY <1>1
  <1>3. PICK extra \in {0, 8} :
          Finalize(MkParts(TRUE, dm, 16 + PruneLevel(i) * 272 + extra,
                           Data(1, PrunedMask(i), PrunedBody(i)), <<>>,
                           <<i, PruneLevel(i)>>))
    BY <1>2
  <1> DEFINE p == MkParts(TRUE, dm, 16 + PruneLevel(i) * 272 + extra,
                          Data(1, PrunedMask(i), PrunedBody(i)), <<>>,
                          <<i, PruneLevel(i)>>)
  <1>4. arena[i].mask \in LevelMasks /\ PruneLevel(i) \in 1..3
    BY <1>1 DEF TypeOK, PruneLevel, MaskLevel
  <1>5. PrunedMask(i) \in LevelMasks /\ dm \in LevelMasks
    BY <1>4 DEF PrunedMask, LevelMasks, Levels
  <1>6. MaskLevel(PrunedMask(i)) = PruneLevel(i)
    BY <1>4 DEF PrunedMask, PruneLevel, MaskLevel, LevelMasks, Levels
  <1>7. <<>> \in Seq(Idx) /\ ChildrenMaskOf(<<>>) \in LevelMasks
    <2>1. <<>> \in Seq(Idx)
      BY EmptySeq
    <2>2. QED
      BY <2>1, ChildrenMaskOK
  <1>8. ASSUME PartsType(p) = "PrunedBranch", ValidParts(p)
        PROVE  \A x \in 0..(MaskLevel(p.mask) - 1) :
                 p.data.body[MaskLevel(p.mask) + x + 1] \in 0..MaxDepth
    <2>1. p.mask = PrunedMask(i)
      BY <1>8 DEF ValidParts, LayoutOK, MkParts, Data
    <2>2. SUFFICES ASSUME NEW x \in 0..(PruneLevel(i) - 1)
                   PROVE  PrunedBody(i)[PruneLevel(i) + x + 1] \in 0..MaxDepth
      BY <1>6, <2>1 DEF MkParts, Data
    <2>3. x \in AllLevels
      BY <1>4 DEF AllLevels
    <2>4. QED
      BY <1>1, <2>3, PrunedBodyDepth DEF TypeOK
  <1>9. PartsOK(p)
    BY <1>5, <1>7, <1>8 DEF PartsOK, MkParts, MaxRefCount
  <1>10. QED
    BY <1>3, <1>9

\* Virtualizing a mask gives a mask.
LEMMA VirtualizeOK ==
  ASSUME NEW m \in LevelMasks
  PROVE  Virtualize(m) \in LevelMasks
  BY DEF Virtualize, LevelMasks, Levels

\* One existing cell, or two, as a reference list.
LEMMA SingletonRefs ==
  ASSUME NEW i \in Idx, NEW j \in Idx
  PROVE  /\ <<i>> \in Seq(Idx) /\ Len(<<i>>) <= MaxRefCount
         /\ <<i, j>> \in Seq(Idx) /\ Len(<<i, j>>) <= MaxRefCount
  BY DEF MaxRefCount

\* Merkle proofs over existing cells.
LEMMA MerkleProofInputOK ==
  ASSUME TypeOK, MerkleProofInput
  PROVE  \E q : PartsOK(q) /\ Finalize(q)
  <1>1. PICK i \in Idx :
          \E extra \in {0, 8} :
            \E m \in {Virtualize(arena[i].mask), WrongMask(Virtualize(arena[i].mask))} :
              Finalize(MkParts(TRUE, m, 8 + 272 + extra,
                               Data(3, {}, <<HashAt(i, 0), DepthAt(i, 0)>>),
                               <<i>>, <<0, 0>>))
    BY DEF MerkleProofInput
  <1>2. PICK extra \in {0, 8} :
          \E m \in {Virtualize(arena[i].mask), WrongMask(Virtualize(arena[i].mask))} :
            Finalize(MkParts(TRUE, m, 8 + 272 + extra,
                             Data(3, {}, <<HashAt(i, 0), DepthAt(i, 0)>>),
                             <<i>>, <<0, 0>>))
    BY <1>1
  <1>3. PICK m \in {Virtualize(arena[i].mask), WrongMask(Virtualize(arena[i].mask))} :
          Finalize(MkParts(TRUE, m, 8 + 272 + extra,
                           Data(3, {}, <<HashAt(i, 0), DepthAt(i, 0)>>),
                           <<i>>, <<0, 0>>))
    BY <1>2
  <1> DEFINE p == MkParts(TRUE, m, 8 + 272 + extra,
                          Data(3, {}, <<HashAt(i, 0), DepthAt(i, 0)>>),
                          <<i>>, <<0, 0>>)
  <1>4. <<i>> \in Seq(Idx) /\ Len(<<i>>) <= MaxRefCount
    BY SingletonRefs
  <1>5. ChildrenMaskOf(<<i>>) \in LevelMasks
    BY <1>4, ChildrenMaskOK
  <1>6. m \in LevelMasks
    <2>1. arena[i].mask \in LevelMasks
      BY DEF TypeOK
    <2>2. QED
      BY <2>1, VirtualizeOK, WrongMaskOK
  <1>7. PartsType(p) = "MerkleProof"
    BY DEF PartsType, MkParts, Data, FromByteExotic
  <1>8. PartsOK(p)
    BY <1>4, <1>5, <1>6, <1>7 DEF PartsOK, MkParts
  <1>9. QED
    BY <1>3, <1>8

\* Merkle updates over existing cells.
LEMMA MerkleUpdateInputOK ==
  ASSUME TypeOK, MerkleUpdateInput
  PROVE  \E q : PartsOK(q) /\ Finalize(q)
  <1>1. PICK i \in Idx :
          \E j \in Idx :
            \E refs \in {<<i, j>>, <<i>>} :
              Finalize(MkParts(TRUE, Virtualize(arena[i].mask \cup arena[j].mask),
                               8 + 2 * 272,
                               Data(4, {}, <<HashAt(i, 0), HashAt(j, 0),
                                             DepthAt(i, 0), DepthAt(j, 0)>>),
                               refs, <<0, 0>>))
    BY DEF MerkleUpdateInput
  <1>2. PICK j \in Idx :
          \E refs \in {<<i, j>>, <<i>>} :
            Finalize(MkParts(TRUE, Virtualize(arena[i].mask \cup arena[j].mask),
                             8 + 2 * 272,
                             Data(4, {}, <<HashAt(i, 0), HashAt(j, 0),
                                           DepthAt(i, 0), DepthAt(j, 0)>>),
                             refs, <<0, 0>>))
    BY <1>1
  <1>3. PICK refs \in {<<i, j>>, <<i>>} :
          Finalize(MkParts(TRUE, Virtualize(arena[i].mask \cup arena[j].mask),
                           8 + 2 * 272,
                           Data(4, {}, <<HashAt(i, 0), HashAt(j, 0),
                                         DepthAt(i, 0), DepthAt(j, 0)>>),
                           refs, <<0, 0>>))
    BY <1>2
  <1> DEFINE p == MkParts(TRUE, Virtualize(arena[i].mask \cup arena[j].mask),
                          8 + 2 * 272,
                          Data(4, {}, <<HashAt(i, 0), HashAt(j, 0),
                                        DepthAt(i, 0), DepthAt(j, 0)>>),
                          refs, <<0, 0>>)
  <1>4. refs \in Seq(Idx) /\ Len(refs) <= MaxRefCount
    BY SingletonRefs
  <1>5. ChildrenMaskOf(refs) \in LevelMasks
    BY <1>4, ChildrenMaskOK
  <1>6. Virtualize(arena[i].mask \cup arena[j].mask) \in LevelMasks
    <2>1. arena[i].mask \cup arena[j].mask \in LevelMasks
      BY DEF TypeOK, LevelMasks
    <2>2. QED
      BY <2>1, VirtualizeOK
  <1>7. PartsType(p) = "MerkleUpdate"
    BY DEF PartsType, MkParts, Data, FromByteExotic
  <1>8. PartsOK(p)
    BY <1>4, <1>5, <1>6, <1>7 DEF PartsOK, MkParts
  <1>9. QED
    BY <1>3, <1>8

\* Library cells.
LEMMA LibraryInputOK ==
  ASSUME TypeOK, LibraryInput
  PROVE  \E q : PartsOK(q) /\ Finalize(q)
  <1>1. PICK t \in Tokens :
          \E extra \in {0, 8} :
            \E r \in {<<>>} \cup {<<i>> : i \in Idx} :
              Finalize(MkParts(TRUE, {}, 8 + 256 + extra, Data(2, {}, <<t>>), r, <<0, 0>>))
    BY DEF LibraryInput
  <1>2. PICK extra \in {0, 8} :
          \E r \in {<<>>} \cup {<<i>> : i \in Idx} :
            Finalize(MkParts(TRUE, {}, 8 + 256 + extra, Data(2, {}, <<t>>), r, <<0, 0>>))
    BY <1>1
  <1>3. PICK r \in {<<>>} \cup {<<i>> : i \in Idx} :
          Finalize(MkParts(TRUE, {}, 8 + 256 + extra, Data(2, {}, <<t>>), r, <<0, 0>>))
    BY <1>2
  <1> DEFINE p == MkParts(TRUE, {}, 8 + 256 + extra, Data(2, {}, <<t>>), r, <<0, 0>>)
  <1>4. r \in Seq(Idx) /\ Len(r) <= MaxRefCount
    <2>1. CASE r = <<>>
      BY <2>1, EmptySeq DEF MaxRefCount
    <2>2. CASE r # <<>>
      BY <2>2, SingletonRefs
    <2>3. QED
      BY <2>1, <2>2
  <1>5. ChildrenMaskOf(r) \in LevelMasks
    BY <1>4, ChildrenMaskOK
  <1>6. PartsType(p) = "LibraryReference"
    BY DEF PartsType, MkParts, Data, FromByteExotic
  <1>7. PartsOK(p)
    BY <1>4, <1>5, <1>6 DEF PartsOK, MkParts, LevelMasks
  <1>8. QED
    BY <1>3, <1>7

\* Exotic parts with no references that are not valid pruned branches.
LEMMA MalformedPartsOK ==
  ASSUME TypeOK, NEW first, NEW bitLen,
         first = 1 => bitLen = 16
  PROVE  PartsOK(MkParts(TRUE, {}, bitLen, Data(first, {}, <<>>), <<>>, <<0, 0>>))
  <1> DEFINE p == MkParts(TRUE, {}, bitLen, Data(first, {}, <<>>), <<>>, <<0, 0>>)
  <1>1. <<>> \in Seq(Idx) /\ Len(<<>>) <= MaxRefCount
    BY EmptySeq DEF MaxRefCount
  <1>2. ChildrenMaskOf(<<>>) \in LevelMasks
    BY <1>1, ChildrenMaskOK
  <1>3. PartsType(p) = "PrunedBranch" => ~ValidParts(p)
    BY DEF PartsType, MkParts, Data, FromByteExotic, ValidParts, LayoutOK, MaskLevel
  <1>4. QED
    BY <1>1, <1>2, <1>3 DEF PartsOK, MkParts, LevelMasks

\* Malformed exotic parts the decoder may read.
LEMMA MalformedInputOK ==
  ASSUME TypeOK, MalformedInput
  PROVE  \E q : PartsOK(q) /\ Finalize(q)
  <1>1. CASE Finalize(MkParts(TRUE, {}, 8, Data(5, {}, <<>>), <<>>, <<0, 0>>))
    <2>1. PartsOK(MkParts(TRUE, {}, 8, Data(5, {}, <<>>), <<>>, <<0, 0>>))
      BY MalformedPartsOK
    <2>2. QED
      BY <1>1, <2>1
  <1>2. CASE Finalize(MkParts(TRUE, {}, 0, Data(NoByte, {}, <<>>), <<>>, <<0, 0>>))
    <2>1. NoByte # 1
      BY NoByteAssumption
    <2>2. PartsOK(MkParts(TRUE, {}, 0, Data(NoByte, {}, <<>>), <<>>, <<0, 0>>))
      BY <2>1, MalformedPartsOK
    <2>3. QED
      BY <1>2, <2>2
  <1>3. CASE Finalize(MkParts(TRUE, {}, 16, Data(1, {}, <<>>), <<>>, <<0, 0>>))
    <2>1. PartsOK(MkParts(TRUE, {}, 16, Data(1, {}, <<>>), <<>>, <<0, 0>>))
      BY MalformedPartsOK
    <2>2. QED
      BY <1>3, <2>1
  <1>4. QED
    BY <1>1, <1>2, <1>3 DEF MalformedInput

\* Every step of the arena is one finalize_cell call on parts that satisfy
\* PartsOK.
LEMMA NextParts ==
  ASSUME TypeOK, Next
  PROVE  \E q : PartsOK(q) /\ Finalize(q)
  BY OrdinaryInputOK, PrunedInputOK, MerkleProofInputOK, MerkleUpdateInputOK,
     LibraryInputOK, MalformedInputOK DEF Next

-----------------------------------------------------------------------------
(* Depth is exact: the depth compute_hashes stores at a level is above the *)
(* depth of every child at the level the parent reads it.                  *)

\* The greatest significant level of mask m at or below l, or 0: the level
\* whose entry hash(l) and depth(l) return in a cell with mask m.
SelLevel(m, l) == MaskLevel({x \in m : x <= l})

\* A cell answers depth(a) and depth(b) alike when hash_index maps them to
\* the same entry.
LEMMA DepthByIndex ==
  ASSUME NEW c, NEW a, NEW b, HashIndex(c.mask, a) = HashIndex(c.mask, b)
  PROVE  CellDepthAt(c, a) = CellDepthAt(c, b)
  BY DEF CellDepthAt, StoredIndex

\* The selected level is significant.
LEMMA SelLevelSig ==
  ASSUME NEW m \in LevelMasks, NEW l \in AllLevels
  PROVE  /\ SelLevel(m, l) \in {0} \cup m
         /\ SelLevel(m, l) <= l
  BY DEF SelLevel, MaskLevel, LevelMasks, Levels, AllLevels

\* An ordinary cell reads a child at the level it is asked for; the child's
\* mask is within the parent's, so the child answers that level and the
\* parent's selected level from the same entry.
LEMMA ShiftOrdinary ==
  ASSUME NEW a \in LevelMasks, NEW m \in LevelMasks, a \subseteq m,
         NEW l \in AllLevels
  PROVE  HashIndex(a, l) = HashIndex(a, SelLevel(m, l))
  BY DEF HashIndex, SelLevel, MaskLevel, LevelMasks, Levels, AllLevels

\* A merkle cell has the virtualized mask of its children and reads them
\* one level up: the child answers the level above l (l itself at 3) and
\* the level above the parent's selected level from the same entry.
LEMMA ShiftMerkle ==
  ASSUME NEW a \in LevelMasks, NEW m \in LevelMasks, a \subseteq m,
         NEW l \in AllLevels
  PROVE  HashIndex(a, IF l < 3 THEN l + 1 ELSE l)
           = HashIndex(a, SelLevel(Virtualize(m), l) + 1)
  BY DEF HashIndex, SelLevel, MaskLevel, Virtualize, LevelMasks, Levels, AllLevels

\* The entries compute_hashes pushes for a cell that is not a pruned
\* branch, given the hashes h0..h3 of the unrolled level loop.
HashEntries(p, h0, h1, h2, h3) ==
  <<<<h0, LevelDepth(p, 0)>>>>
  \o (IF 1 \in p.mask THEN <<<<h1, LevelDepth(p, 1)>>>> ELSE <<>>)
  \o (IF 2 \in p.mask THEN <<<<h2, LevelDepth(p, 2)>>>> ELSE <<>>)
  \o (IF 3 \in p.mask THEN <<<<h3, LevelDepth(p, 3)>>>> ELSE <<>>)

\* The depth a cell that is not a pruned branch reports at level l is the
\* depth compute_hashes computed at the selected level.
LEMMA HashesSel ==
  ASSUME NEW p, NEW l \in AllLevels,
         p.mask \in LevelMasks,
         PartsType(p) # "PrunedBranch"
  PROVE  ComputeHashes(p)[HashIndex(p.mask, l) + 1][2]
           = LevelDepth(p, SelLevel(p.mask, l))
  <1> DEFINE h0 == LevelHash(p, 0, p.data)
             h1 == IF 1 \in p.mask THEN LevelHash(p, 1, h0) ELSE h0
             h2 == IF 2 \in p.mask THEN LevelHash(p, 2, h1) ELSE h1
             h3 == IF 3 \in p.mask THEN LevelHash(p, 3, h2) ELSE h2
  <1>1. ComputeHashes(p) = HashEntries(p, h0, h1, h2, h3)
    BY DEF ComputeHashes, SigLevels, HashEntries
  <1>2. HashEntries(p, h0, h1, h2, h3)[HashIndex(p.mask, l) + 1][2]
          = LevelDepth(p, SelLevel(p.mask, l))
    <2>1. CASE 1 \in p.mask /\ 2 \in p.mask /\ 3 \in p.mask
      BY <2>1 DEF HashEntries, HashIndex, SelLevel, MaskLevel, AllLevels, LevelMasks, Levels
    <2>2. CASE 1 \in p.mask /\ 2 \in p.mask /\ 3 \notin p.mask
      BY <2>2 DEF HashEntries, HashIndex, SelLevel, MaskLevel, AllLevels, LevelMasks, Levels
    <2>3. CASE 1 \in p.mask /\ 2 \notin p.mask /\ 3 \in p.mask
      BY <2>3 DEF HashEntries, HashIndex, SelLevel, MaskLevel, AllLevels, LevelMasks, Levels
    <2>4. CASE 1 \in p.mask /\ 2 \notin p.mask /\ 3 \notin p.mask
      BY <2>4 DEF HashEntries, HashIndex, SelLevel, MaskLevel, AllLevels, LevelMasks, Levels
    <2>5. CASE 1 \notin p.mask /\ 2 \in p.mask /\ 3 \in p.mask
      BY <2>5 DEF HashEntries, HashIndex, SelLevel, MaskLevel, AllLevels, LevelMasks, Levels
    <2>6. CASE 1 \notin p.mask /\ 2 \in p.mask /\ 3 \notin p.mask
      BY <2>6 DEF HashEntries, HashIndex, SelLevel, MaskLevel, AllLevels, LevelMasks, Levels
    <2>7. CASE 1 \notin p.mask /\ 2 \notin p.mask /\ 3 \in p.mask
      BY <2>7 DEF HashEntries, HashIndex, SelLevel, MaskLevel, AllLevels, LevelMasks, Levels
    <2>8. CASE 1 \notin p.mask /\ 2 \notin p.mask /\ 3 \notin p.mask
      BY <2>8 DEF HashEntries, HashIndex, SelLevel, MaskLevel, AllLevels, LevelMasks, Levels
    <2>9. QED
      BY <2>1, <2>2, <2>3, <2>4, <2>5, <2>6, <2>7, <2>8, Zenon
  <1>3. QED
    BY <1>1, <1>2

\* The k-th term of the max loop of compute_hashes at level l.
DepthTerm(p, k, l) == IF k <= Len(p.refs) THEN ChildDepth(p, k, l) + 1 ELSE 0

\* The max loop of compute_hashes: the depth at a level is above the depth
\* of every child read at it, when all of them are numbers.
LEMMA LevelDepthAbove ==
  ASSUME NEW p, NEW s, NEW C,
         p.refs \in Seq(C),
         Len(p.refs) <= MaxRefCount,
         \A j \in 1..Len(p.refs) : ChildDepth(p, j, s) \in Nat,
         NEW k \in 1..Len(p.refs)
  PROVE  LevelDepth(p, s) > ChildDepth(p, k, s)
  <1>0. Len(p.refs) \in Nat /\ Len(p.refs) <= 4
    BY LenProperties DEF MaxRefCount
  <1>1. /\ DepthTerm(p, 1, s) \in Nat /\ DepthTerm(p, 2, s) \in Nat
        /\ DepthTerm(p, 3, s) \in Nat /\ DepthTerm(p, 4, s) \in Nat
    BY <1>0 DEF DepthTerm
  <1>2. LevelDepth(p, s) = Max2(Max2(Max2(Max2(0, DepthTerm(p, 1, s)),
                               DepthTerm(p, 2, s)), DepthTerm(p, 3, s)),
                               DepthTerm(p, 4, s))
    BY DEF LevelDepth, DepthTerm
  <1>3. /\ LevelDepth(p, s) \in Nat
        /\ LevelDepth(p, s) >= DepthTerm(p, 1, s)
        /\ LevelDepth(p, s) >= DepthTerm(p, 2, s)
        /\ LevelDepth(p, s) >= DepthTerm(p, 3, s)
        /\ LevelDepth(p, s) >= DepthTerm(p, 4, s)
    BY <1>1, <1>2 DEF Max2
  <1>4. k \in 1..4 /\ DepthTerm(p, k, s) = ChildDepth(p, k, s) + 1
    BY <1>0 DEF DepthTerm
  <1>5. ChildDepth(p, k, s) \in Nat /\ DepthTerm(p, k, s) \in Nat
    BY <1>1, <1>4
  <1>6. LevelDepth(p, s) >= DepthTerm(p, k, s)
    <2>1. k = 1 \/ k = 2 \/ k = 3 \/ k = 4
      BY <1>4
    <2>2. QED
      BY <2>1, <1>3
  <1>7. QED
    BY <1>3, <1>4, <1>5, <1>6

-----------------------------------------------------------------------------

\* The empty arena is well typed.
LEMMA InitTypeOK ==
  ASSUME Init
  PROVE  TypeOK
  <1>1. arena = <<>> /\ result = "None"
    BY DEF Init
  <1>2. arena \in Seq({arena[i] : i \in DOMAIN arena})
    BY <1>1, EmptySeq
  <1>3. QED
    BY <1>1, <1>2 DEF TypeOK, Outcomes, Idx

\* Every step keeps the arena well typed.
LEMMA StepTypeOK ==
  ASSUME TypeOK, [Next]_vars
  PROVE  TypeOK'
  <1>1. CASE Next
    <2>1. PICK q : PartsOK(q) /\ Finalize(q)
      BY <1>1, NextParts
    <2>2. QED
      BY <2>1, FinalizeOK
  <1>2. CASE UNCHANGED vars
    BY <1>2 DEF TypeOK, vars, Idx, DepthAt
  <1>3. QED
    BY <1>1, <1>2

\* Type correctness of finalize_cell (compute_hashes with its checked_add
\* depth check): in every reachable arena each cell has a known type and
\* mask, refers only to earlier cells, and every depth fits its width.
THEOREM TypeCorrect == Spec => []TypeOK
  <1>1. Init => TypeOK
    BY InitTypeOK
  <1>2. TypeOK /\ [Next]_vars => TypeOK'
    BY StepTypeOK
  <1>3. QED
    BY <1>1, <1>2, PTL DEF Spec

-----------------------------------------------------------------------------
(* Depth is exact in every arena.                                          *)

\* The level at which a cell of type t reads its children when asked for
\* level l (DepthExceedsChildren's up).
UpLevel(t, l) == IF IsMerkle(t) /\ l < 3 THEN l + 1 ELSE l

\* A cell that finalize_cell accepts with a reference at position k is an
\* ordinary or merkle cell, deeper at every level than the child there at
\* the level it reads.
LEMMA NewCellExceeds ==
  ASSUME TypeOK, NEW p, PartsOK(p), Outcome(p) = "Ok",
         NEW l \in AllLevels, NEW k \in DOMAIN p.refIdx
  PROVE  CellDepthAt(NewCell(p), l)
           > DepthAt(p.refIdx[k], UpLevel(PartsType(p), l))
  <1> DEFINE r == p.refIdx[k]
             s == SelLevel(p.mask, l)
  <1>1. ValidParts(p) /\ ~DepthOverflow(p)
    BY DEF Outcome
  <1>2. /\ Len(p.refIdx) \in Nat /\ k \in 1..Len(p.refIdx) /\ r \in Idx
        /\ p.refs \in Seq({arena[i] : i \in Idx})
        /\ Len(p.refs) = Len(p.refIdx)
        /\ p.refs[k] = arena[r]
    BY LenProperties DEF PartsOK, Children
  <1>3. PartsType(p) \in {"Ordinary", "MerkleProof", "MerkleUpdate"}
    <2>1. p.refs # <<>>
      BY <1>2
    <2>2. QED
      BY <1>1, <2>1 DEF ValidParts, LayoutOK, CellTypes
  <1>4. arena[r].mask \in LevelMasks /\ arena[r].mask \subseteq p.childrenMask
    BY <1>2 DEF TypeOK, PartsOK, ChildrenMaskOf
  <1>5. s \in SigLevels(p) /\ s <= l
    BY <1>3, SelLevelSig DEF PartsOK, SigLevels
  <1>6. CellDepthAt(NewCell(p), l) = LevelDepth(p, s)
    <2>1. ~StoredIndex(NewCell(p), l)
      BY <1>3 DEF StoredIndex, NewCell
    <2>2. QED
      BY <1>3, <2>1, HashesSel DEF CellDepthAt, NewCell, PartsOK
  <1>7. ChildDepth(p, k, s) = DepthAt(r, UpLevel(PartsType(p), l))
    <2>1. ChildDepth(p, k, s) = CellDepthAt(arena[r], s + LevelOffset(p))
      BY <1>2 DEF ChildDepth
    <2>2. HashIndex(arena[r].mask, s + LevelOffset(p))
            = HashIndex(arena[r].mask, UpLevel(PartsType(p), l))
      <3>1. CASE PartsType(p) = "Ordinary"
        <4>1. p.mask = p.childrenMask
          BY <1>1, <3>1 DEF ValidParts, ComputedMask, IsMerkle
        <4>2. HashIndex(arena[r].mask, l) = HashIndex(arena[r].mask, s)
          BY <1>4, <4>1, ShiftOrdinary DEF PartsOK
        <4>3. LevelOffset(p) = 0 /\ UpLevel(PartsType(p), l) = l
          BY <3>1 DEF LevelOffset, UpLevel, IsMerkle
        <4>4. s \in Nat
          BY SelLevelSig DEF PartsOK, LevelMasks, Levels
        <4>5. QED
          BY <4>2, <4>3, <4>4
      <3>2. CASE IsMerkle(PartsType(p))
        <4>1. p.mask = Virtualize(p.childrenMask)
          BY <1>1, <3>2 DEF ValidParts, ComputedMask, IsMerkle
        <4>2. HashIndex(arena[r].mask, IF l < 3 THEN l + 1 ELSE l)
                = HashIndex(arena[r].mask, SelLevel(Virtualize(p.childrenMask), l) + 1)
          BY <1>4, ShiftMerkle DEF PartsOK
        <4>3. LevelOffset(p) = 1
              /\ UpLevel(PartsType(p), l) = IF l < 3 THEN l + 1 ELSE l
          BY <3>2 DEF LevelOffset, UpLevel
        <4>4. QED
          BY <4>1, <4>2, <4>3
      <3>3. QED
        BY <1>3, <3>1, <3>2 DEF IsMerkle
    <2>3. QED
      BY <2>1, <2>2, DepthByIndex DEF DepthAt
  <1>8. LevelDepth(p, s) > ChildDepth(p, k, s)
    <2>1. \A j \in 1..Len(p.refs) : ChildDepth(p, j, s) \in Nat
      BY <1>1, <1>5, ChildDepthOK
    <2>2. QED
      BY <1>2, <2>1, LevelDepthAbove DEF PartsOK
  <1>9. QED
    BY <1>6, <1>7, <1>8

\* finalize_cell keeps every cell deeper than its children: a rejected
\* call changes no cell, the cell an accepted call appends satisfies
\* NewCellExceeds, and the cells before it and their children are unchanged.
LEMMA FinalizeExceeds ==
  ASSUME TypeOK, DepthExceedsChildren, NEW p, PartsOK(p), Finalize(p)
  PROVE  DepthExceedsChildren'
  <1>1. CASE FinalizeRejected(p)
    BY <1>1 DEF FinalizeRejected, DepthExceedsChildren, DepthAt, Idx
  <1>2. CASE FinalizeAccepted(p)
    <2> DEFINE c == NewCell(p)
               n == Len(arena) + 1
    <2>1. Outcome(p) = "Ok" /\ arena' = Append(arena, c)
      BY <1>2 DEF FinalizeAccepted
    <2>2. /\ Len(arena') = n
          /\ \A i \in 1..(n - 1) : arena'[i] = arena[i]
          /\ arena'[n] = c
      <3> DEFINE R == {arena[i] : i \in DOMAIN arena}
      <3>1. arena \in Seq(R \cup {c}) /\ c \in R \cup {c}
        BY SeqMonotonic DEF TypeOK
      <3>2. QED
        BY <2>1, <3>1, AppendProperties
    <2> SUFFICES ASSUME NEW i \in 1..n, NEW l \in AllLevels,
                        NEW k \in DOMAIN arena'[i].refs
                 PROVE  CellDepthAt(arena'[i], l)
                          > CellDepthAt(arena'[arena'[i].refs[k]],
                                        UpLevel(arena'[i].type, l))
      BY <2>2 DEF DepthExceedsChildren, Idx, DepthAt, UpLevel
    <2>3. CASE i = n
      <3>1. arena'[i] = c /\ c.refs = p.refIdx /\ c.type = PartsType(p)
        BY <2>2, <2>3 DEF NewCell
      <3>2. k \in DOMAIN p.refIdx /\ p.refIdx[k] \in 1..(n - 1)
        BY <3>1, LenProperties DEF PartsOK, Idx
      <3>3. arena'[p.refIdx[k]] = arena[p.refIdx[k]]
        BY <2>2, <3>2
      <3>4. QED
        BY <2>1, <3>1, <3>2, <3>3, NewCellExceeds DEF DepthAt
    <2>4. CASE i # n
      <3>1. i \in Idx /\ arena'[i] = arena[i]
        BY <2>2, <2>4 DEF Idx
      <3>2. k \in DOMAIN arena[i].refs /\ arena[i].refs[k] \in 1..(i - 1)
        <4>1. arena[i].refs \in Seq(1..i - 1)
          BY <3>1 DEF TypeOK
        <4>2. k \in DOMAIN arena[i].refs
          BY <3>1, Zenon
        <4>3. k \in 1..Len(arena[i].refs)
          BY <4>1, <4>2, LenProperties
        <4>4. arena[i].refs[k] \in 1..(i - 1)
          BY <4>1, <4>3, ElementOfSeq
        <4>5. QED
          BY <4>2, <4>4
      <3>3. arena[i].refs[k] \in Idx
            /\ arena'[arena[i].refs[k]] = arena[arena[i].refs[k]]
        BY <2>2, <3>1, <3>2 DEF Idx
      <3>4. QED
        BY <3>1, <3>2, <3>3 DEF DepthExceedsChildren, DepthAt, UpLevel
    <2>5. QED
      BY <2>3, <2>4
  <1>3. QED
    BY <1>1, <1>2 DEF Finalize

\* The inductive invariant of depth exactness: DepthExceedsChildren needs
\* TypeOK to know that the depths of the children are numbers and that
\* their masks lie within the children mask.
DepthInv == TypeOK /\ DepthExceedsChildren

\* Depth is exact (the max loop of compute_hashes and its checked_add): in
\* every reachable arena, for every width and bound, a cell is strictly
\* deeper at every level than each child at the level it reads it.
THEOREM DepthExact == Spec => []DepthExceedsChildren
  <1>1. Init => DepthInv
    <2> SUFFICES ASSUME Init PROVE DepthInv
      OBVIOUS
    <2>1. Idx = {}
      BY DEF Init, Idx
    <2>2. QED
      BY <2>1, InitTypeOK DEF DepthInv, DepthExceedsChildren
  <1>2. DepthInv /\ [Next]_vars => DepthInv'
    <2> SUFFICES ASSUME DepthInv, [Next]_vars PROVE DepthInv'
      OBVIOUS
    <2>1. TypeOK'
      BY StepTypeOK DEF DepthInv
    <2>2. CASE Next
      <3>1. PICK q : PartsOK(q) /\ Finalize(q)
        BY <2>2, NextParts DEF DepthInv
      <3>2. QED
        BY <2>1, <3>1, FinalizeExceeds DEF DepthInv
    <2>3. CASE UNCHANGED vars
      BY <2>1, <2>3 DEF DepthInv, DepthExceedsChildren, vars, Idx, DepthAt
    <2>4. QED
      BY <2>2, <2>3
  <1>3. QED
    BY <1>1, <1>2, PTL DEF Spec, DepthInv

====
