----------------------------- MODULE OutActions -------------------------------
(***************************************************************************)
(* The output action list of src/models/vm/out_actions.rs.  The list is    *)
(* kept reversed, as TVM's c5 holds it: each list cell has the previous    *)
(* list cell as its first reference, followed by one OutAction; the empty  *)
(* list is the empty cell.                                                 *)
(*                                                                         *)
(*   out_list_empty$_ = OutList 0;                                         *)
(*   out_list$_ {n:#} prev:^(OutList n) action:OutAction = OutList (n + 1);*)
(*                                                                         *)
(* Cells are entries of an arena [bits, refs, exotic] and a reference is   *)
(* an index into it.  The cells an action refers to (a message, new code,  *)
(* a library) are opaque cells of the arena.  A CurrencyCollection (not    *)
(* under src/) is an opaque payload of CurrencyBits bits.                  *)
(***************************************************************************)
EXTENDS Refs

CONSTANTS
  CurrencyBits,  \* bits of the opaque CurrencyCollection payload
  Actions,       \* the actions the program pushes
  MaxPushes      \* bound on the list cells made

ASSUME OutActionsAssumption == CurrencyBits \in Nat /\ MaxPushes \in Nat

\* The 32 bits of a u32 tag given by its 8 hexadecimal digits.
Hex32(d) == [i \in 1..32 |-> (d[(i - 1) \div 4 + 1] \div 2^(3 - ((i - 1) % 4))) % 2]

TAG_SEND_MSG   == Hex32(<<0, 14, 12, 3, 12, 8, 6, 13>>)    \* 0x0ec3c86d
TAG_SET_CODE   == Hex32(<<10, 13, 4, 13, 14, 0, 8, 14>>)   \* 0xad4de08e
TAG_RESERVE    == Hex32(<<3, 6, 14, 6, 11, 8, 0, 9>>)      \* 0x36e6b809
TAG_CHANGE_LIB == Hex32(<<2, 6, 15, 10, 1, 13, 13, 4>>)    \* 0x26fa1dd4
TAG_COPYLEFT   == Hex32(<<2, 4, 4, 8, 6, 15, 7, 10>>)      \* 0x24486f7a

-----------------------------------------------------------------------------
(* OutAction::store_into.  An action is a record whose kind names the      *)
(* variant; a LibRef is [hash |-> bits] or [cell |-> reference].           *)

StoreU8(r, v) == StoreUint(r, v, 8)

StoreOutAction(r, a) ==
  CASE a.kind = "SendMsg" ->
         StoreRef(StoreU8(StoreBits(r, TAG_SEND_MSG), a.mode), a.msg)
    [] a.kind = "SetCode" ->
         StoreRef(StoreBits(r, TAG_SET_CODE), a.code)
    [] a.kind = "ReserveCurrency" ->
         StoreBits(StoreU8(StoreBits(r, TAG_RESERVE), a.mode), a.value)
    [] a.kind = "ChangeLibrary" /\ "hash" \in DOMAIN a.lib ->
         StoreBits(StoreU8(StoreBits(r, TAG_CHANGE_LIB), (a.mode * 2) % 256), a.lib.hash)
    [] a.kind = "ChangeLibrary" ->
         StoreRef(StoreU8(StoreBits(r, TAG_CHANGE_LIB), ((a.mode * 2) % 256) + 1), a.lib.cell)
    [] a.kind = "CopyLeft" ->
         StoreBits(StoreU8(StoreBits(r, TAG_COPYLEFT), a.license), a.address)

-----------------------------------------------------------------------------
(* OutAction::load_from.                                                   *)

\* ChangeLibraryMode::try_from: 0, 1, 2, or InvalidData (-1).
ChangeLibraryModeOf(v) == IF v \in 0..2 THEN v ELSE -1

\* Each variant after its tag: s is the slice after the tag.
LoadSendMsg(s) ==
  LET s1 == LoadUint(s, 8)
      s2 == LoadRef(s1)
  IN  [s2 EXCEPT !.val = [kind |-> "SendMsg", mode |-> s1.val, msg |-> s2.val]]

LoadSetCode(s) ==
  LET s1 == LoadRef(s)
  IN  [s1 EXCEPT !.val = [kind |-> "SetCode", code |-> s1.val]]

LoadReserve(s) ==
  LET s1 == LoadUint(s, 8)
      s2 == LoadBits(s1, CurrencyBits)
  IN  [s2 EXCEPT !.val = [kind |-> "ReserveCurrency", mode |-> s1.val, value |-> s2.val]]

\* Mutant: the mode is taken from the whole flag byte, not from flags >> 1.
LoadChangeLibNoShift(s) ==
  LET s1 == LoadUint(s, 8)
      mode == ChangeLibraryModeOf(s1.val)
      s2 == IF s1.val % 2 = 0 THEN LoadBits(s1, 256) ELSE LoadRef(s1)
      lib == IF s1.val % 2 = 0 THEN [hash |-> s2.val] ELSE [cell |-> s2.val]
  IN  IF s1.err # "ok" THEN s1
      ELSE IF mode = -1 THEN Fail(s1, "InvalidData")
      ELSE [s2 EXCEPT !.val = [kind |-> "ChangeLibrary", mode |-> mode, lib |-> lib]]

LoadChangeLib(s) ==
  LET s1 == LoadUint(s, 8)
      mode == ChangeLibraryModeOf(s1.val \div 2)
      s2 == IF s1.val % 2 = 0 THEN LoadBits(s1, 256) ELSE LoadRef(s1)
      lib == IF s1.val % 2 = 0 THEN [hash |-> s2.val] ELSE [cell |-> s2.val]
  IN  IF s1.err # "ok" THEN s1
      ELSE IF mode = -1 THEN Fail(s1, "InvalidData")
      ELSE [s2 EXCEPT !.val = [kind |-> "ChangeLibrary", mode |-> mode, lib |-> lib]]

LoadCopyLeft(s) ==
  LET s1 == LoadUint(s, 8)
      s2 == LoadBits(s1, 256)
  IN  [s2 EXCEPT !.val = [kind |-> "CopyLeft", license |-> s1.val, address |-> s2.val]]

LoadOutAction(s) ==
  LET s1 == LoadBits(s, 32)
  IN  CASE s1.err # "ok"               -> s1
        [] s1.val = TAG_SEND_MSG   -> LoadSendMsg(s1)
        [] s1.val = TAG_SET_CODE   -> LoadSetCode(s1)
        [] s1.val = TAG_RESERVE    -> LoadReserve(s1)
        [] s1.val = TAG_CHANGE_LIB -> LoadChangeLib(s1)
        [] s1.val = TAG_COPYLEFT   -> LoadCopyLeft(s1)
        [] OTHER                   -> Fail(s1, "InvalidTag")

-----------------------------------------------------------------------------
(* The program: it makes an action list one cell at a time, then walks it  *)
(* with OutActionsRevIter until the iterator returns None or an error (as  *)
(* collect::<Result<Vec<_>, _>>() does).  Besides the cells Push makes, a  *)
(* list may hold cells that no OutAction::store_into made: c5 is whatever  *)
(* the contract left there.                                                *)

VARIABLES
  arena,    \* the cells
  head,     \* the head of the list: the cell of the last action
  pushed,   \* the actions pushed, oldest first
  intact,   \* every list cell was made by Push on the previous head
  phase,    \* "build", then "iter"
  slice,    \* the iterator's slice
  yielded,  \* what each next() returned
  done      \* next() returned None or an error

vars == <<arena, head, pushed, intact, phase, slice, yielded, done>>

EmptyCell == [bits |-> <<>>, refs |-> <<>>, exotic |-> FALSE]

\* The cells of the arena at the start: the empty list, an opaque ordinary
\* cell (a message, code or library) and an exotic cell (a pruned branch).
EmptyIdx == 1
PayloadIdx == 2
ExoticIdx == 3

Init ==
  /\ arena = <<EmptyCell,
               [bits |-> <<1, 0, 1>>, refs |-> <<>>, exotic |-> FALSE],
               [bits |-> Zeros(8), refs |-> <<>>, exotic |-> TRUE]>>
  /\ head = EmptyIdx
  /\ pushed = <<>>
  /\ intact = TRUE
  /\ phase = "build"
  /\ slice = SliceOf(EmptyCell)
  /\ yielded = <<>>
  /\ done = FALSE

IterVars == <<phase, slice, yielded, done>>

\* A new list cell: the previous head as first reference, then the action.
\* prev is the current head, or an exotic cell in place of it.
Push(a) ==
  /\ phase = "build" /\ Len(arena) < 3 + MaxPushes
  /\ \E prev \in {head, ExoticIdx} :
     LET r == StoreOutAction(StoreRef([bits |-> <<>>, refs |-> <<>>, err |-> "ok"], prev), a)
     IN  /\ r.err = "ok"
         /\ arena' = Append(arena, [bits |-> r.bits, refs |-> r.refs, exotic |-> FALSE])
         /\ intact' = (intact /\ prev = head)
  /\ head' = Len(arena) + 1
  /\ pushed' = Append(pushed, a)
  /\ UNCHANGED IterVars

\* A list cell that is not a list cell: data and no reference, or a
\* reference to the previous head followed by an unknown tag.
PushMalformed(kind) ==
  /\ phase = "build" /\ Len(arena) < 3 + MaxPushes
  /\ arena' = Append(arena, IF kind = "noRef"
                            THEN [bits |-> <<1>>, refs |-> <<>>, exotic |-> FALSE]
                            ELSE [bits |-> Zeros(32), refs |-> <<head>>, exotic |-> FALSE])
  /\ head' = Len(arena) + 1
  /\ intact' = FALSE
  /\ UNCHANGED <<pushed, IterVars>>

\* OutActionsRevIter::new over the head cell.
StartIter ==
  /\ phase = "build"
  /\ phase' = "iter"
  /\ slice' = SliceOf(arena[head])
  /\ UNCHANGED <<arena, head, pushed, intact, yielded, done>>

Ok(a) == [r |-> "Ok", a |-> a]
Err(e) == [r |-> "Err", e |-> e]
NoneItem == [r |-> "None"]

\* Mutant: a list cell without a reference ends the list, whatever data
\* it holds.
IterNextNoEmptyCheck ==
  LET s1 == LoadRef(slice)
      s2 == LoadOutAction(s1)
      prev == arena[s1.val]
      item == IF s1.err # "ok" THEN NoneItem
              ELSE IF s2.err # "ok" THEN Err(s2.err)
              ELSE IF prev.exotic THEN Err("UnexpectedExoticCell")
              ELSE Ok(s2.val)
  IN  /\ phase = "iter" /\ ~done
      /\ yielded' = Append(yielded, item)
      /\ slice' = IF item.r = "Ok" THEN SliceOf(prev) ELSE s2
      /\ done' = (item.r # "Ok")
      /\ UNCHANGED <<arena, head, pushed, intact, phase>>

\* OutActionsRevIter::next.
IterNext ==
  LET s1 == LoadRef(slice)
      s2 == LoadOutAction(s1)
      prev == arena[s1.val]
      item == IF s1.err # "ok"
              THEN IF slice.pos = Len(slice.bits) /\ slice.rpos = Len(slice.refs)
                   THEN NoneItem ELSE Err("InvalidData")
              ELSE IF s2.err # "ok" THEN Err(s2.err)
              ELSE IF prev.exotic THEN Err("UnexpectedExoticCell")
              ELSE Ok(s2.val)
  IN  /\ phase = "iter" /\ ~done
      /\ yielded' = Append(yielded, item)
      /\ slice' = IF item.r = "Ok" THEN SliceOf(prev) ELSE s2
      /\ done' = (item.r # "Ok")
      /\ UNCHANGED <<arena, head, pushed, intact, phase>>

Next ==
  \/ \E a \in Actions : Push(a)
  \/ \E kind \in {"noRef", "badTag"} : PushMalformed(kind)
  \/ StartIter
  \/ IterNext

Spec == Init /\ [][Next]_vars

-----------------------------------------------------------------------------
(* Properties.                                                             *)

\* Walking a list that Push made returns the actions newest first, each as
\* it was stored, then None: the previous cell is always the first
\* reference, so an action's own references (a message, code, a library)
\* are never taken for the rest of the list.
RevIterReturnsPushed ==
  intact =>
    \A i \in 1..Len(yielded) :
      yielded[i] = IF i <= Len(pushed) THEN Ok(pushed[Len(pushed) + 1 - i]) ELSE NoneItem

\* A list holding a cell that no Push made never ends quietly: the walk
\* ends with an error, not with None, so a malformed c5 is never read as a
\* shorter list.
MalformedListFails ==
  done /\ ~intact => yielded[Len(yielded)].r = "Err"

=============================================================================
