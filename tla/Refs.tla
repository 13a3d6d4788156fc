-------------------------------- MODULE Refs ---------------------------------
(***************************************************************************)
(* Builder and slice primitives for references (not under src/): a cell    *)
(* has at most 4 references; as_slice refuses an exotic cell.  A builder   *)
(* gains a field refs, a slice the fields refs and rpos.                   *)
(***************************************************************************)
EXTENDS Address

MaxRefs == 4

StoreRef(r, c) ==
  IF r.err # "ok" THEN r
  ELSE IF Len(r.refs) >= MaxRefs THEN Fail(r, "CellOverflow")
  ELSE [r EXCEPT !.refs = Append(@, c)]

LoadRef(s) ==
  IF s.err # "ok" THEN s
  ELSE IF s.rpos >= Len(s.refs) THEN Fail(s, "CellUnderflow")
  ELSE [s EXCEPT !.rpos = @ + 1, !.val = s.refs[s.rpos + 1]]

\* CellSlice over a cell, for a cell that is not exotic.
SliceOf(c) == [bits |-> c.bits, refs |-> c.refs, pos |-> 0, rpos |-> 0, err |-> "ok", val |-> 0]

\* try_advance(bits, refs): skips what is there, or does nothing and fails.
TryAdvance(s, bits, refs) ==
  s.pos + bits <= Len(s.bits) /\ s.rpos + refs <= Len(s.refs)

Advance(s, bits, refs) == [s EXCEPT !.pos = @ + bits, !.rpos = @ + refs]

=============================================================================
