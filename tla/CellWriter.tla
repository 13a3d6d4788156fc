------------------------------ MODULE CellWriter -------------------------------
(***************************************************************************)
(* What a cell builder promises the code that stores values into it (the  *)
(* object/cell codec contract of the spec): the cell grows by whole items, *)
(* each taking exactly the bits its size counts; a store that would take  *)
(* the cell past Cap bits fails with CellOverflow and leaves no partial    *)
(* output; a store that fits succeeds.  Once the cell is built, nothing is *)
(* written any more.                                                       *)
(***************************************************************************)
EXTENDS Naturals, Sequences

CONSTANTS
  Cap,      \* the bits a cell holds
  Items,    \* the values that can be stored
  Size      \* Size[x]: the bits a store of x takes

VARIABLES
  used,     \* the bits written so far
  items,    \* the values stored, in order
  open,     \* TRUE until the cell is built
  result    \* the result of the last call on the builder

vars == <<used, items, open, result>>

Init ==
  /\ used = 0
  /\ items = <<>>
  /\ open = TRUE
  /\ result = "ok"

\* A store of x: all of it, or nothing and CellOverflow.
Put(x) ==
  /\ open
  /\ IF used + Size[x] <= Cap
     THEN /\ used' = used + Size[x]
          /\ items' = Append(items, x)
          /\ result' = "ok"
     ELSE /\ result' = "CellOverflow"
          /\ UNCHANGED <<used, items>>
  /\ UNCHANGED open

\* The cell is built: build returns Ok and the builder is gone.
Build ==
  /\ open
  /\ open' = FALSE
  /\ result' = "ok"
  /\ UNCHANGED <<used, items>>

Next == (\E x \in Items : Put(x)) \/ Build

Spec == Init /\ [][Next]_vars

=============================================================================
