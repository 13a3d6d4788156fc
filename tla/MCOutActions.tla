----------------------------- MODULE MCOutActions -----------------------------
(* TLC instance of OutActions: one action of each variant, both kinds of  *)
(* library reference, modes at the edges of their flag bytes.             *)
EXTENDS OutActions

Hash(ones) == [i \in 1..256 |-> IF i \in ones THEN 1 ELSE 0]

MCActions ==
  { [kind |-> "SendMsg", mode |-> 0, msg |-> PayloadIdx],
    [kind |-> "SendMsg", mode |-> 255, msg |-> ExoticIdx],
    [kind |-> "SetCode", code |-> PayloadIdx],
    [kind |-> "ReserveCurrency", mode |-> 15, value |-> <<1, 0, 0, 1>>],
    [kind |-> "ChangeLibrary", mode |-> 2, lib |-> [hash |-> Hash({1, 256})]],
    [kind |-> "ChangeLibrary", mode |-> 1, lib |-> [cell |-> PayloadIdx]],
    [kind |-> "CopyLeft", license |-> 128, address |-> Hash({})] }

=============================================================================
