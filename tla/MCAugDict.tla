------------------------------ MODULE MCAugDict -------------------------------
(* TLC instance of AugDict: keys of 3 bits, Tokens of 0 to 3 bytes, and    *)
(* trailers with and without bits and references.                          *)
EXTENDS AugDict

MCExtras == {0, 1, 255, 256}
MCValues == {0, 2^16}
MCTrailers == {[bits |-> <<>>, refs |-> <<>>], [bits |-> <<1, 0, 1>>, refs |-> <<"next">>]}

=============================================================================
