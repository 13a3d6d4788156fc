----------------------------- MODULE MCAddrCodec ------------------------------
(* TLC instance of AddrCodec with the real cell capacity of 1023 bits, so  *)
(* that three standard addresses fit and a fourth overflows.  Account ids *)
(* have ones at the edges of the 3-bit shift and of the u128 halves.      *)
EXTENDS AddrCodec

\* 256 bits with ones at the given positions.
Id(ones) == [i \in 1..256 |-> IF i \in ones THEN 1 ELSE 0]

AllOnes == Id(1..256)
EdgeId == Id({1, 5, 6, 123, 128, 129, 133, 251, 256})

StdA(anycast, wc, id) == [kind |-> "std", anycast |-> anycast, workchain |-> wc, address |-> id]

MCAddrs ==
  { StdA(<<>>, -1, EdgeId),
    StdA(<<[depth |-> 31, prefix |-> [i \in 1..31 |-> IF i \in {1, 31} THEN 1 ELSE 0]]>>, 0, AllOnes),
    [kind |-> "var", anycast |-> <<[depth |-> 1, prefix |-> <<1>>]>>, len |-> 9,
     workchain |-> BitsOf(-2, 32), address |-> <<1, 0, 0, 0, 0, 0, 0, 0, 1>>],
    [kind |-> "var", anycast |-> <<>>, len |-> 0,
     workchain |-> BitsOf(7, 32), address |-> <<>>] }

\* A VarAddr whose address_len, made with Uint9::new(600), is not a valid
\* Uint9: bit_len() counts 644 bits, which fit in an empty cell.
WideLenAddrs ==
  {[kind |-> "var", anycast |-> <<>>, len |-> 600,
    workchain |-> BitsOf(7, 32), address |-> [i \in 1..600 |-> 1]]}

MCKeyAddrs ==
  {StdA(<<>>, wc, id) : wc \in {-1, 0, 127, -128}, id \in {EdgeId, AllOnes}}

MCPads == {<<0, 0, 0, 0, 0>>, <<1, 1, 1, 1, 1>>}

MCPrefixes == {<<>>, <<1>>, <<1, 0, 1>>}

NoPrefixes == {}

=============================================================================
