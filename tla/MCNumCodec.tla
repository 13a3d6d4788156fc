------------------------------ MODULE MCNumCodec -----------------------------
(* TLC instance of NumCodec with one-bit bytes: u32 is 4 bits, u64 8 and   *)
(* u128 16, so every split point of store_u128 and VarUint248 is reached   *)
(* with small numbers.  The inputs sit at the edges: 0, the largest value  *)
(* of each byte count, MAX and MAX + 1, words with and without a high part. *)
EXTENDS NumCodec

MCInputs ==
  [VarUint24 |-> {0, 1, 7, 8},
   VarUint56 |-> {0, 127, 128},
   Tokens |-> {0, 255, 256, 2^15 - 1, 2^15},
   VarUint248 |-> {<<0, 0>>, <<0, 2^16 - 1>>, <<1, 0>>, <<2^15 - 1, 2^16 - 1>>, <<2^15, 0>>},
   Uint9 |-> {0, 511, 512},
   Uint12 |-> {4095},
   Uint15 |-> {2^15},
   SplitDepth |-> {0, 1, 30, 31, 32, 33}]

(* With two-bit bytes a value needs a whole number of bytes, so            *)
(* leading_zeros / 8 rounds: 5 = 0101 takes one byte of u32's four, 4 and  *)
(* 3 differ in their top byte.  u128 would be 32 bits, beyond TLC's        *)
(* integers, so the types built on it are left out.                       *)
MCInputsWideBytes ==
  [VarUint24 |-> {0, 1, 2, 3, 4, 5, 63, 64},
   VarUint56 |-> {3, 4, 2^14 - 1, 2^14},
   Uint9 |-> {511},
   SplitDepth |-> {30}]

=============================================================================
