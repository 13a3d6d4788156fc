----------------------------- MODULE MCCellArena ----------------------------
(* TLC instance of CellArena: 2-bit depths so that DepthOverflow is       *)
(* reached by a chain of four cells.                                      *)
EXTENDS CellArena

CONSTANTS t1

MCTokens == {t1}

=============================================================================
