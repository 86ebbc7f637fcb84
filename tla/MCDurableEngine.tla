--------------------------- MODULE MCDurableEngine ---------------------------
(***************************************************************************)
(* Small durable engines for TLC.                                          *)
(***************************************************************************)
EXTENDS DurableEngine

CONSTANTS alice, k1, k2

Symmetry == Permutations(ClientOrderId)
===============================================================================
