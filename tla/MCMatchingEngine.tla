-------------------------- MODULE MCMatchingEngine --------------------------
(***************************************************************************)
(* Small engines for TLC.  Names of orders are interchangeable,            *)
(* and so are instruments.                                                 *)
(***************************************************************************)
EXTENDS MatchingEngine

Symmetry == Permutations(ClientOrderId) \cup Permutations(Instrument)
=============================================================================
