---------------------------- MODULE MCArcLattice ----------------------------
(* ArcLattice for TLC. *)
EXTENDS ArcLattice
=============================================================================
