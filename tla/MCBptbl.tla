------------------------------- MODULE MCBptbl -------------------------------
(* Bptbl for TLC: single-phone words have no right contexts. *)
EXTENDS Bptbl

NoneOrTwo == {0, 2}
OnlyOne == {1}
=============================================================================
