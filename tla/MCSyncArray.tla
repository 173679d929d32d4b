------------------------------ MODULE MCSyncArray ------------------------------
(***************************************************************************)
(* Small instances of SyncArrayClients for TLC.                            *)
(***************************************************************************)
EXTENDS SyncArrayClients, TLC

CONSTANTS c1, c2, c3

TwoConsumers   == {c1, c2}
ThreeConsumers == {c1, c2, c3}

ConsumerSymmetry == Permutations(Consumers)
=============================================================================
