---------------------------- MODULE TableContract ----------------------------
(***************************************************************************)
(* What the arc buffer needs of its producer's backpointer table           *)
(* (multisphinx/multisphinx/bptbl.c), as far as it looks at it: the start  *)
(* frames of the retired entries and bptbl_active_sf.  ArcBuffer is built  *)
(* on these steps, Bptbl is checked to take no others.                     *)
(***************************************************************************)
EXTENDS Integers, Sequences

VARIABLES
  retired,   (* start frames of the retired entries, in order              *)
  bpSf       (* bptbl_active_sf: no active entry starts before it          *)

tableVars == <<retired, bpSf>>

TableInit == retired = <<>> /\ bpSf = 0

TableReset == retired' = <<>> /\ bpSf' = 0

(* bptbl_push_frame of frame n, with its garbage collection: the entry     *)
(* oldest_bp ended in an earlier frame and stays active, and what is       *)
(* retired ended before it did.  bptbl_active_sf is the frame after the end*)
(* of some retired entry, and may move even when all that was collected is *)
(* dropped.  At most room entries are retired.                             *)
TablePush(n, room) ==
  \/ UNCHANGED tableVars
  \/ \E k \in 0 .. room : \E new \in [1 .. k -> bpSf .. (n - 2)] :
       /\ retired' = retired \o new
       /\ bpSf' \in bpSf .. (n - 1)
       /\ retired' = <<>> => bpSf' = 0

(* bptbl_finalize after n frames keeps what is reachable from the entries  *)
(* of the last frame and those entries, and bptbl_active_sf moves past the *)
(* last of them.                                                           *)
TableFinalize(n, room) ==
  \E k \in 1 .. room : \E new \in [1 .. k -> bpSf .. (n - 1)] :
    /\ retired' = retired \o new
    /\ bpSf' = n

(* When no word ends in the last frame it keeps nothing: what was still    *)
(* active is dropped, and bptbl_active_sf moves past what was retired.     *)
TableFinalizeWithoutExit(n) ==
  /\ retired' = retired
  /\ bpSf' \in bpSf .. (n - 1) \cup {bpSf}
  /\ retired = <<>> => bpSf' = 0
  /\ \A i \in DOMAIN retired : retired[i] < bpSf'
=============================================================================
