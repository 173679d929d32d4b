------------------------------ MODULE Multicast -------------------------------
(***************************************************************************)
(* What sync_array.h promises of a synchronized array, with no counts: a   *)
(* sender numbers the elements it sends until it closes the channel, every *)
(* member acknowledges elements, and an initial run of elements may be     *)
(* forgotten only when each present member has acknowledged all of it.     *)
(***************************************************************************)
EXTENDS Integers

CONSTANT Members

VARIABLES
  sent,     (* the number of elements sent                                 *)
  closed,   (* no element may be sent any more                             *)
  low,      (* elements below low are forgotten                            *)
  present,  (* the members that have joined and not left                   *)
  acked     (* for each member, the elements it is done with               *)

mcVars == <<sent, closed, low, present, acked>>

Init ==
  /\ sent = 0
  /\ closed = FALSE
  /\ low = 0
  /\ present = {}
  /\ acked = [m \in Members |-> {}]

Send ==
  /\ ~closed
  /\ sent' = sent + 1
  /\ UNCHANGED <<closed, low, present, acked>>

Close ==
  /\ closed' = TRUE
  /\ UNCHANGED <<sent, low, present, acked>>

(* What was forgotten before a member joined is no concern of it. *)
Join(m) ==
  /\ m \notin present
  /\ present' = present \cup {m}
  /\ acked' = [acked EXCEPT ![m] = 0 .. (low - 1)]
  /\ UNCHANGED <<sent, closed, low>>

Leave(m) ==
  /\ m \in present
  /\ present' = present \ {m}
  /\ UNCHANGED <<sent, closed, low, acked>>

MayForget(l) == \A i \in low .. (l - 1) : \A m \in present : i \in acked'[m]

Ack(m) ==
  /\ m \in present
  /\ \E S \in SUBSET (0 .. (sent - 1)) : acked' = [acked EXCEPT ![m] = @ \cup S]
  /\ low' \in low .. sent
  /\ MayForget(low')
  /\ UNCHANGED <<sent, closed, present>>

Next ==
  \/ Send
  \/ Close
  \/ \E m \in Members : Join(m) \/ Leave(m) \/ Ack(m)

Spec == Init /\ [][Next]_mcVars
=============================================================================
