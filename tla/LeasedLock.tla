----------------------------- MODULE LeasedLock -----------------------------
(***************************************************************************)
(* What a lock that may be lost promises: clients enter and leave, and one *)
(* that stays longer than it may is overdue and no longer counts.  Nobody  *)
(* enters beside Cap clients that count.  Who is overdue stays so until it *)
(* leaves, and leaves with no say in who is in.                            *)
(*                                                                         *)
(* The locks of the system differ in how a client gets in, and in how it   *)
(* becomes overdue (a lease that expired, a heartbeat that stalled, a file *)
(* that got old); this is what they have in common, crashes of clients     *)
(* among the ways to leave.                                                *)
(***************************************************************************)
EXTENDS Naturals, FiniteSets

CONSTANTS
  Client,  \* who may want the lock
  Cap      \* how many may have it at a time

VARIABLES
  in,      \* clients that act as holders
  overdue  \* those of them that lost it

vars == <<in, overdue>>

Init == in = {} /\ overdue = {}

Enter ==
  /\ Cardinality(in \ overdue) < Cap
  /\ \E c \in Client \ in : in' = in \cup {c}
  /\ UNCHANGED overdue

(* Also several at once, when they share a lease.                          *)
Overstay ==
  /\ overdue' \in SUBSET in /\ overdue \subseteq overdue'
  /\ UNCHANGED in

(* Also several at once, when their process dies.                          *)
Leave ==
  /\ in' \in SUBSET in
  /\ overdue' = overdue \cap in'

Next == Enter \/ Overstay \/ Leave
Spec == Init /\ [][Next]_vars
=============================================================================
