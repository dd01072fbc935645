---------------------------- MODULE JobLifecycle ----------------------------
(***************************************************************************)
(* What the minion queue promises about the life of ONE job, whatever the  *)
(* other jobs, workers, sweeps and operators do.  A job is unborn, open    *)
(* (queued, delayed, paused or waiting for children), held by exactly one  *)
(* claim, closed, or gone.  Claims of a job are numbered; the number only  *)
(* grows; the result of a job is the one its last claim produced.          *)
(*                                                                         *)
(* Several jobs may move in one step (a cancel cascades, a failing child   *)
(* fails its parent), so a step is a legal move or a stutter of every job. *)
(***************************************************************************)
EXTENDS Naturals

CONSTANT Job

VARIABLE life

Reopenable == {"failed", "dead"}
Final      == {"completed", "cancelled"}
Phase      == {"unborn", "open", "held", "gone"} \cup Reopenable \cup Final

Life == [phase : Phase, claims : Nat, made : Nat, result : Nat]

Unborn == [phase |-> "unborn", claims |-> 0, made |-> 0, result |-> 0]

(* The same claim of the job goes on, or the job is not held at all.       *)
SameClaims(l, m) == m.claims = l.claims /\ m.result = l.result

Enqueue(l, m) ==
  /\ l = Unborn
  /\ m = [Unborn EXCEPT !.phase = "open"]

(* A claim takes an open job and opens the next numbered attempt.          *)
Acquire(l, m) ==
  /\ l.phase = "open"
  /\ m = [l EXCEPT !.phase = "held", !.claims = @ + 1]

(* The holder (or whoever preempts it) gives the job back; at most the one *)
(* attempt that was held is burned.                                        *)
GiveBack(l, m) ==
  /\ l.phase = "held" /\ m.phase = "open"
  /\ m.made \in {l.made, l.made + 1}
  /\ SameClaims(l, m)

(* Only the current holder's result closes a job as completed.             *)
Complete(l, m) ==
  /\ l.phase = "held"
  /\ m = [l EXCEPT !.phase = "completed", !.result = l.claims]

(* A job dies or is failed or cancelled while open or held; an attempt is  *)
(* burned only if one was held.                                            *)
Abandon(l, m) ==
  /\ l.phase \in {"open", "held"}
  /\ m.phase \in Reopenable \cup {"cancelled"}
  /\ m.made \in {l.made} \cup (IF l.phase = "held" THEN {l.made + 1} ELSE {})
  /\ SameClaims(l, m)

Reopen(l, m) ==
  /\ l.phase \in Reopenable
  /\ m = [l EXCEPT !.phase = "open"]

(* A closed job may be removed; its row never comes back.                  *)
Remove(l, m) ==
  /\ l.phase \in Reopenable \cup Final
  /\ m = [Unborn EXCEPT !.phase = "gone"]

(* A job that settles and is removed in the same transaction               *)
(* (remove_on_complete, remove_on_fail).                                   *)
SettleAndRemove(l, m) ==
  /\ l.phase = "held"
  /\ m = [Unborn EXCEPT !.phase = "gone"]

Move(l, m) ==
  \/ Enqueue(l, m) \/ Acquire(l, m) \/ GiveBack(l, m) \/ Complete(l, m)
  \/ Abandon(l, m) \/ Reopen(l, m) \/ Remove(l, m) \/ SettleAndRemove(l, m)

Init == life = [j \in Job |-> Unborn]

Next ==
  /\ life' = [j \in Job |-> life'[j]]
  /\ \A j \in Job : Move(life[j], life'[j]) \/ life'[j] = life[j]

Spec == Init /\ [][Next]_life
=============================================================================
