------------------------------- MODULE DbLock -------------------------------
(***************************************************************************)
(* A named lock in the table gbrain_cycle_locks (core/db-lock.ts), held by *)
(* withRefreshingLock: a row with the PID and the host of its holder, which*)
(* lives for a TTL and is refreshed by a timer.  A row is taken over when  *)
(* it expired, or when its holder is known to be dead on this host; a      *)
(* reaper and `gbrain sync --break-lock` delete rows of dead holders.      *)
(*                                                                         *)
(* A process is an incarnation: a PID may come back as another process,    *)
(* and the row's holder stands for acquired_at too.  A unit of time is the *)
(* interval between refreshes, TTL / 6.  A world may have a "crash", the   *)
(* "reuse" of PIDs, holders that "starve", so that refreshes come late, and*)
(* operators who "break" a lock.  Takeover and break-lock are a SELECT and *)
(* a DELETE: statements that write a row come between them in a world with *)
(* "race" only; between those of the reaper they come in all.              *)
(***************************************************************************)
EXTENDS Naturals

CONSTANTS
  Proc,    \* processes that want the lock, over all hosts
  PidOf,   \* their PIDs
  HostOf,  \* their hosts
  TTL,     \* ttlMinutes, in refresh intervals
  Grace,   \* the steal grace, in refresh intervals
  None,    \* no row, no snapshot
  Worlds   \* sets of things that may happen in one behaviour

VARIABLES
  can,     \* what this behaviour's world does
  row,     \* the process the row is about, or None
  quiet,   \* time since acquired or last refreshed, to TTL + 1
  young,   \* the row is younger than the takeover grace
  pc,      \* where each process is
  snap,    \* the row each process read before it deletes
  lapsed   \* holders whose row expired in their hands

vars == <<can, row, quiet, young, pc, snap, lapsed>>

Init ==
  /\ can \in Worlds
  /\ row = None /\ quiet = 0 /\ young = FALSE
  /\ pc = [p \in Proc |-> "unborn"]
  /\ snap = [p \in Proc |-> None]
  /\ lapsed = {}
-----------------------------------------------------------------------------
Goto(p, where) == pc' = [pc EXCEPT ![p] = where]
Turn(p) == "race" \in can \/ \A q \in Proc \ {p} : pc[q] \notin {"takeover", "break"}

Expired == quiet > TTL
Alive(p) == pc[p] \notin {"unborn", "dead"}
SamePid(p, q) == PidOf[p] = PidOf[q]
Twins(p) == {q \in Proc : SamePid(p, q) /\ HostOf[p] = HostOf[q]}

(* isHolderDeadLocally, asked by p.                                        *)
DeadLocally(p) == HostOf[row] = HostOf[p] /\ ~young /\ \A q \in Twins(row) : ~Alive(q)

(* The WHERE of the upsert.                                                *)
Free == row = None \/ (Expired /\ quiet > Grace)

Take(p) ==
  /\ row' = p /\ quiet' = 0 /\ young' = TRUE
  /\ lapsed' = lapsed \ {p}
  /\ Goto(p, "in")

(* acquireOnce of tryAcquireDbLock, the first time and after a takeover.   *)
Acquire(p) ==
  /\ pc[p] \in {"out", "retry"} /\ Turn(p)
  /\ IF Free THEN Take(p)
     ELSE Goto(p, IF pc[p] = "out" THEN "inspect" ELSE "out")
          /\ UNCHANGED <<row, quiet, young, lapsed>>
  /\ UNCHANGED <<can, snap>>

Inspect(p) ==
  /\ pc[p] = "inspect" /\ Turn(p)
  /\ IF row # None /\ ~Expired /\ DeadLocally(p)
     THEN Goto(p, "takeover") /\ snap' = [snap EXCEPT ![p] = row]
     ELSE Goto(p, "out") /\ UNCHANGED snap
  /\ UNCHANGED <<can, row, quiet, young, lapsed>>

(* deleteLockRow and the releases: by id and PID.                          *)
DeleteByPid(q) == row' = IF row # None /\ SamePid(row, q) THEN None ELSE row

TakeOver(p) ==
  /\ pc[p] = "takeover"
  /\ DeleteByPid(snap[p])
  /\ snap' = [snap EXCEPT ![p] = None]
  /\ Goto(p, IF row' # row THEN "retry" ELSE "out")
  /\ UNCHANGED <<can, quiet, young, lapsed>>

(* The timer's refresh, by id and PID: it says nothing when no row matches.*)
Refresh(p) ==
  /\ pc[p] = "in" /\ row # None /\ SamePid(row, p) /\ quiet > 0 /\ Turn(p)
  /\ quiet' = 0
  /\ UNCHANGED <<can, row, young, pc, snap, lapsed>>

(* The work is done or threw, and the lock is released, in vain perhaps.   *)
Finish(p) ==
  /\ pc[p] = "in"
  /\ DeleteByPid(p) \/ UNCHANGED row
  /\ Goto(p, "out")
  /\ UNCHANGED <<can, quiet, young, snap, lapsed>>

(* The process gets a signal and its cleanup runs, or it has no chance to. *)
Die(p) ==
  /\ "crash" \in can /\ Alive(p)
  /\ (pc[p] = "in" /\ DeleteByPid(p)) \/ UNCHANGED row
  /\ snap' = [snap EXCEPT ![p] = None]
  /\ Goto(p, "dead")
  /\ UNCHANGED <<can, quiet, young, lapsed>>

Spawn(p) ==
  /\ pc[p] = "unborn" /\ Turn(p)
  /\ \A q \in Twins(p) : ~Alive(q)
  /\ "reuse" \in can \/ \A q \in Twins(p) : pc[q] # "dead"
  /\ Goto(p, "out")
  /\ UNCHANGED <<can, row, quiet, young, snap, lapsed>>

(* reapDeadHolderLocks, at the start of a cycle.                           *)
ReapLook(p) ==
  /\ pc[p] = "out" /\ row # None /\ DeadLocally(p)
  /\ snap' = [snap EXCEPT ![p] = row]
  /\ Goto(p, "reap")
  /\ UNCHANGED <<can, row, quiet, young, lapsed>>

(* Mutant: the reaper deletes as the others do, by id and PID.             *)
ReapDeleteByPid(p) ==
  /\ pc[p] = "reap"
  /\ DeleteByPid(snap[p])
  /\ snap' = [snap EXCEPT ![p] = None]
  /\ Goto(p, "out")
  /\ UNCHANGED <<can, quiet, young, lapsed>>

(* deleteLockRowExact: by id, PID and acquired_at.                         *)
ReapDelete(p) ==
  /\ pc[p] = "reap"
  /\ row' = IF row = snap[p] THEN None ELSE row
  /\ snap' = [snap EXCEPT ![p] = None]
  /\ Goto(p, "out")
  /\ UNCHANGED <<can, quiet, young, lapsed>>

(* --break-lock without --force and --max-age.                             *)
BreakLook(p) ==
  /\ "break" \in can /\ Turn(p)
  /\ pc[p] = "out" /\ row # None
  /\ HostOf[row] = HostOf[p]
  /\ Expired \/ DeadLocally(p)
  /\ snap' = [snap EXCEPT ![p] = row]
  /\ Goto(p, "break")
  /\ UNCHANGED <<can, row, quiet, young, lapsed>>

BreakDelete(p) ==
  /\ pc[p] = "break"
  /\ DeleteByPid(snap[p])
  /\ snap' = [snap EXCEPT ![p] = None]
  /\ Goto(p, "out")
  /\ UNCHANGED <<can, quiet, young, lapsed>>

(* A refresh interval passes; unless they starve, holders refreshed.       *)
Tick ==
  /\ row # None
  /\ "starve" \in can \/ quiet = 0 \/ pc[row] # "in"
  /\ quiet' = IF Expired THEN quiet ELSE quiet + 1
  /\ young' = FALSE
  /\ lapsed' = IF quiet' > TTL THEN lapsed \cup {p \in {row} : pc[p] = "in"} ELSE lapsed
  /\ UNCHANGED <<can, row, pc, snap>>

Acquiring(p) == Acquire(p) \/ Inspect(p) \/ TakeOver(p)
Clearing(p)  == ReapLook(p) \/ ReapDelete(p) \/ BreakLook(p) \/ BreakDelete(p)
Next ==
  \/ Tick
  \/ \E p \in Proc :
       Spawn(p) \/ Acquiring(p) \/ Refresh(p) \/ Finish(p) \/ Die(p) \/ Clearing(p)

Spec == Init /\ [][Next]_vars
-----------------------------------------------------------------------------
(* The constants' types, and the worlds the property is about: rows are    *)
(* deleted and refreshed by PID, so a PID must tell who is meant.          *)
DbConstants ==
  /\ None \notin Proc /\ TTL \in Nat \ {0} /\ Grace \in Nat
  /\ \A W \in Worlds :
       /\ "race" \in W => "reuse" \notin W /\ "break" \notin W
       /\ "race" \in W \/ "starve" \in W =>
            \A p, q \in Proc : SamePid(p, q) => HostOf[p] = HostOf[q]

(* Two processes hold the lock at once only if one of them let its row     *)
(* expire: whoever takes over, reaps or breaks a lock, and whatever PIDs   *)
(* come back.                                                              *)
DbOneHolder ==
  \A p, q \in Proc : p # q /\ pc[p] = "in" /\ pc[q] = "in" => p \in lapsed \/ q \in lapsed

(* A dead holder, also one on another host or one whose PID came back, and *)
(* a failed release keep nobody out for good.                              *)
OpensFor(p) == pc[p] = "out" ~> (\E q \in Proc : pc[q] = "in" /\ row = q) \/ pc[p] = "dead"
DbLockOpens == \A p \in Proc : OpensFor(p)
-----------------------------------------------------------------------------
Ending(p) == Inspect(p) \/ TakeOver(p) \/ ReapDelete(p) \/ BreakDelete(p)

(* Time passes, timers fire, a statement that follows another is executed, *)
(* and a process that did not get the lock tries again.                    *)
Fairness ==
  /\ WF_vars(Tick)
  /\ \A p \in Proc : /\ WF_vars(Refresh(p)) /\ SF_vars(Acquire(p))
                     /\ WF_vars(Ending(p))
FairSpec == Spec /\ Fairness
=============================================================================
