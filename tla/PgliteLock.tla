----------------------------- MODULE PgliteLock -----------------------------
(***************************************************************************)
(* The lock on a PGLite data directory (core/pglite-lock.ts): a directory  *)
(* made with mkdir, in it a file that names its owner and whose time stamp *)
(* the owner's heartbeat renews.  A process that finds the owner dead, its *)
(* heartbeat old or the file unreadable removes the directory and tries    *)
(* for itself.                                                             *)
(*                                                                         *)
(* The steps of a process run without a pause in its own thread, and other *)
(* processes may still come between them: in a world with "race" they do,  *)
(* in the others (see Turn) a process takes them in one go.  The other     *)
(* things a world may have are a "crash", a "stall" of a live holder's     *)
(* heartbeat and the "reuse" of a dead holder's PID.                       *)
(***************************************************************************)
EXTENDS Naturals, FiniteSets

CONSTANTS
  Proc,    \* processes that open the data directory
  None,    \* no file, or no owner
  Worlds   \* sets of things that may happen in one behaviour

VARIABLES
  can,      \* what this behaviour's world does
  dir,      \* the lock directory exists
  file,     \* who the lock file names: a process, "empty" or None
  pc,       \* where each process is
  beating,  \* holders whose heartbeat timer runs
  fresh,    \* holders whose last heartbeat is within the steal grace
  lapsed,   \* holders that were reaped for an old heartbeat
  strangers \* dead processes whose PID another program has

vars == <<can, dir, file, pc, beating, fresh, lapsed, strangers>>

Init ==
  /\ can \in Worlds
  /\ dir = FALSE /\ file = None
  /\ pc = [p \in Proc |-> "out"]
  /\ beating = {} /\ fresh = {} /\ lapsed = {} /\ strangers = {}
-----------------------------------------------------------------------------
Turn(p) == "race" \in can \/ \A q \in Proc \ {p} : pc[q] \in {"out", "held", "dead"}
Goto(p, where) == pc' = [pc EXCEPT ![p] = where]

Holding(p) == pc[p] \in {"held", "truncate", "fill"}

(* process.kill(pid, 0) succeeds.                                          *)
Alive(p) == pc[p] # "dead" \/ p \in strangers

Reapable == file \in Proc => ~Alive(file) \/ file \notin fresh

(* One turn of acquireLock's loop: look, and reap or wait.                 *)
Look(p) ==
  /\ pc[p] = "out" /\ Turn(p)
  /\ dir => Reapable
  /\ Goto(p, IF dir THEN "reap" ELSE "mkdir")
  /\ UNCHANGED <<can, dir, file, beating, fresh, lapsed, strangers>>

Reap(p) ==
  /\ pc[p] = "reap" /\ Turn(p)
  /\ dir' = FALSE /\ file' = None
  /\ lapsed' = IF file \in Proc \ fresh THEN lapsed \cup {file} ELSE lapsed
  /\ Goto(p, "mkdir")
  /\ UNCHANGED <<can, beating, fresh, strangers>>

Mkdir(p) ==
  /\ pc[p] = "mkdir" /\ Turn(p)
  /\ dir' = TRUE
  /\ Goto(p, IF dir THEN "out" ELSE "write")
  /\ UNCHANGED <<can, file, beating, fresh, lapsed, strangers>>

(* The owner's file, and its heartbeat.  When the directory was reaped in  *)
(* between the write throws and the loop goes on.                          *)
Write(p) ==
  /\ pc[p] = "write" /\ Turn(p)
  /\ IF dir
     THEN /\ file' = p
          /\ beating' = beating \cup {p}
          /\ fresh' = fresh \cup {p}
          /\ lapsed' = lapsed \ {p}
          /\ Goto(p, "held")
     ELSE /\ Goto(p, "out")
          /\ UNCHANGED <<file, beating, fresh, lapsed>>
  /\ UNCHANGED <<can, dir, strangers>>

(* startHeartbeat's timer: a file that names another stops it, one that    *)
(* cannot be read is left for the next beat.                               *)
Beat(p) ==
  /\ pc[p] = "held" /\ p \in beating /\ Turn(p)
  /\ \/ file = p /\ Goto(p, "truncate") /\ UNCHANGED beating
     \/ file \in Proc \ {p} /\ beating' = beating \ {p} /\ UNCHANGED pc
  /\ UNCHANGED <<can, dir, file, fresh, lapsed, strangers>>

(* writeFileSync opens the file, which truncates it, and then writes.      *)
Truncate(p) ==
  /\ pc[p] = "truncate" /\ Turn(p)
  /\ file' = IF dir THEN "empty" ELSE None
  /\ Goto(p, IF dir THEN "fill" ELSE "held")
  /\ UNCHANGED <<can, dir, beating, fresh, lapsed, strangers>>

Fill(p) ==
  /\ pc[p] = "fill" /\ Turn(p)
  /\ file' = IF file = None THEN None ELSE p
  /\ fresh' = fresh \cup {p}
  /\ Goto(p, "held")
  /\ UNCHANGED <<can, dir, beating, lapsed, strangers>>

(* Mutant: releaseLock removes the lock whoever it names.                  *)
ReleaseAny(p) ==
  /\ pc[p] = "held" /\ Turn(p)
  /\ beating' = beating \ {p}
  /\ Goto(p, "remove")
  /\ UNCHANGED <<can, dir, file, fresh, lapsed, strangers>>

(* releaseLock: not when the file names another.                           *)
Release(p) ==
  /\ pc[p] = "held" /\ Turn(p)
  /\ beating' = beating \ {p}
  /\ Goto(p, IF file \in Proc \ {p} THEN "out" ELSE "remove")
  /\ UNCHANGED <<can, dir, file, fresh, lapsed, strangers>>

Remove(p) ==
  /\ pc[p] = "remove" /\ Turn(p)
  /\ dir' = FALSE /\ file' = None
  /\ Goto(p, "out")
  /\ UNCHANGED <<can, beating, fresh, lapsed, strangers>>

Crash(p) ==
  /\ "crash" \in can /\ pc[p] # "dead"
  /\ beating' = beating \ {p}
  /\ Goto(p, "dead")
  /\ UNCHANGED <<can, dir, file, fresh, lapsed, strangers>>

Reuse(p) ==
  /\ "reuse" \in can /\ pc[p] = "dead" /\ p \notin strangers
  /\ strangers' = strangers \cup {p}
  /\ UNCHANGED <<can, dir, file, pc, beating, fresh, lapsed>>

(* The steal grace passes without a heartbeat.                             *)
Age(p) ==
  /\ p \in fresh
  /\ "stall" \in can \/ p \notin beating
  /\ fresh' = fresh \ {p}
  /\ UNCHANGED <<can, dir, file, pc, beating, lapsed, strangers>>

Acquiring(p) == Look(p) \/ Reap(p) \/ Mkdir(p) \/ Write(p)
Beating(p)   == Beat(p) \/ Truncate(p) \/ Fill(p)
Leaving(p)   == Release(p) \/ Remove(p)
Next == \E p \in Proc :
  Acquiring(p) \/ Beating(p) \/ Leaving(p) \/ Crash(p) \/ Reuse(p) \/ Age(p)

Spec == Init /\ [][Next]_vars
-----------------------------------------------------------------------------
(* The constants' types, and the worlds the properties are about.          *)
PgliteConstants ==
  /\ None \notin Proc /\ "empty" \notin Proc /\ None # "empty"
  /\ \A W \in Worlds : "race" \notin W

(* Two processes have the data directory open only if one of them stalled  *)
(* past the steal grace and was reaped.                                    *)
OneWriter ==
  \A p, q \in Proc : p # q /\ Holding(p) /\ Holding(q) => p \in lapsed \/ q \in lapsed

(* "A holder whose heartbeat refreshed within this window is ALIVE and is  *)
(* NEVER stolen" (pglite-lock.ts:27): the lock directory of a live holder  *)
(* that was not reaped for its age goes only when the holder lets go.      *)
BeatingHolderKeepsLock ==
  [][\A p \in Proc : Holding(p) /\ p \in fresh \ lapsed /\ dir /\ pc'[p] = pc[p] => dir']_vars

(* No crash locks everyone out, also one between mkdir and the write, or   *)
(* one whose PID lives on: a process that waits sees the lock taken.       *)
OpensFor(p) == pc[p] = "out" ~> (\E q \in Proc \ lapsed : Holding(q)) \/ pc[p] = "dead"
LockOpens == \A p \in Proc : OpensFor(p)
-----------------------------------------------------------------------------
(* A process goes on with what it is at, timers fire, and time passes over *)
(* a file nobody renews; nothing makes a holder let go.                    *)
Fairness == \A p \in Proc :
  /\ WF_vars(Acquiring(p)) /\ WF_vars(Beating(p)) /\ WF_vars(Remove(p))
  /\ WF_vars(p \notin beating /\ Age(p))
FairSpec == Spec /\ Fairness
=============================================================================
