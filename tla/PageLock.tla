------------------------------ MODULE PageLock ------------------------------
(***************************************************************************)
(* The lock on one page's markdown file (core/page-lock.ts), taken by      *)
(* withPageLock around a read-modify-write: a lock file with the PID of    *)
(* its holder, stale when it is older than LOCK_TTL_MS or its process is   *)
(* dead.  Nobody who holds it calls refresh.  Tasks of one process share   *)
(* its PID.                                                                *)
(*                                                                         *)
(* tryAcquireOnce and release run without a pause in their own process;    *)
(* other processes come between their steps in a world with "race" only.   *)
(* A world may also have a "crash" of a process, a "slow" holder, who      *)
(* keeps the lock beyond the TTL, and several tasks in a process           *)
(* ("shared").                                                             *)
(***************************************************************************)
EXTENDS Naturals, FiniteSets

CONSTANTS
  Task,     \* callers of withPageLock
  HomeOf,   \* the process of each task, in a world with "shared"
  None,     \* no lock file
  Worlds    \* sets of things that may happen in one behaviour

VARIABLES
  can,      \* what this behaviour's world does
  file,     \* PID in the lock file, or None
  old,      \* the file's mtime is older than the TTL
  pc,       \* where each task is
  overdue   \* holders whose lock got older than the TTL

vars == <<can, file, old, pc, overdue>>

Init ==
  /\ can \in Worlds
  /\ file = None /\ old = FALSE
  /\ pc = [t \in Task |-> "out"]
  /\ overdue = {}
-----------------------------------------------------------------------------
Pid(t) == IF "shared" \in can THEN HomeOf[t] ELSE t
Home(pid) == {t \in Task : Pid(t) = pid}
Turn(t) == "race" \in can \/ \A u \in Task \ {t} : pc[u] \notin {"write", "unlink"}
Goto(t, where) == pc' = [pc EXCEPT ![t] = where]

Free == file = None \/ old \/ \A t \in Home(file) : pc[t] = "dead"

(* One poll of acquirePageLock.                                            *)
Check(t) ==
  /\ pc[t] = "out" /\ Turn(t) /\ Free
  /\ Goto(t, "write")
  /\ UNCHANGED <<can, file, old, overdue>>

Write(t) ==
  /\ pc[t] = "write" /\ Turn(t)
  /\ file' = Pid(t) /\ old' = FALSE
  /\ overdue' = overdue \ {t}
  /\ Goto(t, "in")
  /\ UNCHANGED can

(* Mutant: release does not read the file first.                           *)
ReleaseAny(t) ==
  /\ pc[t] = "in" /\ Turn(t)
  /\ Goto(t, "unlink")
  /\ UNCHANGED <<can, file, old, overdue>>

(* release, when the body is through or threw: only a file with our PID.   *)
Release(t) ==
  /\ pc[t] = "in" /\ Turn(t)
  /\ Goto(t, IF file = Pid(t) THEN "unlink" ELSE "out")
  /\ UNCHANGED <<can, file, old, overdue>>

Unlink(t) ==
  /\ pc[t] = "unlink" /\ Turn(t)
  /\ file' = None /\ old' = FALSE
  /\ Goto(t, "out")
  /\ UNCHANGED <<can, overdue>>

Crash(pid) ==
  /\ "crash" \in can
  /\ \E t \in Home(pid) : pc[t] # "dead"
  /\ pc' = [t \in Task |-> IF t \in Home(pid) THEN "dead" ELSE pc[t]]
  /\ UNCHANGED <<can, file, old, overdue>>

(* The lock file gets older than the TTL.                                  *)
Age ==
  /\ file # None /\ ~old
  /\ LET holders == {t \in Home(file) : pc[t] = "in"} IN
     /\ holders # {} => "slow" \in can
     /\ overdue' = overdue \cup holders
  /\ old' = TRUE
  /\ UNCHANGED <<can, file, pc>>

Step(t) == Check(t) \/ Write(t) \/ Release(t) \/ Unlink(t)
Next == Age \/ \E t \in Task : Step(t) \/ Crash(Pid(t))
Spec == Init /\ [][Next]_vars
-----------------------------------------------------------------------------
(* The constants' types, and the worlds the properties are about: release  *)
(* removes a file with our PID, so a slow holder must not share its own.   *)
PageConstants ==
  /\ None \notin Task /\ \A t \in Task : HomeOf[t] # None
  /\ \A W \in Worlds : "race" \notin W /\ ~({"shared", "slow"} \subseteq W)

(* Two tasks are between acquire and release at once only if one of them   *)
(* took longer than the TTL: also when the other's process is the same, or *)
(* a third one died with the lock.                                         *)
OneEditor ==
  \A t, u \in Task : t # u /\ pc[t] = "in" /\ pc[u] = "in" => t \in overdue \/ u \in overdue

(* The file of a dead process keeps nobody out, whatever its age.          *)
OpensFor(t) == pc[t] = "out" ~> (\E u \in Task : pc[u] = "in") \/ pc[t] = "dead"
PageOpens == \A t \in Task : OpensFor(t)
-----------------------------------------------------------------------------
(* A waiting task polls on, a step that was begun is finished.             *)
Fairness == \A t \in Task : WF_vars(Check(t) \/ Write(t) \/ Unlink(t))
FairSpec == Spec /\ Fairness
=============================================================================
