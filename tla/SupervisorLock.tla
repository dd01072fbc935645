--------------------------- MODULE SupervisorLock ---------------------------
(***************************************************************************)
(* Which supervisor serves a queue (minions/supervisor.ts): a PID file     *)
(* keeps a second one with the same file out, and a row of the database,   *)
(* the lock of the queue, those with another one.  The holder refreshes    *)
(* the row every minute and shuts itself down when that failed three times *)
(* in a row, before the row expires.                                       *)
(*                                                                         *)
(* A process manager starts supervisors again; each start has a new PID,   *)
(* and Dead stands for the PIDs of those that ended.  Steps of several     *)
(* supervisors on one PID file come in any order, its creation and the     *)
(* write of the PID too.  How a row is taken is the module DbLock's; a     *)
(* dead holder's may be taken before it expires.                           *)
(***************************************************************************)
EXTENDS Naturals

CONSTANTS
  Sup,         \* the processes of the process manager
  FileOf,      \* their PID files
  TTL,         \* SUPERVISOR_LOCK_TTL_MIN, in refresh intervals
  MaxFailures, \* SUPERVISOR_LOCK_REFRESH_MAX_FAILURES
  MaxCrashes,  \* supervisors killed. Bounds the model.
  Faults,      \* "fail": refreshes fail; "hang": their answers do not come
  Dead, None

VARIABLES
  pc,       \* where each supervisor is
  file,     \* who created each PID file; empty as long as its creator is in "write"
  row,      \* who holds the lock
  quiet,    \* time since the row was written, to TTL + 1
  due,      \* supervisors whose timer fired
  failures, \* lockRefreshFailures
  killed    \* supervisors killed so far

vars == <<pc, file, row, quiet, due, failures, killed>>

Init ==
  /\ pc = [s \in Sup |-> "off"]
  /\ file = [f \in {FileOf[s] : s \in Sup} |-> None]
  /\ row = None /\ quiet = 0 /\ due = {}
  /\ failures = [s \in Sup |-> 0]
  /\ killed = 0
-----------------------------------------------------------------------------
Goto(s, where) == pc' = [pc EXCEPT ![s] = where]
MyFile(s)      == file[FileOf[s]]
SetFile(s, by) == file' = [file EXCEPT ![FileOf[s]] = by]

(* The process is gone: nobody else gets its PID.                          *)
Gone(s, files) ==
  /\ Goto(s, "off")
  /\ file' = [f \in DOMAIN files |-> IF files[f] = s THEN Dead ELSE files[f]]
  /\ row' = IF row = s THEN Dead ELSE row
  /\ due' = due \ {s}
  /\ failures' = [failures EXCEPT ![s] = 0]

Start(s) ==
  /\ pc[s] = "off"
  /\ Goto(s, "create")
  /\ UNCHANGED <<file, row, quiet, due, failures, killed>>

(* tryAtomicCreate: open with O_EXCL ...                                   *)
Create(s) ==
  /\ pc[s] = "create"
  /\ IF MyFile(s) = None THEN SetFile(s, s) /\ Goto(s, "write")
     ELSE UNCHANGED file /\ Goto(s, "look")
  /\ UNCHANGED <<row, quiet, due, failures, killed>>

(* ... and write the PID, to a file that may have been unlinked.           *)
Write(s) ==
  /\ pc[s] = "write"
  /\ Goto(s, "lock")
  /\ UNCHANGED <<file, row, quiet, due, failures, killed>>

(* Mutant: whoever finds a PID file leaves.                                *)
LookAndLeave(s) ==
  /\ pc[s] = "look"
  /\ Gone(s, file)
  /\ UNCHANGED <<quiet, killed>>

(* The file exists.  A process that lives holds it; what is empty, or of a *)
(* dead one, is stale.                                                     *)
Look(s) ==
  /\ pc[s] = "look"
  /\ LET by == MyFile(s)
     IN IF by \in Sup /\ pc[by] # "write" THEN Gone(s, file)
        ELSE Goto(s, "unlink") /\ UNCHANGED <<file, row, due, failures>>
  /\ UNCHANGED <<quiet, killed>>

Unlink(s) ==
  /\ pc[s] = "unlink"
  /\ SetFile(s, None)
  /\ Goto(s, "recreate")
  /\ UNCHANGED <<row, quiet, due, failures, killed>>

Recreate(s) ==
  /\ pc[s] = "recreate"
  /\ IF MyFile(s) = None
     THEN SetFile(s, s) /\ Goto(s, "write") /\ UNCHANGED <<row, due, failures>>
     ELSE Gone(s, file)
  /\ UNCHANGED <<quiet, killed>>

Expired == quiet > TTL

(* tryAcquireDbLock on the queue's row.                                    *)
Lock(s) ==
  /\ pc[s] = "lock"
  /\ \/ /\ row \in {None, Dead} \/ Expired
        /\ row' = s /\ quiet' = 0
        /\ failures' = [failures EXCEPT ![s] = 0]
        /\ Goto(s, "up")
     \/ /\ row # None /\ ~Expired
        /\ Goto(s, "exit")
        /\ UNCHANGED <<row, quiet, failures>>
  /\ UNCHANGED <<file, due, killed>>
-----------------------------------------------------------------------------
(* refreshDbLock: it says nothing when the row is another's.               *)
Refresh(s) ==
  /\ pc[s] = "up" /\ s \in due
  /\ due' = due \ {s}
  /\ quiet' = IF row = s THEN 0 ELSE quiet
  /\ failures' = [failures EXCEPT ![s] = 0]
  /\ UNCHANGED <<pc, file, row, killed>>

(* Mutant: a supervisor that cannot refresh goes on.                       *)
RefreshFailsOn(s) ==
  /\ "fail" \in Faults /\ pc[s] = "up" /\ s \in due
  /\ due' = due \ {s}
  /\ UNCHANGED <<pc, file, row, quiet, failures, killed>>

(* It throws, whether the row was refreshed or not: after some failures    *)
(* the supervisor shuts down.                                              *)
RefreshFails(s) ==
  /\ "fail" \in Faults /\ pc[s] = "up" /\ s \in due
  /\ due' = due \ {s}
  /\ (row = s /\ quiet' = 0) \/ UNCHANGED quiet
  /\ failures' = [failures EXCEPT ![s] = failures[s] + 1]
  /\ Goto(s, IF failures'[s] >= MaxFailures THEN "stop" ELSE "up")
  /\ UNCHANGED <<file, row, killed>>

(* A signal, or too many crashes of the worker: shutdown.                  *)
Stop(s) ==
  /\ pc[s] = "up"
  /\ Goto(s, "stop")
  /\ due' = due \ {s}
  /\ UNCHANGED <<file, row, quiet, failures, killed>>

(* shutdown releases the row, in vain perhaps, and ends the worker.        *)
Release(s) ==
  /\ pc[s] = "stop"
  /\ (row = s /\ row' = None) \/ UNCHANGED row
  /\ Goto(s, "exit")
  /\ UNCHANGED <<file, quiet, due, failures, killed>>

(* The exit listener looks whether the PID file is its own, and unlinks it.*)
Leave(s) ==
  /\ pc[s] = "exit"
  /\ IF MyFile(s) = s
     THEN Goto(s, "clean") /\ UNCHANGED <<file, row, due, failures>>
     ELSE Gone(s, file)
  /\ UNCHANGED <<quiet, killed>>

Clean(s) ==
  /\ pc[s] = "clean"
  /\ Gone(s, [file EXCEPT ![FileOf[s]] = None])
  /\ UNCHANGED <<quiet, killed>>

Kill(s) ==
  /\ pc[s] # "off" /\ killed < MaxCrashes
  /\ killed' = killed + 1
  /\ Gone(s, file)
  /\ UNCHANGED quiet

(* A refresh interval passes: the timers of the interval before have fired *)
(* and their statements returned, or hang.                                 *)
Tick ==
  /\ row # None
  /\ due = {} \/ "hang" \in Faults
  /\ quiet' = IF Expired THEN quiet ELSE quiet + 1
  /\ due' = {s \in Sup : pc[s] = "up"}
  /\ UNCHANGED <<pc, file, row, failures, killed>>

Starting(s) == Create(s) \/ Write(s) \/ Look(s) \/ Unlink(s) \/ Recreate(s) \/ Lock(s)
Ending(s)   == Release(s) \/ Leave(s) \/ Clean(s)
Next ==
  \/ Tick
  \/ \E s \in Sup :
       Start(s) \/ Starting(s) \/ Refresh(s) \/ RefreshFails(s) \/ Stop(s) \/ Ending(s) \/ Kill(s)
Spec == Init /\ [][Next]_vars
-----------------------------------------------------------------------------
(* The constants' types; a supervisor gives up before its row expires, and *)
(* its refreshes are answered.                                             *)
SupervisorConstants ==
  /\ Dead \notin Sup /\ None \notin Sup
  /\ TTL \in Nat /\ MaxFailures \in Nat /\ 0 < MaxFailures /\ MaxFailures <= TTL
  /\ "hang" \notin Faults

(* One supervisor serves the queue, whatever happens to the PID files and  *)
(* however refreshes fail.                                                 *)
OneSupervisor == \A s, t \in Sup : pc[s] = "up" /\ pc[t] = "up" => s = t

(* The queue does not stay without a supervisor: no file and no row that a *)
(* killed one left behind, nor any race of two that start, keeps all out.  *)
QueueIsServed == []<>(\E s \in Sup : pc[s] = "up")
-----------------------------------------------------------------------------
(* The process manager restarts what ended, and time passes.               *)
Fairness ==
  /\ WF_vars(Tick)
  /\ \A s \in Sup : WF_vars(Start(s)) /\ WF_vars(Starting(s)) /\ WF_vars(Ending(s))
FairSpec == Spec /\ Fairness
=============================================================================
