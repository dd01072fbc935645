------------------------------ MODULE MCLocks ------------------------------
(* Small sets of processes for each lock; the default knobs of the renewal *)
(* clock in units of 2.5 s; the supervisors' numbers are the code's.       *)
EXTENDS Locks, TLC

CONSTANTS a, b, c, d, i, j, k, l

ThreeProcesses == {a, b, c}
FourTasks      == {a, b, c, d}
FourIds        == {i, j, k, l}
TwoSupervisors == {a, b}

PgliteWorlds == {{}, {"crash", "reuse"}, {"stall", "crash"}}

(* a and b are tasks of one process, c and d of another.                   *)
TwoHomes   == a :> a @@ b :> a @@ c :> c @@ d :> c
PageWorlds == {{}, {"shared", "crash"}, {"slow", "crash"}}

(* d comes with the PID of a after it; c is on another host.               *)
OnePidReused == a :> 1 @@ b :> 2 @@ c :> 3 @@ d :> 1
TwoHosts     == a :> 1 @@ b :> 1 @@ c :> 2 @@ d :> 1
RowWorlds    == {{}, {"crash", "reuse", "starve", "break"}, {"crash", "race"}}

(* Two supervisors with one PID file.                                      *)
OneFile   == a :> 1 @@ b :> 1
SomeFail  == {"fail"}

(* No lock keeps all out for good, whatever became of its holders: see     *)
(* LockOpens, PageOpens, SlotsReturn, DbLockOpens and QueueIsServed.  One  *)
(* process stands for those that are like it.                              *)
LocksOpen ==
  /\ focus = "pglite" => Pgl!OpensFor(a)
  /\ focus = "page" => Pag!OpensFor(a)
  /\ focus = "rate" => Rat!SlotsReturn
  /\ focus = "db" => \A p \in {a, b, c} : Dbl!OpensFor(p)
  /\ focus = "supervisor" => Spv!QueueIsServed
=============================================================================
