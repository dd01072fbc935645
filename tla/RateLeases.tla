----------------------------- MODULE RateLeases -----------------------------
(***************************************************************************)
(* The leases that limit the provider calls of the subagent loop           *)
(* (core/minions/rate-leases.ts, handlers/subagent.ts): a row of           *)
(* subagent_rate_leases is inserted before the call, in a transaction that *)
(* takes an advisory lock, prunes and counts, and deleted after the call.  *)
(* Nothing renews a lease during a call.  Rows outlive a crashed worker    *)
(* and a release that failed; they go when a job is deleted, and with the  *)
(* first acquire after they expire.                                        *)
(***************************************************************************)
EXTENDS Naturals, FiniteSets

CONSTANTS
  Caller,  \* subagent handlers, over their claims
  Id,      \* ids of lease rows
  Cap,     \* maxConcurrent, the same in all workers
  None     \* nobody, no row

VARIABLES
  rows,    \* ids in subagent_rate_leases
  expired, \* rows whose expires_at is past
  lock,    \* who holds the advisory lock
  pc,      \* where each caller is
  lease,   \* the lease each caller was granted
  overdue  \* callers whose lease expired, or went with the job, in mid-call

vars == <<rows, expired, lock, pc, lease, overdue>>

Init ==
  /\ rows = {} /\ expired = {}
  /\ lock = None
  /\ pc = [c \in Caller |-> "idle"]
  /\ lease = [c \in Caller |-> None]
  /\ overdue = {}
-----------------------------------------------------------------------------
Goto(c, where) == pc' = [pc EXCEPT ![c] = where]

(* Mutant: the transaction takes no advisory lock.                         *)
LockSkipped(c) ==
  /\ pc[c] = "idle"
  /\ lock' = c
  /\ Goto(c, "locked")
  /\ UNCHANGED <<rows, expired, lease, overdue>>

(* acquireLease, statement by statement.                                   *)
Lock(c) ==
  /\ pc[c] = "idle" /\ lock = None
  /\ lock' = c
  /\ Goto(c, "locked")
  /\ UNCHANGED <<rows, expired, lease, overdue>>

Prune(c) ==
  /\ pc[c] = "locked"
  /\ rows' = rows \ expired
  /\ expired' = {}
  /\ Goto(c, "pruned")
  /\ UNCHANGED <<lock, lease, overdue>>

(* Mutant: a full count still lets one in.                                 *)
CountOneMore(c) ==
  /\ pc[c] = "pruned"
  /\ IF Cardinality(rows) > Cap
     THEN lock' = None /\ Goto(c, "idle")
     ELSE Goto(c, "counted") /\ UNCHANGED lock
  /\ UNCHANGED <<rows, expired, lease, overdue>>

(* A full count commits, and the worker puts the job back with a delay.    *)
Count(c) ==
  /\ pc[c] = "pruned"
  /\ IF Cardinality(rows) >= Cap
     THEN lock' = None /\ Goto(c, "idle")
     ELSE Goto(c, "counted") /\ UNCHANGED lock
  /\ UNCHANGED <<rows, expired, lease, overdue>>

Insert(c) ==
  /\ pc[c] = "counted"
  /\ \E id \in Id \ rows :
       /\ \A d \in Caller : lease[d] # id
       /\ rows' = rows \cup {id}
       /\ lease' = [lease EXCEPT ![c] = id]
  /\ lock' = None
  /\ Goto(c, "calling")
  /\ UNCHANGED <<expired, overdue>>

(* The provider answered or the call threw: releaseLease, whose failure is *)
(* swallowed.                                                              *)
Release(c) ==
  /\ pc[c] = "calling"
  /\ rows' \in {rows \ {lease[c]}, rows}
  /\ expired' = expired \cap rows'
  /\ lease' = [lease EXCEPT ![c] = None]
  /\ Goto(c, "idle")
  /\ overdue' = overdue \ {c}
  /\ UNCHANGED lock

(* The worker dies; an open transaction rolls back.  The job is claimed    *)
(* again.                                                                  *)
Crash(c) ==
  /\ pc[c] \notin {"idle", "down"}
  /\ lease' = [lease EXCEPT ![c] = None]
  /\ lock' = IF lock = c THEN None ELSE lock
  /\ Goto(c, "down")
  /\ overdue' = overdue \ {c}
  /\ UNCHANGED <<rows, expired>>

Restart(c) ==
  /\ pc[c] = "down"
  /\ Goto(c, "idle")
  /\ UNCHANGED <<rows, expired, lock, lease, overdue>>

Holders(id) == {c \in Caller : lease[c] = id}

(* expires_at passes.                                                      *)
Expire(id) ==
  /\ id \in rows \ expired
  /\ expired' = expired \cup {id}
  /\ overdue' = overdue \cup Holders(id)
  /\ UNCHANGED <<rows, lock, pc, lease>>

(* The owner's row in minion_jobs is deleted, and its leases with it.      *)
Cascade(id) ==
  /\ id \in rows
  /\ rows' = rows \ {id}
  /\ expired' = expired \ {id}
  /\ overdue' = overdue \cup Holders(id)
  /\ UNCHANGED <<lock, pc, lease>>

Acquire(c) == Lock(c) \/ Prune(c) \/ Count(c) \/ Insert(c)
Next ==
  \/ \E c \in Caller : Acquire(c) \/ Release(c) \/ Crash(c) \/ Restart(c)
  \/ \E id \in Id : Expire(id) \/ Cascade(id)
Spec == Init /\ [][Next]_vars
-----------------------------------------------------------------------------
(* The constants' types.                                                   *)
LeaseConstants == Cap \in Nat /\ None \notin Caller \cup Id

(* No more calls are under way at a time than maxConcurrent, but for calls *)
(* that outlived their lease or their job.                                 *)
CapHolds ==
  Cardinality({c \in Caller : pc[c] = "calling" /\ c \notin overdue}) <= Cap

(* Rows of dead workers and failed releases do not use the cap up for      *)
(* good: when a caller waits, some call gets through, unless workers die   *)
(* for ever or all are down.                                               *)
SlotsReturn ==
  \/ []<><<\E c \in Caller : Crash(c)>>_vars
  \/ (\E c \in Caller : pc[c] = "idle") ~>
       \/ \E c \in Caller : pc[c] = "calling"
       \/ \A c \in Caller : pc[c] = "down"
-----------------------------------------------------------------------------
(* Jobs put back are claimed again, statements are executed, and time      *)
(* passes; a call may take for ever.                                       *)
Fairness ==
  /\ WF_vars(\E c \in Caller : Acquire(c))
  /\ \A id \in Id : WF_vars(Expire(id))
FairSpec == Spec /\ Fairness
=============================================================================
