----------------------------- MODULE FactsQueue -----------------------------
(***************************************************************************)
(* The in-memory queue of fact extractions (core/facts/queue.ts) and the   *)
(* end of a command, which drains it before it closes the database         *)
(* (core/background-work.ts, finishCliTeardown of core/cli-force-exit.ts). *)
(* A job runs a provider call and writes to the database; page writes      *)
(* queue one and do not wait.  One job of a session runs at a time.        *)
(*                                                                         *)
(* JavaScript runs one piece of code at a time: an action is what happens  *)
(* between two awaits.  pump is called in microtasks, which come before    *)
(* any timer: pumpDue.                                                     *)
(***************************************************************************)
EXTENDS Naturals, Sequences, FiniteSets

CONSTANTS
  Session,
  MaxJobs,  \* jobs of a session. Bounds the model.
  Cap       \* of pending

(* The queue takes one job at least: max(1, cap).                          *)
QueueConstants == MaxJobs \in Nat /\ Cap \in Nat \ {0}

Job == Session \X (1 .. MaxJobs)

VARIABLES
  sent,     \* jobs enqueued so far, by session
  pending,  \* from the oldest to the newest
  inflight, \* jobs that were started and did not settle
  pumpDue,  \* a microtask will call pump
  shutting, \* shuttingDown, and internalAbort is aborted
  stage,    \* of the command
  overran   \* jobs in flight when the grace of shutdown ended

vars == <<sent, pending, inflight, pumpDue, shutting, stage, overran>>

Init ==
  /\ sent = [s \in Session |-> 0]
  /\ pending = <<>> /\ inflight = {}
  /\ pumpDue = FALSE /\ shutting = FALSE
  /\ stage = "command"
  /\ overran = {}

Waiting   == {pending[i] : i \in DOMAIN pending}
Running(s) == {j \in inflight : j[1] = s}
-----------------------------------------------------------------------------
(* enqueue, for a page that was written; the oldest job gives way.         *)
Enqueue(s) ==
  /\ stage = "command" /\ sent[s] < MaxJobs
  /\ sent' = [sent EXCEPT ![s] = sent[s] + 1]
  /\ pending' = Append(IF Len(pending) >= Cap THEN Tail(pending) ELSE pending,
                       <<s, sent[s] + 1>>)
  /\ pumpDue' = TRUE
  /\ UNCHANGED <<inflight, shutting, stage, overran>>

(* The jobs a pump starts: the first of each session that has none in      *)
(* flight.                                                                 *)
Startable ==
  {i \in DOMAIN pending :
     /\ Running(pending[i][1]) = {}
     /\ \A k \in 1 .. i - 1 : pending[k][1] # pending[i][1]}

(* Mutant: pump starts whatever is pending.                                *)
PumpAnyone ==
  /\ pumpDue /\ pumpDue' = FALSE
  /\ inflight' = IF shutting THEN inflight ELSE inflight \cup Waiting
  /\ pending' = IF shutting THEN pending ELSE <<>>
  /\ UNCHANGED <<sent, shutting, stage, overran>>

(* What is left in pending stays in its order.                             *)
Pump ==
  /\ pumpDue /\ pumpDue' = FALSE
  /\ LET started == IF shutting THEN {} ELSE Startable
         left    == DOMAIN pending \ started
     IN /\ inflight' = inflight \cup {pending[i] : i \in started}
        /\ \E at \in [1 .. Cardinality(left) -> left] :
             /\ \A k, m \in DOMAIN at : k < m => at[k] < at[m]
             /\ pending' = [k \in DOMAIN at |-> pending[at[k]]]
  /\ UNCHANGED <<sent, shutting, stage, overran>>

(* Mutant: a job that ends does not look for the next one.                 *)
SettleQuietly(j) ==
  /\ j \in inflight
  /\ inflight' = inflight \ {j}
  /\ UNCHANGED <<sent, pending, pumpDue, shutting, stage, overran>>

(* The end of runEntry, whatever became of the job.                        *)
Settle(j) ==
  /\ j \in inflight
  /\ inflight' = inflight \ {j}
  /\ pumpDue' = TRUE
  /\ UNCHANGED <<sent, pending, shutting, stage, overran>>
-----------------------------------------------------------------------------
(* The command is done, and drainPending polls.                            *)
Drain ==
  /\ stage = "command"
  /\ stage' = "draining"
  /\ UNCHANGED <<sent, pending, inflight, pumpDue, shutting, overran>>

(* Mutant: what is in flight does not count as unfinished.                 *)
DrainedIfNonePending ==
  /\ stage = "draining" /\ ~pumpDue
  /\ pending = <<>>
  /\ stage' = "drained"
  /\ UNCHANGED <<sent, pending, inflight, pumpDue, shutting, overran>>

Drained ==
  /\ stage = "draining" /\ ~pumpDue
  /\ pending = <<>> /\ inflight = {}
  /\ stage' = "drained"
  /\ UNCHANGED <<sent, pending, inflight, pumpDue, shutting, overran>>

(* The drain's time is up with work left: shutdown.                        *)
Shutdown ==
  /\ stage = "draining" /\ ~pumpDue
  /\ Waiting \cup inflight # {}
  /\ shutting' = TRUE
  /\ stage' = "shutdown"
  /\ UNCHANGED <<sent, pending, inflight, pumpDue, overran>>

(* All settled, or the grace is over: pending jobs are dropped.            *)
Drop ==
  /\ stage = "shutdown" /\ ~pumpDue
  /\ pending' = <<>>
  /\ overran' = inflight
  /\ stage' = "drained"
  /\ UNCHANGED <<sent, inflight, pumpDue, shutting>>

(* The other sinks are drained, and engine.disconnect() follows.           *)
Disconnect ==
  /\ stage = "drained" /\ ~pumpDue
  /\ stage' = "closed"
  /\ UNCHANGED <<sent, pending, inflight, pumpDue, shutting, overran>>

Teardown == Drain \/ Drained \/ Shutdown \/ Drop \/ Disconnect
Next ==
  \/ \E s \in Session : Enqueue(s)
  \/ Pump
  \/ \E j \in Job : Settle(j)
  \/ Teardown
Spec == Init /\ [][Next]_vars
-----------------------------------------------------------------------------
(* A session's facts are extracted one page after the other, in the order  *)
(* the pages were written: a job starts when no other job of its session   *)
(* runs, and none that is older starts after it.                           *)
SessionsInOrder ==
  [][\A j \in inflight' \ inflight :
       /\ {k \in inflight' : k[1] = j[1]} = {j}
       /\ \A k \in Waiting' : k[1] = j[1] => k[2] > j[2]]_vars

(* When the database is closed nothing is left that would write to it: but *)
(* for jobs that did not heed the abort for the time of the grace.         *)
TeardownIsQuiet == stage = "closed" => inflight \subseteq overran /\ pending = <<>>

(* No session is forgotten: if its jobs end, its pending ones are started  *)
(* (or dropped) at last.                                                   *)
SessionsMoveOn ==
  \A s \in Session :
    []<>(Running(s) = {}) => []<>(\A j \in Waiting : j[1] # s)
-----------------------------------------------------------------------------
(* Microtasks run, and the time that shutdown gives running jobs ends.     *)
Fairness == WF_vars(Pump) /\ WF_vars(Drop)
FairSpec == Spec /\ Fairness
=============================================================================
