------------------------------ MODULE FamilyTx ------------------------------
(***************************************************************************)
(* MinionQueue takes every transaction of src/core/minions/queue.ts as one *)
(* atomic step.  On PGLite, with its single connection, that is what       *)
(* happens.  On Postgres the transactions of several processes interleave  *)
(* statement by statement under READ COMMITTED: a statement sees the rows  *)
(* committed when it starts and the writes of its own transaction, waits   *)
(* for the row locks of the others, and then looks at the newest version   *)
(* of the row it waited for, but not again at the rows of its subqueries.  *)
(*                                                                         *)
(* This module plays the calls that settle or add children of ONE parent   *)
(* at that grain.  Row locks and the KEY SHARE lock that the foreign key   *)
(* of minion_inbox takes on the parent are explicit; a cycle of waits is   *)
(* resolved by aborting one of its members, as Postgres does.              *)
(*                                                                         *)
(* Claims are left out: every child in the game is active when it starts   *)
(* and its worker holds the lock token until somebody settles the row.     *)
(***************************************************************************)
EXTENDS Naturals, FiniteSets

CONSTANTS
  Child,        (* The children of the parent, and those yet to be added.   *)
  Unborn,       (* The children that only an add call inserts.              *)
  Parent,       (* The parent.                                              *)
  Games,        (* The sets of calls that may be made together.             *)
  Policies,     (* on_child_fail, which the children share.                 *)
  MaxChildren   (* Column max_children of the parent.                       *)

Job == Child \cup {Parent}

(* Each call is made at most once, by a connection of its own.             *)
Calls == UNION Games

(* retry and fail are failJob with status delayed and dead.                *)
Op == {"complete", "retry", "fail", "cancel", "timeout", "add"}

(* An add inserts a new row.  The parent of the game waits for children,   *)
(* so it has one, and add let in as many as its column allows.             *)
ASSUME FamilyAssumption ==
  /\ Parent \notin Child
  /\ Unborn \subseteq Child
  /\ Calls \subseteq [op : Op, job : Job]
  /\ \A t \in Calls : t.op = "add" => t.job \in Unborn
  /\ IsFiniteSet(Child) /\ Unborn # Child
  /\ Cardinality(Child \ Unborn) <= MaxChildren
  /\ Policies \subseteq {"fail_parent", "remove_dep", "ignore"}
  /\ MaxChildren \in Nat

VARIABLES
  rows,     (* The committed rows.                                          *)
  inbox,    (* The committed child_done messages in the parent's inbox.     *)
  policy,   (* Column on_child_fail of the children.                        *)
  locks,    (* Row locks held: call, job and mode.                          *)
  tx        (* Per call, where its transaction is and what it has written.  *)

vars == <<rows, inbox, policy, locks, tx>>
-----------------------------------------------------------------------------
OpenStatus == {"active", "waiting", "delayed", "waiting-children"}
Settled    == {"completed", "dead", "failed", "cancelled"}
Status     == OpenStatus \cup Settled \cup {"absent"}
Row        == [status : Status, linked : BOOLEAN]  \* linked: parent_job_id is set
NoWrite    == [status |-> "absent", linked |-> TRUE]

Outcome == [complete |-> "complete", fail |-> "dead",
            cancel |-> "cancelled",  timeout |-> "timeout"]

(* The status that each call gives a child.                                *)
Verdict == [complete |-> "completed", retry |-> "delayed", fail |-> "dead",
            cancel   |-> "cancelled", timeout |-> "dead"]

Message == [child : Child, outcome : {"complete", "dead", "cancelled", "timeout"}]

PC == {"idle", "lockParent", "insert", "settle", "sweep", "post", "posting",
       "policy", "resolve", "resolving", "commit", "done", "failed"}

Tx == [pc : PC, op : Op, todo : SUBSET Job, wrote : [Job -> Row], out : SUBSET Message]

NewTx(op) == [pc |-> "idle", op |-> op, todo |-> {}, wrote |-> [n \in Job |-> NoWrite],
              out |-> {}]

(* What a statement of call t sees when it starts now.                     *)
View(t) == [n \in Job |-> IF tx[t].wrote[n] = NoWrite THEN rows[n] ELSE tx[t].wrote[n]]

IsOpen(row)       == row.status \in OpenStatus
OpenChildren(tbl) == {c \in Child : tbl[c].linked /\ IsOpen(tbl[c])}

(* SELECT ... FOR UPDATE, UPDATE (FOR NO KEY UPDATE) and the foreign key   *)
(* check (FOR KEY SHARE), as Postgres makes them conflict.                 *)
Conflict(m, n) == "update" \in {m, n} \/ (m = "nokey" /\ n = "nokey")

Holders(t, n, mode) ==
  {l.call : l \in {k \in locks : k.call # t /\ k.job = n /\ Conflict(k.mode, mode)}}

Lock(t, n, mode) ==
  /\ Holders(t, n, mode) = {}
  /\ locks' = locks \cup {[call |-> t, job |-> n, mode |-> mode]}

Goto(t, pc) == tx' = [tx EXCEPT ![t].pc = pc]

(* The end of a transaction, committed or not.                             *)
Finish(t, pc) ==
  /\ tx'    = [tx EXCEPT ![t] = [NewTx(tx[t].op) EXCEPT !.pc = pc]]
  /\ locks' = {l \in locks : l.call # t}
-----------------------------------------------------------------------------
(* completeJob and failJob peek at parent_job_id; add was told the parent; *)
(* cancelJob and handleTimeouts select their rows.                         *)
Peek(t) == IF rows[t.job].linked THEN "lockParent" ELSE "settle"

Begin(t) ==
  /\ tx[t].pc = "idle"
  /\ CASE tx[t].op \in {"complete", "retry", "fail"} -> Goto(t, Peek(t))
       [] tx[t].op = "add" -> Goto(t, "lockParent")
       [] tx[t].op = "cancel" ->
            LET reached == IF t.job = Parent THEN {Parent} \cup {c \in Child : rows[c].linked}
                           ELSE {t.job}
            IN tx' = [tx EXCEPT ![t].pc = "sweep",
                                ![t].todo = {n \in reached : IsOpen(rows[n])}]
       [] tx[t].op = "timeout" ->
            \E S \in SUBSET {c \in Child : rows[c].status = "active"} :
              S # {} /\ tx' = [tx EXCEPT ![t].pc = "sweep", ![t].todo = S]
  /\ UNCHANGED <<rows, inbox, policy, locks>>

AfterLock(t) == Goto(t, IF tx[t].op = "add" THEN "insert" ELSE "settle")

(* Mutant: the parent is read, not locked.                                 *)
LockParentNot(t) ==
  /\ tx[t].pc = "lockParent"
  /\ AfterLock(t)
  /\ UNCHANGED <<rows, inbox, policy, locks>>

(* SELECT id FROM minion_jobs WHERE id = parent FOR UPDATE.                *)
LockParent(t) ==
  /\ tx[t].pc = "lockParent"
  /\ Lock(t, Parent, "update")
  /\ AfterLock(t)
  /\ UNCHANGED <<rows, inbox, policy>>

(* add, the parent being locked: count the live children, insert the child *)
(* and flip the parent.  Nobody sees the new row before the commit.        *)
Insert(t) ==
  /\ tx[t].pc = "insert"
  /\ IF Cardinality(OpenChildren(View(t))) >= MaxChildren
     THEN Finish(t, "failed")
     ELSE /\ tx' = [tx EXCEPT
               ![t].pc = "commit",
               ![t].wrote[t.job] = [status |-> "waiting", linked |-> TRUE],
               ![t].wrote[Parent] =
                 IF rows[Parent].status \in {"waiting", "active", "delayed"}
                 THEN [status |-> "waiting-children", linked |-> FALSE]
                 ELSE NoWrite]
          /\ UNCHANGED locks
  /\ UNCHANGED <<rows, inbox, policy>>

(* Mutant: the UPDATE does not look at the row again after waiting.        *)
SettleBlindly(t) ==
  /\ tx[t].pc = "settle"
  /\ Lock(t, t.job, "nokey")
  /\ tx' = [tx EXCEPT
              ![t].wrote[t.job] = [rows[t.job] EXCEPT !.status = Verdict[tx[t].op]],
              ![t].pc = IF tx[t].op = "retry" \/ ~rows[t.job].linked THEN "commit" ELSE "post",
              ![t].todo = {t.job}]
  /\ UNCHANGED <<rows, inbox, policy>>

(* UPDATE ... WHERE id = job AND status = 'active' AND lock_token = ...,   *)
(* once the row is free; no row, no effect.                                *)
Settle(t) ==
  /\ tx[t].pc = "settle"
  /\ IF rows[t.job].status # "active"
     THEN Finish(t, "done")
     ELSE /\ Lock(t, t.job, "nokey")
          /\ tx' = [tx EXCEPT
               ![t].wrote[t.job] = [rows[t.job] EXCEPT !.status = Verdict[tx[t].op]],
               ![t].pc = IF tx[t].op = "retry" \/ ~rows[t.job].linked THEN "commit"
                         ELSE "post",
               ![t].todo = {t.job}]
  /\ UNCHANGED <<rows, inbox, policy>>

(* The UPDATE of cancelJob and of handleTimeouts takes its rows one at a   *)
(* time, in any order, and looks at each again when it has the lock.       *)
SweepRow(t) ==
  /\ tx[t].pc = "sweep"
  /\ \E n \in tx[t].todo :
       LET ours == IF tx[t].op = "cancel" THEN IsOpen(rows[n])
                   ELSE rows[n].status = "active"
       IN /\ IF ours THEN Lock(t, n, "nokey") ELSE UNCHANGED locks
          /\ tx' = [tx EXCEPT
               ![t].todo = tx[t].todo \ {n},
               ![t].wrote[n] = IF ours
                               THEN [rows[n] EXCEPT !.status = Verdict[tx[t].op]]
                               ELSE NoWrite]
  /\ UNCHANGED <<rows, inbox, policy>>

(* Mutant: a timeout kills without telling the parent.                     *)
SweepDoneQuiet(t) ==
  /\ tx[t].pc = "sweep" /\ tx[t].todo = {}
  /\ IF tx[t].wrote = [n \in Job |-> NoWrite]
     THEN Finish(t, "done")
     ELSE Goto(t, IF tx[t].op = "cancel" THEN "post" ELSE "resolve") /\ UNCHANGED locks
  /\ UNCHANGED <<rows, inbox, policy>>

(* The UPDATE returned its rows: tell their parent, if they have one.      *)
SweepDone(t) ==
  /\ tx[t].pc = "sweep" /\ tx[t].todo = {}
  /\ IF tx[t].wrote = [n \in Job |-> NoWrite]
     THEN Finish(t, "done")
     ELSE /\ tx' = [tx EXCEPT
               ![t].pc = "post",
               ![t].todo = {c \in Child : tx[t].wrote[c] # NoWrite /\ tx[t].wrote[c].linked}]
          /\ UNCHANGED locks
  /\ UNCHANGED <<rows, inbox, policy>>
-----------------------------------------------------------------------------
(* INSERT INTO minion_inbox ... WHERE EXISTS (the parent is open): first   *)
(* the test, then the insertion, whose foreign key locks the parent.       *)
Post(t) ==
  /\ tx[t].pc = "post"
  /\ IF tx[t].todo = {}
     THEN Goto(t, IF tx[t].op = "fail" THEN "policy" ELSE "resolve")
     ELSE IF IsOpen(View(t)[Parent])
          THEN Goto(t, "posting")
          ELSE \E c \in tx[t].todo : tx' = [tx EXCEPT ![t].todo = tx[t].todo \ {c}]
  /\ UNCHANGED <<rows, inbox, policy, locks>>

Posting(t) ==
  /\ tx[t].pc = "posting"
  /\ Lock(t, Parent, "share")
  /\ \E c \in tx[t].todo :
       tx' = [tx EXCEPT
                ![t].pc   = "post",
                ![t].todo = tx[t].todo \ {c},
                ![t].out  = tx[t].out \cup {[child |-> c, outcome |-> Outcome[tx[t].op]]}]
  /\ UNCHANGED <<rows, inbox, policy>>

(* on_child_fail; the parent is locked by failJob already.                 *)
Policy(t) ==
  /\ tx[t].pc = "policy"
  /\ CASE policy = "fail_parent" ->
            tx' = [tx EXCEPT
                     ![t].pc = "commit",
                     ![t].wrote[Parent] =
                       IF View(t)[Parent].status = "waiting-children"
                       THEN [status |-> "failed", linked |-> FALSE]
                       ELSE tx[t].wrote[Parent]]
       [] policy = "remove_dep" ->
            tx' = [tx EXCEPT ![t].pc = "resolve", ![t].wrote[t.job].linked = FALSE]
       [] OTHER -> Goto(t, "resolve")
  /\ UNCHANGED <<rows, inbox, policy, locks>>

(* Mutant: children that are delayed for a retry are not counted.          *)
ResolveUnlessActive(t) ==
  /\ tx[t].pc = "resolve"
  /\ Goto(t, IF /\ View(t)[Parent].status = "waiting-children"
                /\ \A c \in Child : View(t)[c].status # "active"
             THEN "resolving" ELSE "commit")
  /\ UNCHANGED <<rows, inbox, policy, locks>>

(* UPDATE parent SET status = 'waiting' WHERE status = 'waiting-children'  *)
(* AND NOT EXISTS (an open child): both conditions are evaluated on the    *)
(* statement's snapshot, the first one again once the row is free.         *)
Resolve(t) ==
  /\ tx[t].pc = "resolve"
  /\ Goto(t, IF View(t)[Parent].status = "waiting-children" /\ OpenChildren(View(t)) = {}
             THEN "resolving" ELSE "commit")
  /\ UNCHANGED <<rows, inbox, policy, locks>>

Resolving(t) ==
  /\ tx[t].pc = "resolving"
  /\ Lock(t, Parent, "nokey")
  /\ tx' = [tx EXCEPT ![t].pc = "commit",
                      ![t].wrote[Parent] =
                         IF View(t)[Parent].status = "waiting-children"
                         THEN [status |-> "waiting", linked |-> FALSE]
                         ELSE tx[t].wrote[Parent]]
  /\ UNCHANGED <<rows, inbox, policy>>

Commit(t) ==
  /\ tx[t].pc = "commit"
  /\ rows'  = View(t)
  /\ inbox' = inbox \cup tx[t].out
  /\ Finish(t, "done")
  /\ UNCHANGED policy
-----------------------------------------------------------------------------
(* Deadlocks.                                                              *)

(* The calls that call t waits for at the statement it is in.              *)
WaitsFor(t) ==
  CASE tx[t].pc = "lockParent" -> Holders(t, Parent, "update")
    [] tx[t].pc = "settle" /\ rows[t.job].status = "active" -> Holders(t, t.job, "nokey")
    [] tx[t].pc = "sweep" -> UNION {Holders(t, n, "nokey") : n \in tx[t].todo}
    [] tx[t].pc = "posting" -> Holders(t, Parent, "share")
    [] tx[t].pc = "resolving" -> Holders(t, Parent, "nokey")
    [] OTHER -> {}

Deadlocked(t) ==
  /\ WaitsFor(t) # {}
  /\ \E S \in SUBSET {u \in Calls : WaitsFor(u) # {}} :
       /\ t \in S
       /\ \A u \in S : WaitsFor(u) \cap S # {}

(* Mutant: the connection of the victim is not rolled back.                *)
AbortKeepingLocks(t) ==
  /\ Deadlocked(t)
  /\ tx' = [tx EXCEPT ![t] = [NewTx(tx[t].op) EXCEPT !.pc = "failed"]]
  /\ UNCHANGED <<rows, inbox, policy, locks>>

(* Postgres aborts one member of the cycle.  When completeJob throws, the  *)
(* worker takes that for a failure of the handler and calls failJob; an    *)
(* exception of any other call ends it.                                    *)
Abort(t) ==
  /\ Deadlocked(t)
  /\ IF tx[t].op = "complete"
     THEN /\ \E op \in {"retry", "fail"} :
               tx' = [tx EXCEPT ![t] = [NewTx(op) EXCEPT !.pc = Peek(t)]]
          /\ locks' = {l \in locks : l.call # t}
     ELSE Finish(t, "failed")
  /\ UNCHANGED <<rows, inbox, policy>>

Step(t) ==
  \/ LockParent(t) \/ Insert(t) \/ Settle(t) \/ SweepRow(t) \/ SweepDone(t)
  \/ Post(t) \/ Posting(t) \/ Policy(t) \/ Resolve(t) \/ Resolving(t)
  \/ Commit(t)
-----------------------------------------------------------------------------
Init ==
  /\ rows = [n \in Job |->
               CASE n = Parent   -> [status |-> "waiting-children", linked |-> FALSE]
                 [] n \in Unborn -> [status |-> "absent", linked |-> FALSE]
                 [] OTHER        -> [status |-> "active", linked |-> TRUE]]
  /\ inbox = {}
  /\ policy \in Policies
  /\ locks = {}
  /\ \E made \in Games :
       tx = [t \in Calls |-> IF t \in made THEN NewTx(t.op)
                             ELSE [NewTx(t.op) EXCEPT !.pc = "done"]]

Next == \E t \in Calls : Begin(t) \/ Step(t) \/ Abort(t)

(* A statement runs once the locks it needs are free, and Postgres detects *)
(* deadlocks (deadlock_timeout); nobody has to make a call.                *)
Spec == Init /\ [][Next]_vars /\ \A t \in Calls : WF_vars(Step(t)) /\ WF_vars(Abort(t))
-----------------------------------------------------------------------------
(* Rows, messages, locks and transactions stay within what the CHECK       *)
(* constraints of minion_jobs and the type ChildDoneMessage allow.         *)
TypeOK ==
  /\ rows \in [Job -> Row]
  /\ inbox \subseteq Message
  /\ policy \in Policies
  /\ locks \subseteq [call : Calls, job : Job, mode : {"update", "nokey", "share"}]
  /\ tx \in [Calls -> Tx]

(* No call is under way.                                                   *)
Quiet == \A t \in Calls : tx[t].pc \in {"idle", "done", "failed"}

(* However the calls interleave, when they are over a parent that waits    *)
(* for children has an open child: somebody will wake it.  (completeJob    *)
(* and failJob lock the parent to this end.)                               *)
NoParentStranded ==
  Quiet /\ rows[Parent].status = "waiting-children" => OpenChildren(rows) # {}

(* A parent is never woken while a child is open, not even by a call that  *)
(* counted the children before another one was added.                      *)
NoEarlyWake == rows[Parent].status = "waiting" => OpenChildren(rows) = {}

(* Two calls that race for a child never both win: the inbox has one       *)
(* message per settled child, and it says what the row says.               *)
OneOutcomePerChild ==
  \A c \in Child :
    LET said == {m \in inbox : m.child = c}
    IN /\ Cardinality(said) <= 1
       /\ \A m \in said : \E op \in DOMAIN Outcome :
            m.outcome = Outcome[op] /\ rows[c].status = Verdict[op]

(* A parent that is still open has a message of every settled child.       *)
EveryOutcomeReported ==
  IsOpen(rows[Parent]) =>
    \A c \in Child : rows[c].status \in Settled => \E m \in inbox : m.child = c

(* Concurrent submissions never exceed max_children.                       *)
ChildCapHolds == Cardinality(OpenChildren(rows)) <= MaxChildren

(* Every call that began ends: the lock order of the calls is not the      *)
(* same, so this rests on the detection of deadlocks and on every abort    *)
(* letting the others go on.                                               *)
CallsEnd ==
  \A t \in Calls : tx[t].pc # "idle" ~> tx[t].pc \in {"done", "failed"}
=============================================================================
