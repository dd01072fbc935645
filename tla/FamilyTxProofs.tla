--------------------------- MODULE FamilyTxProofs ---------------------------
(***************************************************************************)
(* Proofs about FamilyTx, for any children, calls, policies and cap: what  *)
(* the row locks of one family's transactions keep true.                   *)
(*                                                                         *)
(* A transaction that wrote a row holds it until it commits, and found it  *)
(* open under that lock (Writes).  From its resolve on, a transaction      *)
(* holds the parent, for update or by the foreign key of a message, unless *)
(* it found the parent closed, which is for good (Parents).  So between a  *)
(* count of the open children and the commit that acts on it, no call adds *)
(* a child, and none but another sweep settles one.                        *)
(***************************************************************************)
EXTENDS FamilyTx, FiniteSetTheorems, TLAPS

Lockers  == {"complete", "retry", "fail"}
Sweepers == {"cancel", "timeout"}
Loud     == {"complete", "fail", "cancel", "timeout"}
Posts    == {"post", "posting"}
Written  == Posts \cup {"policy", "resolve", "resolving", "commit"}

Modes    == {"update", "nokey", "share"}

Has(u, n, mode) == [call |-> u, job |-> n, mode |-> mode] \in locks
Owns(u, n)      == Has(u, n, "update") \/ Has(u, n, "nokey")
Wrote(u, n)     == tx[u].wrote[n] # NoWrite
Closed(u)       == ~IsOpen(View(u)[Parent])

(* The locks that are held do not conflict.                                *)
Excl ==
  \A u, v \in Calls, n \in Job, m, k \in Modes :
    u # v /\ Has(u, n, m) /\ Has(v, n, k) => ~Conflict(m, k)

(* What is said of the committed rows also of those in a view.             *)
Family(tbl) ==
  /\ tbl[Parent].status \in {"waiting-children", "waiting", "failed", "cancelled"}
  /\ \A c \in Child : IsOpen(tbl[c]) => tbl[c].linked

(* One message per settled child, while the parent takes messages.         *)
Inbox ==
  /\ \A m \in inbox : \E op \in Loud :
       m.outcome = Outcome[op] /\ rows[m.child].status = Verdict[op]
  /\ \A m, k \in inbox : m.child = k.child => m = k
  /\ EveryOutcomeReported

(* Where a transaction of each kind can be.                                *)
Places(u) ==
  /\ tx[u].op = u.op \/ (u.op = "complete" /\ tx[u].op \in Lockers)
  /\ tx[u].op = "add" => tx[u].pc \in {"idle", "lockParent", "insert", "commit", "done", "failed"}
  /\ tx[u].op \in Lockers => tx[u].pc \notin {"insert", "sweep"}
  /\ tx[u].op \in Sweepers => tx[u].pc \notin {"lockParent", "insert", "settle", "policy"}
  /\ tx[u].op = "retry" => tx[u].pc \notin Written \ {"commit"}
  /\ tx[u].pc = "policy" => tx[u].op = "fail"

(* How a transaction holds its parent.                                     *)
Parents(u) ==
  /\ tx[u].op \notin Sweepers /\ tx[u].pc \in Written \cup {"insert"} => Has(u, Parent, "update")
  /\ tx[u].pc = "settle" => Has(u, Parent, "update") \/ rows[u.job].status # "active"
  /\ tx[u].op \in Sweepers /\ tx[u].pc \in Written =>
       \/ tx[u].pc \in Posts /\ tx[u].todo # {}
       \/ Has(u, Parent, "share")
       \/ Closed(u)
  /\ tx[u].pc = "resolving" => Has(u, Parent, "share") \/ Has(u, Parent, "update")
  /\ u.op = "cancel" /\ u.job = Parent =>
       /\ tx[u].pc = "sweep" => Parent \in tx[u].todo \/ Closed(u)
       /\ tx[u].pc \in Written => Closed(u)

(* What a transaction wrote.                                               *)
Writes(u) ==
  /\ tx[u].pc \notin Written \cup {"sweep"} => \A n \in Job : ~Wrote(u, n)
  /\ \A c \in Child : Wrote(u, c) =>
       /\ IsOpen(tx[u].wrote[c]) \/ tx[u].pc = "sweep" => tx[u].wrote[c].linked
       /\ \/ /\ tx[u].op = "add" /\ c = u.job
             /\ tx[u].wrote[c].status = "waiting"
          \/ /\ tx[u].op # "add" /\ Owns(u, c)
             /\ IsOpen(rows[c])
             /\ tx[u].wrote[c].status = Verdict[tx[u].op]
  /\ Wrote(u, Parent) =>
       /\ Owns(u, Parent) /\ IsOpen(rows[Parent])
       /\ tx[u].wrote[Parent].status \in {"waiting-children", "waiting", "failed", "cancelled"}
       /\ tx[u].pc = "sweep" => tx[u].wrote[Parent].status = "cancelled"
       /\ tx[u].wrote[Parent].status = "waiting" => tx[u].pc = "commit"
  /\ tx[u].op \in Lockers /\ tx[u].pc \in Written => u.job \in Child /\ Wrote(u, u.job)
  /\ tx[u].op = "add" => /\ tx[u].pc # "done" => rows[u.job].status = "absent"
                         /\ tx[u].pc = "commit" => Wrote(u, u.job)

(* What it has told the parent, and has to.                                *)
Tells(u) ==
  /\ tx[u].pc \notin Written => tx[u].out = {}
  /\ tx[u].pc \in Posts => tx[u].todo \subseteq {c \in Child : Wrote(u, c)}
  /\ tx[u].op \in Loud /\ tx[u].pc \in Written \ Posts => tx[u].todo = {}
  /\ \A m \in tx[u].out :
       tx[u].op \in Loud /\ Wrote(u, m.child) /\ m.outcome = Outcome[tx[u].op]
  /\ tx[u].op \in Loud /\ tx[u].pc \in Written => \A c \in Child : Wrote(u, c) =>
       c \in tx[u].todo \/ (\E m \in tx[u].out : m.child = c) \/ Closed(u)

(* Calls that settle children without locking the parent: when no two of   *)
(* them are made together, a parent that waits has an open child.          *)
Unlocked(u) == u.op = "timeout" \/ (u.op = "cancel" /\ u.job # Parent)
OneSweep    == \A G \in Games : \A u, v \in G : Unlocked(u) /\ Unlocked(v) => u = v
Waits(tbl)  == tbl[Parent].status = "waiting-children" => OpenChildren(tbl) # {}

(* What it counted is still true.                                          *)
Counts(u) ==
  /\ tx[u].pc = "resolving" => OpenChildren(View(u)) = {}
  /\ tx[u].pc = "commit" /\ View(u)[Parent].status = "waiting" => OpenChildren(View(u)) = {}
  /\ tx[u].pc = "commit" /\ tx[u].op = "add" => Cardinality(OpenChildren(rows)) < MaxChildren
  /\ tx[u].pc = "commit" /\ OneSweep => Waits(View(u))

TxOk(u) == Places(u) /\ Parents(u) /\ Writes(u) /\ Tells(u) /\ Counts(u)

(* The calls that are made belong to one game.                             *)
Gaming == \E G \in Games : \A u \in Calls : tx[u].pc # "done" => u \in G

IInv ==
  /\ TypeOK /\ Excl /\ Family(rows) /\ Inbox /\ NoEarlyWake /\ ChildCapHolds /\ Gaming
  /\ OneSweep => Waits(rows)
  /\ \A u \in Calls : TxOk(u)
-----------------------------------------------------------------------------
(* A step of call t leaves the rows and the other calls alone.             *)
Others(t) ==
  /\ UNCHANGED <<rows, inbox, policy>>
  /\ \A u \in Calls \ {t} : tx'[u] = tx[u]
  /\ \A u \in Calls \ {t}, n \in Job, m \in Modes : Has(u, n, m)' <=> Has(u, n, m)

LEMMA Calling ==
  /\ \A t \in Calls : t.op \in Op /\ t.job \in Job /\ t = [op |-> t.op, job |-> t.job]
  /\ Parent \in Job /\ Parent \notin Child /\ Job = Child \cup {Parent}
  /\ \A t \in Calls : t.op = "add" => t.job \in Child
BY FamilyAssumption DEF Job

(* The view of a call that does not move.                                  *)
LEMMA SameView ==
  ASSUME NEW u \in Calls, rows' = rows, tx'[u] = tx[u] PROVE View(u)' = View(u)
BY DEF View

(* Taking a lock.                                                          *)
LEMMA LockTaken ==
  ASSUME TypeOK, Excl, NEW t \in Calls, NEW n \in Job, NEW m \in Modes, Lock(t, n, m)
  PROVE  /\ locks' \subseteq [call : Calls, job : Job, mode : Modes]
         /\ Excl'
         /\ Has(t, n, m)'
         /\ \A k \in Job, o \in Modes : Has(t, k, o) => Has(t, k, o)'
         /\ \A u \in Calls \ {t}, k \in Job, o \in Modes : Has(u, k, o)' <=> Has(u, k, o)
<1>1. /\ locks' = locks \cup {[call |-> t, job |-> n, mode |-> m]}
      /\ Holders(t, n, m) = {}
  BY DEF Lock
<1>2. \A u \in Calls, k \in Job, o \in Modes :
        Has(u, k, o)' <=> Has(u, k, o) \/ (u = t /\ k = n /\ o = m)
  BY <1>1 DEF Has
<1>3. \A u \in Calls, o \in Modes : u # t /\ Has(u, n, o) => ~Conflict(o, m) /\ ~Conflict(m, o)
  <2> SUFFICES ASSUME NEW u \in Calls, NEW o \in Modes, u # t, Has(u, n, o)
               PROVE  ~Conflict(o, m) /\ ~Conflict(m, o)
    OBVIOUS
  <2> DEFINE l == [call |-> u, job |-> n, mode |-> o]
  <2>1. l \in locks /\ l.call = u /\ l.job = n /\ l.mode = o
    BY DEF Has
  <2>2. ~Conflict(l.mode, m)
    BY <1>1, <2>1 DEF Holders
  <2> QED
    BY <2>1, <2>2 DEF Conflict
<1>4. Excl'
  BY <1>2, <1>3 DEF Excl
<1> QED
  BY <1>1, <1>2, <1>4 DEF TypeOK, Modes

(* The end of a transaction.                                               *)
LEMMA Finished ==
  ASSUME TypeOK, Excl, NEW t \in Calls, NEW op \in Op, NEW pc \in PC,
         tx' = [tx EXCEPT ![t] = [NewTx(op) EXCEPT !.pc = pc]],
         locks' = {l \in locks : l.call # t}
  PROVE  /\ locks' \subseteq [call : Calls, job : Job, mode : Modes]
         /\ Excl'
         /\ \A u \in Calls \ {t}, k \in Job, o \in Modes : Has(u, k, o)' <=> Has(u, k, o)
         /\ tx' \in [Calls -> Tx]
         /\ \A u \in Calls \ {t} : tx'[u] = tx[u]
         /\ tx'[t].op = op /\ tx'[t].pc = pc
         /\ tx'[t].todo = {} /\ tx'[t].out = {}
         /\ \A n \in Job : ~Wrote(t, n)'
<1>1. \A u \in Calls, k \in Job, o \in Modes : Has(u, k, o)' <=> Has(u, k, o) /\ u # t
  BY DEF Has
<1>2. Excl'
  BY <1>1 DEF Excl
<1> DEFINE x == [NewTx(op) EXCEPT !.pc = pc]
<1>3. /\ x \in Tx /\ x.op = op /\ x.pc = pc /\ x.todo = {} /\ x.out = {}
      /\ x.wrote = [n \in Job |-> NoWrite]
  BY DEF Tx, NewTx, NoWrite, Row, Status
<1> HIDE DEF x
<1>4. /\ tx' \in [Calls -> Tx] /\ tx'[t] = x /\ \A u \in Calls \ {t} : tx'[u] = tx[u]
  BY <1>3 DEF x, TypeOK
<1>5. \A n \in Job : ~Wrote(t, n)'
  BY <1>3, <1>4 DEF Wrote
<1>6. locks' \subseteq [call : Calls, job : Job, mode : Modes]
  BY DEF TypeOK, Modes
<1> QED
  BY <1>1, <1>2, <1>3, <1>4, <1>5, <1>6

(* A call that does not move is as good as before.                         *)
LEMMA OthersOk ==
  ASSUME IInv, NEW t \in Calls, Others(t), NEW u \in Calls, u # t PROVE TxOk(u)'
<1>1. /\ rows' = rows /\ inbox' = inbox /\ tx'[u] = tx[u] /\ View(u)' = View(u)
      /\ \A n \in Job, m \in Modes : Has(u, n, m)' <=> Has(u, n, m)
      /\ \A n \in Job : Owns(u, n)' <=> Owns(u, n)
      /\ \A n \in Job : Wrote(u, n)' <=> Wrote(u, n)
      /\ Closed(u)' <=> Closed(u)
      /\ Parent \in Job /\ Child \subseteq Job
  BY SameView DEF Others, Owns, Wrote, Closed, Modes, Job
<1>2. TxOk(u)
  BY DEF IInv
<1> USE <1>1
<1>3. Places(u)'
  BY <1>2 DEF TxOk, Places
<1>4. Parents(u)'
  BY <1>2 DEF TxOk, Parents, Modes
<1>5. Writes(u)'
  BY <1>2 DEF TxOk, Writes, IsOpen, Wrote
<1>6. Tells(u)'
  BY <1>2 DEF TxOk, Tells, Wrote
<1>7. Counts(u)'
  BY <1>2 DEF TxOk, Counts, Waits
<1> QED
  BY <1>3, <1>4, <1>5, <1>6, <1>7 DEF TxOk

(* So a step of a call is right when the call is right after it.           *)
LEMMA StepOk ==
  ASSUME IInv, NEW t \in Calls, tx[t].pc # "done", Others(t), Excl', TxOk(t)',
         locks' \subseteq [call : Calls, job : Job, mode : Modes], tx' \in [Calls -> Tx]
  PROVE  IInv'
<1>1. \A u \in Calls : TxOk(u)'
  BY OthersOk
<1>2. /\ TypeOK' /\ Family(rows)' /\ Inbox' /\ NoEarlyWake' /\ ChildCapHolds'
      /\ OneSweep => Waits(rows)'
  BY DEF IInv, Others, TypeOK, Family, Inbox, NoEarlyWake, ChildCapHolds, EveryOutcomeReported,
         Modes, Waits, OpenChildren
<1>3. Gaming'
  BY DEF IInv, Others, Gaming
<1> QED
  BY <1>1, <1>2, <1>3 DEF IInv

(* A step that takes no lock.                                              *)
LEMMA NoLock ==
  ASSUME IInv, NEW t \in Calls, NEW x \in Tx, tx' = [tx EXCEPT ![t] = x],
         UNCHANGED <<rows, inbox, policy, locks>>
  PROVE  /\ Others(t) /\ Excl' /\ locks' \subseteq [call : Calls, job : Job, mode : Modes]
         /\ tx' \in [Calls -> Tx] /\ tx'[t] = x
         /\ \A n \in Job, m \in Modes : Has(t, n, m)' <=> Has(t, n, m)
<1>1. /\ tx' \in [Calls -> Tx] /\ tx'[t] = x /\ \A u \in Calls \ {t} : tx'[u] = tx[u]
  BY DEF IInv, TypeOK
<1>2. \A u \in Calls, n \in Job, m \in Modes : Has(u, n, m)' <=> Has(u, n, m)
  BY DEF Has
<1>3. Others(t)
  BY <1>1, <1>2 DEF Others
<1>4. Excl'
  BY <1>2 DEF IInv, Excl
<1>5. locks' \subseteq [call : Calls, job : Job, mode : Modes]
  BY DEF IInv, TypeOK, Modes
<1> QED
  BY <1>1, <1>2, <1>3, <1>4, <1>5

(* One that does.                                                          *)
LEMMA OneLock ==
  ASSUME IInv, NEW t \in Calls, NEW x \in Tx, tx' = [tx EXCEPT ![t] = x],
         UNCHANGED <<rows, inbox, policy>>, NEW n \in Job, NEW m \in Modes, Lock(t, n, m)
  PROVE  /\ Others(t) /\ Excl' /\ locks' \subseteq [call : Calls, job : Job, mode : Modes]
         /\ tx' \in [Calls -> Tx] /\ tx'[t] = x
         /\ Has(t, n, m)'
         /\ \A k \in Job, o \in Modes : Has(t, k, o) => Has(t, k, o)'
<1>1. /\ tx' \in [Calls -> Tx] /\ tx'[t] = x /\ \A u \in Calls \ {t} : tx'[u] = tx[u]
  BY DEF IInv, TypeOK
<1>2. TypeOK /\ Excl
  BY DEF IInv
<1> QED
  BY <1>1, <1>2, LockTaken DEF Others

(* Making a call.                                                          *)
LEMMA BeginOk == ASSUME IInv, NEW t \in Calls, Begin(t) PROVE IInv'
<1>1. /\ tx[t] \in Tx /\ tx[t].pc = "idle" /\ t.job \in Job /\ tx[t].op \in Op
      /\ UNCHANGED <<rows, inbox, policy, locks>>
  BY Calling DEF IInv, TypeOK, Begin, Tx
<1>2. TxOk(t) /\ Family(rows) /\ \A n \in Job : rows[n] \in Row
  BY DEF IInv, TypeOK
<1> DEFINE pc == IF tx[t].op \in Lockers THEN Peek(t) ELSE IF tx[t].op = "add" THEN "lockParent" ELSE "sweep"
<1>3. PICK todo \in SUBSET Job :
        /\ tx' = [tx EXCEPT ![t] = [tx[t] EXCEPT !.pc = pc, !.todo = todo]]
        /\ tx[t].op = "cancel" /\ t.job = Parent /\ IsOpen(rows[Parent]) => Parent \in todo
  <2>1. CASE tx[t].op \in Lockers \cup {"add"}
    <3>1. tx' = [tx EXCEPT ![t].pc = pc]
      BY <1>1, <2>1 DEF Begin, Goto, Lockers
    <3>2. tx' = [tx EXCEPT ![t] = [tx[t] EXCEPT !.pc = pc, !.todo = tx[t].todo]]
      BY <3>1, <1>1 DEF Tx
    <3> QED
      BY <3>2, <1>1, <2>1 DEF Tx, Lockers
  <2>2. CASE tx[t].op = "cancel"
    <3> DEFINE reached == IF t.job = Parent THEN {Parent} \cup {c \in Child : rows[c].linked}
                          ELSE {t.job}
               swept == {n \in reached : IsOpen(rows[n])}
    <3>1. tx' = [tx EXCEPT ![t].pc = "sweep", ![t].todo = swept]
      BY <2>2, <1>1 DEF Begin
    <3>2. swept \in SUBSET Job /\ (t.job = Parent /\ IsOpen(rows[Parent]) => Parent \in swept)
      BY <1>1 DEF Job
    <3> HIDE DEF swept
    <3>3. tx' = [tx EXCEPT ![t] = [tx[t] EXCEPT !.pc = pc, !.todo = swept]]
      BY <3>1, <2>2, <1>1 DEF Lockers, Tx, IInv, TypeOK
    <3> QED
      BY <3>2, <3>3
  <2>3. CASE tx[t].op = "timeout"
    <3>1. PICK S \in SUBSET {c \in Child : rows[c].status = "active"} :
            tx' = [tx EXCEPT ![t].pc = "sweep", ![t].todo = S]
      BY <2>3, <1>1 DEF Begin
    <3>2. tx' = [tx EXCEPT ![t] = [tx[t] EXCEPT !.pc = pc, !.todo = S]] /\ S \in SUBSET Job
      BY <3>1, <2>3, <1>1 DEF Lockers, Tx, IInv, TypeOK, Job
    <3> QED
      BY <3>2, <2>3
  <2> QED
    BY <1>1, <2>1, <2>2, <2>3 DEF Op, Lockers
<1>4. pc \in {"lockParent", "settle", "sweep"} /\ (pc = "settle" => ~rows[t.job].linked)
  BY DEF Peek
<1>5. pc = "settle" => rows[t.job].status # "active"
  BY <1>1, <1>2, <1>4, Calling DEF Family, IsOpen, OpenStatus
<1> DEFINE x == [tx[t] EXCEPT !.pc = pc, !.todo = todo]
<1>6. /\ x \in Tx /\ x.pc = pc /\ x.todo = todo /\ x.op = tx[t].op /\ x.wrote = tx[t].wrote
      /\ x.out = tx[t].out
  BY <1>1, <1>4 DEF Tx, PC
<1>7. (pc = "sweep" <=> x.op \in Sweepers) /\ (pc = "settle" => x.op \in Lockers)
      /\ (x.op \in Lockers \/ x.op = "add" \/ x.op \in Sweepers)
      /\ (x.op = "add" => pc = "lockParent")
  BY <1>1, <1>6 DEF Peek, Op, Lockers, Sweepers
<1> HIDE DEF x, pc
<1>8. /\ Others(t) /\ Excl' /\ locks' \subseteq [call : Calls, job : Job, mode : Modes]
      /\ tx' \in [Calls -> Tx] /\ tx'[t] = x
  BY <1>1, <1>3, <1>6, NoLock DEF x
<1>9. \A n \in Job : ~Wrote(t, n)' /\ View(t)'[n] = rows[n]
  BY <1>1, <1>2, <1>6, <1>8 DEF TxOk, Writes, Wrote, View, Written, Posts
<1>10. t.op = "cancel" /\ t.job = Parent => Parent \in todo \/ Closed(t)'
  <2>1. t.op = "cancel" => tx[t].op = "cancel"
    BY <1>2 DEF TxOk, Places
  <2> QED
    BY <2>1, <1>3, <1>9, Calling DEF Closed, IsOpen
<1>11. Places(t)' /\ Parents(t)'
  BY <1>1, <1>2, <1>4, <1>5, <1>6, <1>7, <1>8, <1>10
     DEF TxOk, Places, Parents, Lockers, Sweepers, Written, Posts
<1>12. Writes(t)' /\ Tells(t)' /\ Counts(t)'
  BY <1>1, <1>2, <1>4, <1>6, <1>8, <1>9, Calling DEF TxOk, Writes, Tells, Counts, Written, Posts
<1> QED
  BY <1>1, <1>8, <1>11, <1>12, StepOk DEF TxOk

(* A call that ends without a commit, or starts over as another one.       *)
LEMMA FinishOk ==
  ASSUME IInv, NEW t \in Calls, NEW op \in Op, NEW pc \in {"done", "failed", "lockParent", "settle"},
         tx' = [tx EXCEPT ![t] = [NewTx(op) EXCEPT !.pc = pc]],
         locks' = {l \in locks : l.call # t},
         UNCHANGED <<rows, inbox, policy>>,
         tx[t].pc # "done",
         op = tx[t].op \/ (t.op = "complete" /\ op \in Lockers),
         pc \in {"lockParent", "settle"} => op \in Lockers /\ pc = Peek(t)
  PROVE  IInv'
<1>1. /\ TypeOK /\ Excl /\ TxOk(t) /\ Family(rows) /\ t.job \in Job /\ rows[t.job] \in Row
      /\ pc \in PC
  BY Calling DEF IInv, TypeOK, PC
<1>2. /\ locks' \subseteq [call : Calls, job : Job, mode : Modes]
      /\ Excl'
      /\ Others(t)
      /\ tx' \in [Calls -> Tx]
      /\ tx'[t].op = op /\ tx'[t].pc = pc
      /\ tx'[t].todo = {} /\ tx'[t].out = {}
      /\ \A n \in Job : ~Wrote(t, n)'
  BY <1>1, Finished DEF Others
<1>3. pc = "settle" => rows[t.job].status # "active"
  BY <1>1, Calling DEF Family, IsOpen, OpenStatus, Peek
<1>4. Places(t)' /\ Parents(t)'
  BY <1>1, <1>2, <1>3 DEF TxOk, Places, Parents, Lockers, Sweepers, Written, Posts
<1>5. op = "add" => tx[t].op = "add"
  BY DEF Lockers
<1>6. Writes(t)' /\ Tells(t)' /\ Counts(t)'
  BY <1>1, <1>2, <1>5, Calling DEF TxOk, Writes, Tells, Counts, Written, Posts, Lockers
<1> QED
  BY <1>1, <1>2, <1>4, <1>6, StepOk DEF TxOk

(* SELECT ... FOR UPDATE of the parent.                                    *)
LEMMA LockParentOk == ASSUME IInv, NEW t \in Calls, LockParent(t) PROVE IInv'
<1> DEFINE pc == IF tx[t].op = "add" THEN "insert" ELSE "settle"
           x  == [tx[t] EXCEPT !.pc = pc]
<1>1. /\ tx[t] \in Tx /\ tx[t].pc = "lockParent" /\ Lock(t, Parent, "update")
      /\ UNCHANGED <<rows, inbox, policy>> /\ Parent \in Job /\ "update" \in Modes
      /\ tx' = [tx EXCEPT ![t] = x]
  BY Calling DEF IInv, TypeOK, LockParent, AfterLock, Goto, Modes
<1>2. /\ x \in Tx /\ x.pc = pc /\ x.op = tx[t].op /\ x.wrote = tx[t].wrote /\ x.out = tx[t].out
  BY <1>1 DEF Tx, PC
<1>3. pc \in {"insert", "settle"} /\ (pc = "insert" <=> x.op = "add")
  BY <1>2
<1> HIDE DEF x, pc
<1>4. /\ Others(t) /\ Excl' /\ locks' \subseteq [call : Calls, job : Job, mode : Modes]
      /\ tx' \in [Calls -> Tx] /\ tx'[t] = x /\ Has(t, Parent, "update")'
  BY <1>1, <1>2, OneLock
<1>5. TxOk(t)
  BY DEF IInv
<1>6. Places(t)' /\ Parents(t)'
  BY <1>1, <1>2, <1>3, <1>4, <1>5 DEF TxOk, Places, Parents, Lockers, Sweepers, Written, Posts
<1>7. \A n \in Job : ~Wrote(t, n)'
  BY <1>1, <1>2, <1>4, <1>5 DEF TxOk, Writes, Wrote, Written, Posts
<1>8. Writes(t)' /\ Tells(t)' /\ Counts(t)'
  BY <1>1, <1>2, <1>3, <1>4, <1>5, <1>7, Calling
     DEF TxOk, Writes, Tells, Counts, Written, Posts
<1> QED
  BY <1>1, <1>4, <1>6, <1>8, StepOk DEF TxOk

(* What a call sees of what it did not write.                              *)
LEMMA Sees ==
  ASSUME IInv, NEW t \in Calls
  PROVE  /\ \A n \in Job : View(t)[n] = IF Wrote(t, n) THEN tx[t].wrote[n] ELSE rows[n]
         /\ \A n \in Job : View(t)[n] \in Row
         /\ View(t) \in [Job -> Row]
<1>1. tx[t].wrote \in [Job -> Row] /\ rows \in [Job -> Row]
  BY DEF IInv, TypeOK, Tx
<1> QED
  BY <1>1 DEF View, Wrote

(* The open children are finitely many.                                    *)
LEMMA OpenCount ==
  ASSUME NEW tbl
  PROVE  /\ IsFiniteSet(OpenChildren(tbl)) /\ Cardinality(OpenChildren(tbl)) \in Nat
         /\ \A S : S \subseteq OpenChildren(tbl) =>
              IsFiniteSet(S) /\ Cardinality(S) <= Cardinality(OpenChildren(tbl))
         /\ MaxChildren \in Nat
<1>1. OpenChildren(tbl) \subseteq Child /\ IsFiniteSet(Child) /\ MaxChildren \in Nat
  BY FamilyAssumption DEF OpenChildren
<1>2. IsFiniteSet(OpenChildren(tbl))
  BY <1>1, FS_Subset
<1> QED
  BY <1>1, <1>2, FS_Subset, FS_CardinalityType

(* The insertion of a child under the lock of its parent.                  *)
LEMMA InsertOk == ASSUME IInv, NEW t \in Calls, Insert(t) PROVE IInv'
<1>1. /\ tx[t] \in Tx /\ tx[t].pc = "insert" /\ TxOk(t) /\ TypeOK /\ t.job \in Job
      /\ UNCHANGED <<rows, inbox, policy>> /\ Parent \in Job /\ "failed" \in PC /\ tx[t].op \in Op
  BY Calling DEF IInv, TypeOK, Insert, Modes, PC, Tx
<1>2. CASE Finish(t, "failed")
  BY <1>1, <1>2, FinishOk DEF Finish
<1>3. CASE ~Finish(t, "failed")
  <2>1. tx[t].op = "add" /\ t.op = "add" /\ t.job \in Child
    BY <1>1, Calling DEF TxOk, Places, Lockers, Sweepers, Op
  <2> DEFINE flip == IF rows[Parent].status \in {"waiting", "active", "delayed"}
                     THEN [status |-> "waiting-children", linked |-> FALSE] ELSE NoWrite
             new  == [status |-> "waiting", linked |-> TRUE]
             wrote == [tx[t].wrote EXCEPT ![t.job] = new, ![Parent] = flip]
             x == [tx[t] EXCEPT !.pc = "commit", !.wrote = wrote]
  <2>2. OpenChildren(View(t)) = OpenChildren(rows) /\ \A n \in Job : ~Wrote(t, n)
    BY <1>1, Sees, Calling DEF TxOk, Writes, OpenChildren, Written, Posts
  <2>3. /\ Cardinality(OpenChildren(rows)) < MaxChildren
        /\ UNCHANGED locks
        /\ tx' = [tx EXCEPT ![t].pc = "commit", ![t].wrote[t.job] = new, ![t].wrote[Parent] = flip]
    BY <1>3, <2>2, OpenCount DEF Insert
  <2>4. tx' = [tx EXCEPT ![t] = x]
    BY <1>1, <2>3 DEF Tx, TypeOK
  <2>5. new \in Row /\ flip \in Row /\ wrote \in [Job -> Row]
    BY <1>1 DEF Row, NoWrite, Status, OpenStatus, Tx
  <2>6. /\ wrote[Parent] = flip /\ wrote[t.job] = new
        /\ \A n \in Job \ {t.job, Parent} : wrote[n] = tx[t].wrote[n]
    BY <1>1, <2>1, Calling DEF Tx
  <2>7. new # NoWrite /\ new.status = "waiting" /\ new.linked
        /\ (flip # NoWrite => /\ flip.status = "waiting-children"
                              /\ rows[Parent].status \in {"waiting", "active", "delayed"})
        /\ (flip = NoWrite => rows[Parent].status # "waiting")
    BY DEF NoWrite
  <2> HIDE DEF wrote, new, flip
  <2>8. /\ x \in Tx /\ x.pc = "commit" /\ x.op = "add" /\ x.wrote = wrote /\ x.out = tx[t].out
    BY <1>1, <2>1, <2>5 DEF Tx, PC
  <2> HIDE DEF x
  <2>9. /\ Others(t) /\ Excl' /\ locks' \subseteq [call : Calls, job : Job, mode : Modes]
        /\ tx' \in [Calls -> Tx] /\ tx'[t] = x
        /\ \A n \in Job, m \in Modes : Has(t, n, m)' <=> Has(t, n, m)
    BY <1>1, <2>3, <2>4, <2>8, NoLock
  <2>10. Has(t, Parent, "update") /\ Has(t, Parent, "update")'
    BY <1>1, <2>1, <2>9 DEF TxOk, Parents, Sweepers, Modes
  <2>11. Places(t)' /\ Parents(t)'
    BY <1>1, <2>1, <2>8, <2>9, <2>10 DEF Places, Parents, Lockers, Sweepers, Written, Posts
  <2>12. \A n \in Job : Wrote(t, n)' => n = t.job \/ (n = Parent /\ flip # NoWrite)
    BY <1>1, <2>2, <2>6, <2>8, <2>9 DEF Wrote
  <2>13. Wrote(t, t.job)'
    BY <1>1, <2>6, <2>7, <2>8, <2>9 DEF Wrote
  <2>14. rows[t.job].status = "absent"
    BY <1>1, <2>1 DEF TxOk, Writes
  <2>15. Writes(t)'
    BY <1>1, <2>1, <2>6, <2>7, <2>8, <2>9, <2>10, <2>12, <2>13, <2>14, Calling
       DEF Writes, Written, Posts, Owns, IsOpen, OpenStatus
  <2>16. Tells(t)'
    BY <1>1, <2>1, <2>8, <2>9 DEF TxOk, Tells, Written, Posts, Loud
  <2>17. View(t)'[Parent].status # "waiting"
    <3>1. View(t)'[Parent] = IF flip # NoWrite THEN flip ELSE rows[Parent]
      BY <1>1, <2>6, <2>8, <2>9 DEF View
    <3> QED
      BY <3>1, <2>7
  <2>18. t.job \in OpenChildren(View(t)')
    <3>1. View(t)'[t.job] = new
      BY <1>1, <2>6, <2>7, <2>8, <2>9 DEF View
    <3> QED
      BY <3>1, <2>1, <2>7 DEF OpenChildren, IsOpen, OpenStatus
  <2>19. Counts(t)'
    BY <1>1, <2>3, <2>8, <2>9, <2>17, <2>18 DEF Counts, OpenChildren, Waits
  <2> QED
    BY <1>1, <2>9, <2>11, <2>15, <2>16, <2>19, StepOk DEF TxOk
<1> QED
  BY <1>2, <1>3

(* The fenced UPDATE of completeJob and failJob.                           *)
LEMMA SettleOk == ASSUME IInv, NEW t \in Calls, Settle(t) PROVE IInv'
<1>1. /\ tx[t] \in Tx /\ tx[t].pc = "settle" /\ TxOk(t) /\ TypeOK /\ t.job \in Job
      /\ UNCHANGED <<rows, inbox, policy>> /\ tx[t].op \in Op /\ Family(rows)
      /\ Parent \in Job /\ Parent \notin Child /\ Job = Child \cup {Parent}
      /\ rows[t.job] \in Row
  BY Calling DEF IInv, TypeOK, Settle, Tx
<1>2. CASE rows[t.job].status # "active"
  BY <1>1, <1>2, FinishOk DEF Finish, Settle
<1>3. CASE rows[t.job].status = "active"
  <2>1. tx[t].op \in Lockers /\ Has(t, Parent, "update") /\ \A n \in Job : ~Wrote(t, n)
    BY <1>1, <1>3 DEF TxOk, Places, Parents, Writes, Written, Posts, Lockers, Sweepers, Op
  <2>2. t.job \in Child /\ rows[t.job].linked /\ IsOpen(rows[t.job])
    BY <1>1, <1>3 DEF Family, IsOpen, OpenStatus
  <2> DEFINE new == [rows[t.job] EXCEPT !.status = Verdict[tx[t].op]]
             wrote == [tx[t].wrote EXCEPT ![t.job] = new]
             pc == IF tx[t].op = "retry" THEN "commit" ELSE "post"
             x == [tx[t] EXCEPT !.wrote = wrote, !.pc = pc, !.todo = {t.job}]
  <2>3. /\ Lock(t, t.job, "nokey")
        /\ tx' = [tx EXCEPT ![t].wrote[t.job] = new, ![t].pc = pc, ![t].todo = {t.job}]
    BY <1>3, <2>2 DEF Settle
  <2>4. tx' = [tx EXCEPT ![t] = x]
    BY <1>1, <2>3 DEF Tx, TypeOK
  <2>5. /\ new \in Row /\ new.status = Verdict[tx[t].op] /\ new.linked /\ new # NoWrite
        /\ wrote \in [Job -> Row]
    BY <1>1, <2>1, <2>2 DEF Row, NoWrite, Status, OpenStatus, Settled, Verdict, Lockers, Tx
  <2>6. /\ wrote[t.job] = new
        /\ \A n \in Job \ {t.job} : wrote[n] = tx[t].wrote[n]
    BY <1>1 DEF Tx
  <2>7. pc \in {"commit", "post"} /\ (pc = "commit" <=> tx[t].op = "retry")
    OBVIOUS
  <2> HIDE DEF wrote, new, pc
  <2>8. /\ x \in Tx /\ x.pc = pc /\ x.op = tx[t].op /\ x.wrote = wrote /\ x.out = tx[t].out
        /\ x.todo = {t.job}
    BY <1>1, <2>1, <2>5, <2>7 DEF Tx, PC
  <2> HIDE DEF x
  <2>9. /\ Others(t) /\ Excl' /\ locks' \subseteq [call : Calls, job : Job, mode : Modes]
        /\ tx' \in [Calls -> Tx] /\ tx'[t] = x
        /\ Has(t, t.job, "nokey")' /\ Has(t, Parent, "update")'
    BY <1>1, <2>1, <2>3, <2>4, <2>8, OneLock DEF Modes
  <2>11. Places(t)' /\ Parents(t)'
    BY <1>1, <2>1, <2>7, <2>8, <2>9
       DEF TxOk, Places, Parents, Lockers, Sweepers, Written, Posts
  <2>12. \A n \in Job : Wrote(t, n)' <=> n = t.job
    BY <1>1, <2>1, <2>5, <2>6, <2>8, <2>9 DEF Wrote
  <2>13. Writes(t)'
    BY <1>1, <2>1, <2>2, <2>5, <2>6, <2>7, <2>8, <2>9, <2>12
       DEF Writes, Written, Posts, Owns, IsOpen, Lockers
  <2>14. Tells(t)'
    BY <1>1, <2>1, <2>2, <2>7, <2>8, <2>9, <2>12 DEF TxOk, Tells, Written, Posts, Loud, Lockers
  <2>15. Counts(t)'
    <3>1. CASE tx[t].op = "retry"
      <4>1. View(t)'[Parent] = rows[Parent] /\ t.job \in OpenChildren(rows)
        BY <1>1, <2>2, <2>12 DEF View, Wrote, OpenChildren
      <4>2. rows[Parent].status # "waiting"
        BY <4>1 DEF IInv, NoEarlyWake
      <4>3. t.job \in OpenChildren(View(t)')
        <5>1. View(t)'[t.job] = new /\ new.status = "delayed" /\ new.linked
          BY <1>1, <2>5, <2>6, <2>8, <2>9, <3>1 DEF View, Verdict
        <5> QED
          BY <5>1, <2>2 DEF OpenChildren, IsOpen, OpenStatus
      <4> QED
        BY <2>1, <2>7, <2>8, <2>9, <4>1, <4>2, <4>3 DEF Counts, Lockers, Waits, OpenChildren
    <3>2. CASE tx[t].op # "retry"
      BY <2>7, <2>8, <2>9, <3>2 DEF Counts
    <3> QED
      BY <3>1, <3>2
  <2> QED
    BY <1>1, <2>9, <2>11, <2>13, <2>14, <2>15, StepOk DEF TxOk
<1> QED
  BY <1>2, <1>3

(* A row of the UPDATE of cancelJob or of a sweep.                         *)
LEMMA SweepRowOk == ASSUME IInv, NEW t \in Calls, SweepRow(t) PROVE IInv'
<1>1. /\ tx[t] \in Tx /\ tx[t].pc = "sweep" /\ TxOk(t) /\ TypeOK /\ t.job \in Job
      /\ UNCHANGED <<rows, inbox, policy>> /\ tx[t].op \in Op /\ Family(rows)
      /\ Parent \in Job /\ Parent \notin Child /\ Job = Child \cup {Parent}
  BY Calling DEF IInv, TypeOK, SweepRow, Tx
<1>2. tx[t].op \in Sweepers
  BY <1>1 DEF TxOk, Places, Lockers, Sweepers, Op
<1>3. PICK n \in tx[t].todo :
        LET ours == IF tx[t].op = "cancel" THEN IsOpen(rows[n]) ELSE rows[n].status = "active"
        IN /\ IF ours THEN Lock(t, n, "nokey") ELSE UNCHANGED locks
           /\ tx' = [tx EXCEPT
                ![t].todo = tx[t].todo \ {n},
                ![t].wrote[n] = IF ours THEN [rows[n] EXCEPT !.status = Verdict[tx[t].op]]
                                ELSE NoWrite]
  BY DEF SweepRow
<1>4. n \in Job /\ rows[n] \in Row /\ tx[t].todo \ {n} \in SUBSET Job
  BY <1>1 DEF Tx, TypeOK
<1> DEFINE ours == IF tx[t].op = "cancel" THEN IsOpen(rows[n]) ELSE rows[n].status = "active"
           new == IF ours THEN [rows[n] EXCEPT !.status = Verdict[tx[t].op]] ELSE NoWrite
           wrote == [tx[t].wrote EXCEPT ![n] = new]
           x == [tx[t] EXCEPT !.todo = tx[t].todo \ {n}, !.wrote = wrote]
<1>5. /\ IF ours THEN Lock(t, n, "nokey") ELSE UNCHANGED locks
      /\ tx' = [tx EXCEPT ![t].todo = tx[t].todo \ {n}, ![t].wrote[n] = new]
  BY <1>3
<1>6. tx' = [tx EXCEPT ![t] = x]
  BY <1>1, <1>5 DEF Tx, TypeOK
<1>7. /\ ours => /\ IsOpen(rows[n]) /\ new.status = Verdict[tx[t].op]
                 /\ new.linked = rows[n].linked /\ (n = Parent => tx[t].op = "cancel")
      /\ ~ours => new = NoWrite
      /\ new \in Row
      /\ Verdict["cancel"] = "cancelled" /\ Verdict["timeout"] = "dead"
  <2>1. /\ Verdict["cancel"] = "cancelled" /\ Verdict["timeout"] = "dead"
        /\ Verdict[tx[t].op] \in Settled /\ NoWrite \in Row
    BY <1>2 DEF Verdict, Sweepers, Settled, NoWrite, Row, Status
  <2>2. rows[n].status = "active" => IsOpen(rows[n])
    BY DEF IsOpen, OpenStatus
  <2>3. ours => IsOpen(rows[n]) /\ (n = Parent => tx[t].op = "cancel")
    BY <1>1, <1>2, <2>2 DEF Family, Sweepers
  <2>4. ours => new = [status |-> Verdict[tx[t].op], linked |-> rows[n].linked]
    BY <1>4 DEF Row
  <2> HIDE DEF ours
  <2>5. ours => new.status = Verdict[tx[t].op] /\ new.linked = rows[n].linked /\ new \in Row
    BY <2>1, <2>4, <1>4 DEF Row, Status
  <2> QED
    BY <2>1, <2>3, <2>5
<1>8. /\ wrote \in [Job -> Row] /\ wrote[n] = new
      /\ \A k \in Job \ {n} : wrote[k] = tx[t].wrote[k]
  BY <1>1, <1>4, <1>7 DEF Tx
<1> HIDE DEF wrote, new, ours
<1>9. /\ x \in Tx /\ x.pc = "sweep" /\ x.op = tx[t].op /\ x.wrote = wrote /\ x.out = tx[t].out
      /\ x.todo = tx[t].todo \ {n}
  BY <1>1, <1>4, <1>8 DEF Tx
<1> HIDE DEF x
<1>10. /\ Others(t) /\ Excl' /\ locks' \subseteq [call : Calls, job : Job, mode : Modes]
       /\ tx' \in [Calls -> Tx] /\ tx'[t] = x
       /\ ours => Has(t, n, "nokey")'
       /\ \A k \in Job, m \in Modes : Has(t, k, m) => Has(t, k, m)'
  <2>1. CASE ours
    BY <1>1, <1>4, <1>5, <1>6, <1>9, <2>1, OneLock DEF Modes
  <2>2. CASE ~ours
    BY <1>1, <1>4, <1>5, <1>6, <1>9, <2>2, NoLock
  <2> QED
    BY <2>1, <2>2
<1>11. \A k \in Job : /\ Wrote(t, k)' => (k = n /\ ours) \/ Wrote(t, k)
                      /\ k # n => tx'[t].wrote[k] = tx[t].wrote[k]
                      /\ k = n => tx'[t].wrote[k] = new
  BY <1>7, <1>8, <1>9, <1>10 DEF Wrote
<1>12. \A k \in Job : Owns(t, k) => Owns(t, k)'
  BY <1>10 DEF Owns, Modes
<1>13. ours => Owns(t, n)'
  BY <1>10 DEF Owns
<1>14. Writes(t)'
  <2>1. ASSUME NEW c \in Child, Wrote(t, c)'
        PROVE  /\ tx'[t].wrote[c].linked
               /\ Owns(t, c)' /\ IsOpen(rows[c]) /\ tx'[t].wrote[c].status = Verdict[tx[t].op]
    <3>1. CASE c = n
      <4>1. ours
        BY <2>1, <3>1, <1>7, <1>11, <1>4 DEF Wrote
      <4> QED
        BY <4>1, <3>1, <1>1, <1>7, <1>11, <1>13 DEF Family
    <3>2. CASE c # n
      BY <2>1, <3>2, <1>1, <1>2, <1>11, <1>12 DEF TxOk, Writes, Sweepers
    <3> QED
      BY <3>1, <3>2
  <2>2. ASSUME Wrote(t, Parent)'
        PROVE  /\ Owns(t, Parent)' /\ IsOpen(rows[Parent])
               /\ tx'[t].wrote[Parent].status = "cancelled"
    <3>1. CASE Parent = n
      <4>1. ours
        BY <2>2, <3>1, <1>7, <1>11, <1>4 DEF Wrote
      <4> QED
        BY <4>1, <3>1, <1>1, <1>7, <1>11, <1>13
    <3>2. CASE Parent # n
      BY <2>2, <3>2, <1>1, <1>11, <1>12 DEF TxOk, Writes
    <3> QED
      BY <3>1, <3>2
  <2> QED
    BY <1>1, <1>2, <1>9, <1>10, <2>1, <2>2 DEF Writes, Sweepers, Lockers, IsOpen
<1>15. Places(t)' /\ Parents(t)'
  <2>1. ASSUME t.op = "cancel", t.job = Parent PROVE Parent \in x.todo \/ Closed(t)'
    <3>1. tx[t].op = "cancel"
      BY <1>1, <2>1 DEF TxOk, Places
    <3>2. View(t)'[Parent] = IF tx'[t].wrote[Parent] = NoWrite THEN rows[Parent] ELSE tx'[t].wrote[Parent]
      BY <1>1 DEF View
    <3>3. CASE n = Parent
      <4>1. ~IsOpen(rows[Parent]) \/ new.status = "cancelled"
        BY <3>1, <3>3, <1>7 DEF ours
      <4> QED
        <5>1. tx'[t].wrote[Parent] = new
          BY <1>1, <3>3, <1>11
        <5>2. CASE new = NoWrite
          BY <3>2, <4>1, <5>1, <5>2 DEF Closed, IsOpen, NoWrite
        <5>3. CASE new # NoWrite
          <6>1. new.status = "cancelled"
            BY <3>1, <5>3, <1>7
          <6> QED
            BY <3>2, <5>1, <5>3, <6>1 DEF Closed, IsOpen, OpenStatus
        <5> QED
          BY <5>2, <5>3
    <3>4. CASE n # Parent
      <4>1. View(t)'[Parent] = View(t)[Parent]
        BY <1>1, <3>2, <3>4, <1>11 DEF View
      <4> QED
        BY <1>1, <2>1, <1>9, <3>4, <4>1 DEF TxOk, Parents, Closed, IsOpen
    <3> QED
      BY <3>3, <3>4
  <2> QED
    BY <1>1, <1>2, <1>9, <1>10, <2>1 DEF TxOk, Places, Parents, Written, Posts
<1>16. Tells(t)' /\ Counts(t)'
  BY <1>1, <1>2, <1>9, <1>10 DEF TxOk, Tells, Counts, Written, Posts
<1> QED
  BY <1>1, <1>10, <1>15, <1>14, <1>16, StepOk DEF TxOk

(* The UPDATE has returned its rows.                                       *)
LEMMA SweepDoneOk == ASSUME IInv, NEW t \in Calls, SweepDone(t) PROVE IInv'
<1>1. /\ tx[t] \in Tx /\ tx[t].pc = "sweep" /\ tx[t].todo = {} /\ TxOk(t) /\ TypeOK /\ t.job \in Job
      /\ UNCHANGED <<rows, inbox, policy>> /\ tx[t].op \in Op /\ tx[t].wrote \in [Job -> Row]
      /\ Parent \in Job /\ Parent \notin Child /\ Job = Child \cup {Parent}
  BY Calling DEF IInv, TypeOK, SweepDone, Tx
<1>2. tx[t].op \in Sweepers
  BY <1>1 DEF TxOk, Places, Lockers, Sweepers, Op
<1>3. CASE tx[t].wrote = [n \in Job |-> NoWrite]
  BY <1>1, <1>3, FinishOk DEF Finish, SweepDone
<1>4. CASE tx[t].wrote # [n \in Job |-> NoWrite]
  <2> DEFINE todo == {c \in Child : tx[t].wrote[c] # NoWrite /\ tx[t].wrote[c].linked}
             x == [tx[t] EXCEPT !.pc = "post", !.todo = todo]
  <2>1. /\ tx' = [tx EXCEPT ![t].pc = "post", ![t].todo = todo]
        /\ UNCHANGED locks
    BY <1>4 DEF SweepDone
  <2>2. tx' = [tx EXCEPT ![t] = x]
    BY <1>1, <2>1 DEF Tx, TypeOK
  <2>3. /\ todo \in SUBSET Job /\ todo \subseteq Child
        /\ \A c \in Child : c \in todo <=> Wrote(t, c)
    BY <1>1 DEF TxOk, Writes, Wrote
  <2>4. \E n \in Job : Wrote(t, n)
    BY <1>1, <1>4 DEF Wrote
  <2> HIDE DEF todo
  <2>5. /\ x \in Tx /\ x.pc = "post" /\ x.op = tx[t].op /\ x.wrote = tx[t].wrote
        /\ x.out = tx[t].out /\ x.todo = todo
    BY <1>1, <2>3 DEF Tx, PC
  <2> HIDE DEF x
  <2>6. /\ Others(t) /\ Excl' /\ locks' \subseteq [call : Calls, job : Job, mode : Modes]
        /\ tx' \in [Calls -> Tx] /\ tx'[t] = x
        /\ \A n \in Job, m \in Modes : Has(t, n, m)' <=> Has(t, n, m)
    BY <1>1, <2>1, <2>2, <2>5, NoLock
  <2>7. /\ View(t)' = View(t) /\ \A n \in Job : Wrote(t, n)' <=> Wrote(t, n)
        /\ \A n \in Job : Owns(t, n)' <=> Owns(t, n)
    BY <1>1, <2>5, <2>6 DEF View, Wrote, Owns, Modes
  <2>8. todo # {} \/ Closed(t)
    <3>1. CASE Wrote(t, Parent)
      <4>1. /\ View(t)[Parent] = tx[t].wrote[Parent]
            /\ Parent \in Job
        BY <1>1, <3>1, Sees
      <4>2. tx[t].wrote[Parent].status = "cancelled"
        BY <1>1, <3>1 DEF TxOk, Writes
      <4> QED
        BY <4>1, <4>2 DEF Closed, IsOpen, OpenStatus
    <3>2. CASE ~Wrote(t, Parent)
      BY <3>2, <1>1, <2>3, <2>4
    <3> QED
      BY <3>1, <3>2
  <2>9. Places(t)' /\ Parents(t)'
    BY <1>1, <1>2, <2>5, <2>6, <2>7, <2>8
       DEF TxOk, Places, Parents, Lockers, Sweepers, Written, Posts, Closed
  <2>10. Writes(t)'
    BY <1>1, <1>2, <2>5, <2>6, <2>7 DEF TxOk, Writes, Written, Posts, Sweepers, Lockers, IsOpen
  <2>11. Tells(t)' /\ Counts(t)'
    BY <1>1, <1>2, <2>3, <2>5, <2>6, <2>7 DEF TxOk, Tells, Counts, Written, Posts
  <2> QED
    BY <1>1, <2>6, <2>9, <2>10, <2>11, StepOk DEF TxOk
<1> QED
  BY <1>3, <1>4

(* The steps after a call settled its rows, which write nothing more.      *)
LEMMA Reads ==
  ASSUME IInv, NEW t \in Calls, NEW x \in Tx, tx[t].pc \in Written \ {"commit"}, x.pc \in Written,
         x.op = tx[t].op, x.wrote = tx[t].wrote, x.op \in Loud,
         rows' = rows, tx'[t] = x,
         \A n \in Job, m \in Modes : Has(t, n, m) => Has(t, n, m)'
  PROVE  /\ View(t)' = View(t) /\ (Closed(t)' <=> Closed(t))
         /\ \A n \in Job : Wrote(t, n)' <=> Wrote(t, n)
         /\ Writes(t)'
<1>1. /\ View(t)' = View(t) /\ \A n \in Job : Wrote(t, n)' <=> Wrote(t, n)
      /\ \A n \in Job : Owns(t, n) => Owns(t, n)'
  BY DEF View, Wrote, Owns, Modes
<1>2. TxOk(t) /\ x.pc # "sweep" /\ tx[t].op # "add"
  BY DEF IInv, Written, Posts, Loud
<1>3. Writes(t)'
  BY <1>1, <1>2, Calling DEF TxOk, Writes, IsOpen
<1> QED
  BY <1>1, <1>3 DEF Closed

(* INSERT INTO minion_inbox: the test.                                     *)
LEMMA PostOk == ASSUME IInv, NEW t \in Calls, Post(t) PROVE IInv'
<1>1. /\ tx[t] \in Tx /\ tx[t].pc = "post" /\ TxOk(t) /\ TypeOK
      /\ UNCHANGED <<rows, inbox, policy, locks>> /\ tx[t].op \in Op
      /\ Parent \in Job /\ Child \subseteq Job
  BY Calling DEF IInv, TypeOK, Post, Tx
<1>2. tx[t].op \in Loud /\ tx[t].todo \subseteq {c \in Child : Wrote(t, c)}
  BY <1>1 DEF TxOk, Places, Tells, Written, Posts, Loud, Op
<1>3. \E pc \in {"policy", "resolve", "posting", "post"}, todo \in SUBSET tx[t].todo :
        /\ tx' = [tx EXCEPT ![t] = [tx[t] EXCEPT !.pc = pc, !.todo = todo]]
        /\ pc \in {"policy", "resolve"} => todo = {}
        /\ pc = "policy" => tx[t].op = "fail"
        /\ todo = tx[t].todo \/ Closed(t)
  <2>1. CASE tx[t].todo = {}
    <3> DEFINE pc == IF tx[t].op = "fail" THEN "policy" ELSE "resolve"
    <3>1. tx' = [tx EXCEPT ![t].pc = pc]
      BY <2>1 DEF Post, Goto
    <3>2. tx' = [tx EXCEPT ![t] = [tx[t] EXCEPT !.pc = pc, !.todo = tx[t].todo]]
      BY <3>1, <1>1 DEF Tx
    <3> QED
      BY <3>2, <2>1
  <2>2. CASE tx[t].todo # {} /\ IsOpen(View(t)[Parent])
    <3>1. tx' = [tx EXCEPT ![t].pc = "posting"]
      BY <2>2 DEF Post, Goto
    <3>2. tx' = [tx EXCEPT ![t] = [tx[t] EXCEPT !.pc = "posting", !.todo = tx[t].todo]]
      BY <3>1, <1>1 DEF Tx
    <3> QED
      BY <3>2
  <2>3. CASE tx[t].todo # {} /\ ~IsOpen(View(t)[Parent])
    <3>1. PICK c \in tx[t].todo : tx' = [tx EXCEPT ![t].todo = tx[t].todo \ {c}]
      BY <2>3 DEF Post
    <3>2. tx' = [tx EXCEPT ![t] = [tx[t] EXCEPT !.pc = "post", !.todo = tx[t].todo \ {c}]]
      BY <3>1, <1>1 DEF Tx
    <3> QED
      BY <3>2, <2>3 DEF Closed
  <2> QED
    BY <2>1, <2>2, <2>3
<1>4. PICK pc \in {"policy", "resolve", "posting", "post"}, todo \in SUBSET tx[t].todo :
        /\ tx' = [tx EXCEPT ![t] = [tx[t] EXCEPT !.pc = pc, !.todo = todo]]
        /\ pc \in {"policy", "resolve"} => todo = {}
        /\ pc = "policy" => tx[t].op = "fail"
        /\ todo = tx[t].todo \/ Closed(t)
  BY <1>3
<1> DEFINE x == [tx[t] EXCEPT !.pc = pc, !.todo = todo]
<1>5. /\ x \in Tx /\ x.pc = pc /\ x.op = tx[t].op /\ x.wrote = tx[t].wrote
      /\ x.out = tx[t].out /\ x.todo = todo
  BY <1>1, <1>4 DEF Tx, PC
<1> HIDE DEF x
<1>6. /\ Others(t) /\ Excl' /\ locks' \subseteq [call : Calls, job : Job, mode : Modes]
      /\ tx' \in [Calls -> Tx] /\ tx'[t] = x
      /\ \A n \in Job, m \in Modes : Has(t, n, m)' <=> Has(t, n, m)
  BY <1>1, <1>4, <1>5, NoLock DEF x
<1>7. /\ View(t)' = View(t) /\ (Closed(t)' <=> Closed(t))
      /\ \A n \in Job : Wrote(t, n)' <=> Wrote(t, n)
      /\ Writes(t)'
  BY <1>1, <1>2, <1>5, <1>6, Reads DEF Written, Posts
<1>8. Places(t)' /\ Parents(t)'
  BY <1>1, <1>2, <1>4, <1>5, <1>6, <1>7
     DEF TxOk, Places, Parents, Lockers, Sweepers, Written, Posts, Loud, Modes
<1>9. Tells(t)'
  <2>1. \A m \in tx[t].out : m.child \in Child
    BY <1>1 DEF Tx, Message
  <2> QED
    BY <1>1, <1>2, <1>4, <1>5, <1>6, <1>7, <2>1 DEF TxOk, Tells, Written, Posts, Loud
<1>10. Counts(t)'
  BY <1>5, <1>6 DEF Counts
<1> QED
  BY <1>1, <1>6, <1>7, <1>8, <1>9, <1>10, StepOk DEF TxOk

(* The insertion, whose foreign key holds the parent.                      *)
LEMMA PostingOk == ASSUME IInv, NEW t \in Calls, Posting(t) PROVE IInv'
<1>1. /\ tx[t] \in Tx /\ tx[t].pc = "posting" /\ TxOk(t) /\ TypeOK
      /\ UNCHANGED <<rows, inbox, policy>> /\ tx[t].op \in Op
      /\ Parent \in Job /\ Child \subseteq Job /\ Lock(t, Parent, "share")
  BY Calling DEF IInv, TypeOK, Posting, Tx
<1>2. tx[t].op \in Loud /\ tx[t].todo \subseteq {c \in Child : Wrote(t, c)}
  BY <1>1 DEF TxOk, Places, Tells, Written, Posts, Loud, Op
<1>3. PICK c \in tx[t].todo :
        tx' = [tx EXCEPT
                 ![t].pc   = "post",
                 ![t].todo = tx[t].todo \ {c},
                 ![t].out  = tx[t].out \cup {[child |-> c, outcome |-> Outcome[tx[t].op]]}]
  BY DEF Posting
<1> DEFINE said == [child |-> c, outcome |-> Outcome[tx[t].op]]
           x == [tx[t] EXCEPT !.pc = "post", !.todo = tx[t].todo \ {c}, !.out = tx[t].out \cup {said}]
<1>4. tx' = [tx EXCEPT ![t] = x]
  BY <1>1, <1>3 DEF Tx, TypeOK
<1>5. said \in Message /\ said.child = c /\ said.outcome = Outcome[tx[t].op]
  BY <1>2 DEF Message, Outcome, Loud
<1> HIDE DEF said
<1>6. /\ x \in Tx /\ x.pc = "post" /\ x.op = tx[t].op /\ x.wrote = tx[t].wrote
      /\ x.out = tx[t].out \cup {said} /\ x.todo = tx[t].todo \ {c}
  BY <1>1, <1>5 DEF Tx, PC
<1> HIDE DEF x
<1>7. /\ Others(t) /\ Excl' /\ locks' \subseteq [call : Calls, job : Job, mode : Modes]
      /\ tx' \in [Calls -> Tx] /\ tx'[t] = x
      /\ Has(t, Parent, "share")'
      /\ \A n \in Job, m \in Modes : Has(t, n, m) => Has(t, n, m)'
  BY <1>1, <1>4, <1>6, OneLock DEF Modes
<1>8. /\ View(t)' = View(t) /\ (Closed(t)' <=> Closed(t))
      /\ \A n \in Job : Wrote(t, n)' <=> Wrote(t, n)
      /\ Writes(t)'
  BY <1>1, <1>2, <1>6, <1>7, Reads DEF Written, Posts
<1>9. Places(t)' /\ Parents(t)'
  BY <1>1, <1>2, <1>6, <1>7, <1>8
     DEF TxOk, Places, Parents, Lockers, Sweepers, Written, Posts, Loud, Modes
<1>10. Tells(t)'
  <2>1. \A m \in tx[t].out : m.child \in Child
    BY <1>1 DEF Tx, Message
  <2> QED
    BY <1>1, <1>2, <1>5, <1>6, <1>7, <1>8, <2>1 DEF TxOk, Tells, Written, Posts, Loud
<1>11. Counts(t)'
  BY <1>6, <1>7 DEF Counts
<1> QED
  BY <1>1, <1>7, <1>8, <1>9, <1>10, <1>11, StepOk DEF TxOk

(* A call that adds no child sees no open child that is not there.         *)
LEMMA ViewShrinks ==
  ASSUME IInv, NEW t \in Calls, tx[t].op # "add"
  PROVE  OpenChildren(View(t)) \subseteq OpenChildren(rows)
<1> SUFFICES ASSUME NEW c \in Child, View(t)[c].linked, IsOpen(View(t)[c])
             PROVE  rows[c].linked /\ IsOpen(rows[c])
  BY DEF OpenChildren
<1>1. IsOpen(rows[c])
  BY Sees, Calling DEF IInv, TxOk, Writes
<1> QED
  BY <1>1 DEF IInv, Family

(* It sees its parent woken only when no child is open.                    *)
LEMMA WokenView ==
  ASSUME IInv, NEW t \in Calls, tx[t].op # "add", tx[t].pc # "commit",
         View(t)[Parent].status = "waiting"
  PROVE  OpenChildren(View(t)) = {}
<1>1. View(t)[Parent] = rows[Parent]
  BY Sees, Calling DEF IInv, TxOk, Writes
<1> QED
  BY <1>1, ViewShrinks DEF IInv, NoEarlyWake

(* UPDATE parent ... AND NOT EXISTS: the snapshot.                         *)
LEMMA ResolveOk == ASSUME IInv, NEW t \in Calls, Resolve(t) PROVE IInv'
<1>1. /\ tx[t] \in Tx /\ tx[t].pc = "resolve" /\ TxOk(t) /\ TypeOK
      /\ UNCHANGED <<rows, inbox, policy, locks>> /\ tx[t].op \in Op
      /\ Parent \in Job /\ Child \subseteq Job
  BY Calling DEF IInv, TypeOK, Resolve, Tx
<1>2. tx[t].op \in Loud /\ tx[t].todo = {}
  BY <1>1 DEF TxOk, Places, Tells, Written, Posts, Loud, Op
<1> DEFINE wakes == View(t)[Parent].status = "waiting-children" /\ OpenChildren(View(t)) = {}
           pc == IF wakes THEN "resolving" ELSE "commit"
           x == [tx[t] EXCEPT !.pc = pc]
<1>3. tx' = [tx EXCEPT ![t] = x]
  BY <1>1 DEF Resolve, Goto, Tx, TypeOK
<1>4. pc \in {"resolving", "commit"} /\ (pc = "resolving" => wakes)
  OBVIOUS
<1>5. wakes => ~Closed(t)
  BY DEF Closed, IsOpen, OpenStatus
<1> HIDE DEF pc
<1>6. /\ x \in Tx /\ x.pc = pc /\ x.op = tx[t].op /\ x.wrote = tx[t].wrote
      /\ x.out = tx[t].out /\ x.todo = {}
  BY <1>1, <1>2, <1>4 DEF Tx, PC
<1> HIDE DEF x
<1>7. /\ Others(t) /\ Excl' /\ locks' \subseteq [call : Calls, job : Job, mode : Modes]
      /\ tx' \in [Calls -> Tx] /\ tx'[t] = x
      /\ \A n \in Job, m \in Modes : Has(t, n, m)' <=> Has(t, n, m)
  BY <1>1, <1>3, <1>6, NoLock
<1>8. /\ View(t)' = View(t) /\ (Closed(t)' <=> Closed(t))
      /\ \A n \in Job : Wrote(t, n)' <=> Wrote(t, n)
      /\ Writes(t)'
  BY <1>1, <1>2, <1>4, <1>6, <1>7, Reads DEF Written, Posts
<1>9. Places(t)' /\ Parents(t)'
  BY <1>1, <1>2, <1>4, <1>5, <1>6, <1>7, <1>8
     DEF TxOk, Places, Parents, Lockers, Sweepers, Written, Posts, Loud, Modes
<1>10. Tells(t)'
  <2>1. \A m \in tx[t].out : m.child \in Child
    BY <1>1 DEF Tx, Message
  <2> QED
    BY <1>1, <1>2, <1>4, <1>6, <1>7, <1>8, <2>1 DEF TxOk, Tells, Written, Posts, Loud
<1>11. Counts(t)'
  <2>1. View(t)[Parent].status = "waiting" => OpenChildren(View(t)) = {}
    BY <1>1, <1>2, WokenView DEF Loud
  <2>2. View(t)'[Parent].status = View(t)[Parent].status
        /\ OpenChildren(View(t))' = OpenChildren(View(t))
    BY <1>8 DEF OpenChildren
  <2>3. pc = "commit" => Waits(View(t))
    BY DEF pc, Waits
  <2> QED
    BY <1>2, <1>4, <1>6, <1>7, <1>8, <2>1, <2>2, <2>3 DEF Counts, Loud, Waits
<1> QED
  BY <1>1, <1>7, <1>8, <1>9, <1>10, <1>11, StepOk DEF TxOk

(* A write to the parent after a child was settled.                        *)
LEMMA ParentWrite ==
  ASSUME IInv, NEW t \in Calls, NEW s \in {"waiting", "failed"},
         tx[t].pc \in {"policy", "resolving"}, s = "waiting" => OpenChildren(View(t)) = {},
         UNCHANGED <<rows, inbox, policy>>, tx[t].op \in Loud,
         View(t)[Parent].status = "waiting-children",
         tx' = [tx EXCEPT ![t].pc = "commit",
                          ![t].wrote[Parent] = [status |-> s, linked |-> FALSE]],
         \/ UNCHANGED locks /\ Has(t, Parent, "update")
         \/ Lock(t, Parent, "nokey")
  PROVE  IInv'
<1>1. /\ tx[t] \in Tx /\ TxOk(t) /\ TypeOK /\ tx[t].op \in Op
      /\ Parent \in Job /\ Parent \notin Child /\ Job = Child \cup {Parent}
  BY Calling DEF IInv, TypeOK, Tx
<1> DEFINE new == [status |-> s, linked |-> FALSE]
           wrote == [tx[t].wrote EXCEPT ![Parent] = new]
           x == [tx[t] EXCEPT !.pc = "commit", !.wrote = wrote]
<1>2. tx' = [tx EXCEPT ![t] = x]
  BY <1>1 DEF Tx, TypeOK
<1>3. new \in Row /\ new.status = s /\ new # NoWrite
  BY DEF Row, Status, OpenStatus, Settled, NoWrite
<1>4. wrote \in [Job -> Row] /\ wrote[Parent] = new /\ \A c \in Child : wrote[c] = tx[t].wrote[c]
  BY <1>1, <1>3 DEF Tx
<1> HIDE DEF new, wrote
<1>5. /\ x \in Tx /\ x.pc = "commit" /\ x.op = tx[t].op /\ x.wrote = wrote
      /\ x.out = tx[t].out /\ x.todo = tx[t].todo
  BY <1>1, <1>4 DEF Tx, PC
<1> HIDE DEF x
<1>6. /\ Others(t) /\ Excl' /\ locks' \subseteq [call : Calls, job : Job, mode : Modes]
      /\ tx' \in [Calls -> Tx] /\ tx'[t] = x
      /\ Owns(t, Parent)'
      /\ \A n \in Job, m \in Modes : Has(t, n, m) => Has(t, n, m)'
  <2>1. CASE UNCHANGED locks /\ Has(t, Parent, "update")
    <3>1. /\ Others(t) /\ Excl' /\ locks' \subseteq [call : Calls, job : Job, mode : Modes]
          /\ tx' \in [Calls -> Tx] /\ tx'[t] = x
          /\ \A n \in Job, m \in Modes : Has(t, n, m)' <=> Has(t, n, m)
      BY <1>1, <1>2, <1>5, <2>1, NoLock
    <3> QED
      BY <1>1, <2>1, <3>1 DEF Owns, Modes
  <2>2. CASE Lock(t, Parent, "nokey")
    BY <1>1, <1>2, <1>5, <2>2, OneLock DEF Owns, Modes
  <2> QED
    BY <2>1, <2>2
<1>7. /\ \A c \in Child : Wrote(t, c)' <=> Wrote(t, c)
      /\ Wrote(t, Parent)'
      /\ View(t)'[Parent] = new
      /\ \A c \in Child : View(t)'[c] = View(t)[c]
  <2>1. /\ tx'[t].wrote = wrote /\ rows' = rows
        /\ wrote[Parent] = new /\ new # NoWrite
        /\ \A c \in Child : wrote[c] = tx[t].wrote[c]
    BY <1>3, <1>4, <1>5, <1>6
  <2>2. \A n \in Job : View(t)'[n] = IF wrote[n] = NoWrite THEN rows[n] ELSE wrote[n]
    <3> HIDE DEF x, wrote
    <3> TAKE n \in Job
    <3>1. View(t)'[n] = IF tx'[t].wrote[n] = NoWrite THEN rows'[n] ELSE tx'[t].wrote[n]
      BY DEF View
    <3> QED
      BY <2>1, <3>1
  <2>3. Parent \in Job /\ Child \subseteq Job
    BY <1>1
  <2> HIDE DEF x
  <2>4. View(t)'[Parent] = new
    BY <2>1, <2>2, <2>3
  <2>5. ASSUME NEW c \in Child
        PROVE  (Wrote(t, c)' <=> Wrote(t, c)) /\ View(t)'[c] = View(t)[c]
    <3>1. wrote[c] = tx[t].wrote[c] /\ c \in Job
      BY <2>1, <2>3
    <3>2. View(t)[c] = IF wrote[c] = NoWrite THEN rows[c] ELSE wrote[c]
      BY <3>1 DEF View
    <3> QED
      BY <2>1, <2>2, <3>1, <3>2 DEF Wrote
  <2> QED
    BY <2>1, <2>4, <2>5 DEF Wrote
<1>8. ~Closed(t)
  BY DEF Closed, IsOpen, OpenStatus
<1>9. Places(t)' /\ Parents(t)'
  BY <1>1, <1>5, <1>6, <1>8
     DEF TxOk, Places, Parents, Lockers, Sweepers, Written, Posts, Loud, Modes
<1>10. IsOpen(rows[Parent])
  BY <1>1, <1>8, Sees DEF TxOk, Writes, Closed
<1>11. \A c \in Child : Owns(t, c) => Owns(t, c)'
  BY <1>1, <1>6 DEF Owns, Modes
<1>12. Writes(t)'
  <2>1. \A c \in Child : Wrote(t, c)' =>
          /\ tx'[t].wrote[c] = tx[t].wrote[c] /\ Wrote(t, c)
          /\ IsOpen(tx[t].wrote[c]) => tx[t].wrote[c].linked
          /\ tx'[t].op # "add" /\ Owns(t, c)' /\ IsOpen(rows[c])
          /\ tx[t].wrote[c].status = Verdict[tx[t].op]
    BY <1>1, <1>4, <1>5, <1>6, <1>7, <1>11 DEF TxOk, Writes, Loud
  <2>2. tx[t].op \in Lockers => t.job \in Child /\ Wrote(t, t.job)'
    BY <1>1, <1>7 DEF TxOk, Writes, Written, Posts
  <2>3. /\ tx'[t].pc = "commit" /\ tx'[t].op = tx[t].op /\ tx[t].op # "add"
        /\ tx'[t].wrote[Parent].status = s
    BY <1>3, <1>4, <1>5, <1>6 DEF Loud
  <2> QED
    BY <1>6, <1>10, <2>1, <2>2, <2>3 DEF Writes, Written, Posts, IsOpen
<1>13. Tells(t)'
  <2>1. \A m \in tx[t].out : m.child \in Child
    BY <1>1 DEF Tx, Message
  <2> QED
    BY <1>1, <1>5, <1>6, <1>7, <1>8, <2>1 DEF TxOk, Tells, Written, Posts, Loud
<1>14. Counts(t)'
  <2>1. OpenChildren(View(t)') = OpenChildren(View(t))
    BY <1>7 DEF OpenChildren
  <2> QED
    BY <1>3, <1>5, <1>6, <1>7, <2>1 DEF Counts, Loud, Waits
<1> QED
  BY <1>1, <1>6, <1>9, <1>12, <1>13, <1>14, StepOk DEF TxOk

(* A row that loses its parent.                                            *)
LEMMA Unlinked ==
  ASSUME NEW r \in Row
  PROVE  [r EXCEPT !.linked = FALSE] \in Row /\ [r EXCEPT !.linked = FALSE].status = r.status
BY DEF Row

(* on_child_fail.                                                          *)
LEMMA PolicyOk == ASSUME IInv, NEW t \in Calls, Policy(t) PROVE IInv'
<1>1. /\ tx[t] \in Tx /\ tx[t].pc = "policy" /\ TxOk(t) /\ TypeOK
      /\ UNCHANGED <<rows, inbox, policy, locks>>
      /\ Parent \in Job /\ Parent \notin Child /\ Job = Child \cup {Parent}
  BY Calling DEF IInv, TypeOK, Policy, Tx
<1>2. tx[t].op = "fail" /\ tx[t].todo = {} /\ Has(t, Parent, "update")
      /\ t.job \in Child /\ Wrote(t, t.job)
  BY <1>1 DEF TxOk, Places, Tells, Parents, Writes, Written, Posts, Loud, Lockers, Sweepers
<1>3. CASE policy = "fail_parent" /\ View(t)[Parent].status = "waiting-children"
  BY <1>1, <1>2, <1>3, ParentWrite DEF Policy, Loud
<1>4. CASE ~(policy = "fail_parent" /\ View(t)[Parent].status = "waiting-children")
  <2> DEFINE pc == IF policy = "fail_parent" THEN "commit" ELSE "resolve"
             new == IF policy = "remove_dep" THEN [tx[t].wrote[t.job] EXCEPT !.linked = FALSE]
                    ELSE tx[t].wrote[t.job]
             wrote == [tx[t].wrote EXCEPT ![t.job] = new]
             x == [tx[t] EXCEPT !.pc = pc, !.wrote = wrote]
  <2>1. tx' = [tx EXCEPT ![t] = x]
    <3>1. CASE policy = "fail_parent"
      <4>1. tx' = [tx EXCEPT ![t].pc = "commit", ![t].wrote[Parent] = tx[t].wrote[Parent]]
        BY <1>4, <3>1 DEF Policy
      <4>2. wrote = tx[t].wrote /\ [tx[t].wrote EXCEPT ![Parent] = tx[t].wrote[Parent]] = wrote
        BY <1>1, <1>2, <3>1 DEF Tx
      <4> QED
        BY <4>1, <4>2, <1>1, <3>1 DEF Tx, TypeOK
    <3>2. CASE policy = "remove_dep"
      <4>1. tx' = [tx EXCEPT ![t].pc = "resolve", ![t].wrote[t.job].linked = FALSE]
        BY <3>2 DEF Policy
      <4> QED
        BY <4>1, <1>1, <3>2 DEF Tx, TypeOK
    <3>3. CASE policy \notin {"fail_parent", "remove_dep"}
      <4>1. tx' = [tx EXCEPT ![t].pc = "resolve"]
        BY <3>3 DEF Policy, Goto
      <4>2. wrote = tx[t].wrote /\ pc = "resolve"
        BY <1>1, <1>2, <3>3 DEF Tx
      <4>3. tx' = [tx EXCEPT ![t] = [tx[t] EXCEPT !.pc = "resolve", !.wrote = tx[t].wrote]]
        BY <4>1, <1>1 DEF Tx, TypeOK
      <4> QED
        BY <4>2, <4>3
    <3> QED
      BY <3>1, <3>2, <3>3
  <2>2. tx[t].wrote[t.job] \in Row /\ tx[t].wrote[t.job].status = "dead"
    BY <1>1, <1>2 DEF TxOk, Writes, Tx, Verdict
  <2>3. new \in Row /\ new.status = "dead" /\ new # NoWrite
    <3> DEFINE cut == [tx[t].wrote[t.job] EXCEPT !.linked = FALSE]
    <3>1. cut \in Row /\ cut.status = "dead"
      BY <2>2, Unlinked
    <3>2. new \in {tx[t].wrote[t.job], cut}
      OBVIOUS
    <3> HIDE DEF new, cut
    <3>3. new \in Row /\ new.status = "dead"
      BY <2>2, <3>1, <3>2
    <3> QED
      BY <3>3 DEF NoWrite
  <2>4. /\ wrote \in [Job -> Row] /\ wrote[t.job] = new
        /\ \A n \in Job \ {t.job} : wrote[n] = tx[t].wrote[n]
    BY <1>1, <1>2, <2>3 DEF Tx
  <2>5. pc \in {"commit", "resolve"}
    OBVIOUS
  <2> HIDE DEF new, wrote, pc
  <2>6. /\ x \in Tx /\ x.pc = pc /\ x.op = "fail" /\ x.wrote = wrote
        /\ x.out = tx[t].out /\ x.todo = {}
    BY <1>1, <1>2, <2>4, <2>5 DEF Tx, PC
  <2> HIDE DEF x
  <2>7. /\ Others(t) /\ Excl' /\ locks' \subseteq [call : Calls, job : Job, mode : Modes]
        /\ tx' \in [Calls -> Tx] /\ tx'[t] = x
        /\ \A n \in Job, m \in Modes : Has(t, n, m)' <=> Has(t, n, m)
    BY <1>1, <2>1, <2>6, NoLock
  <2>8. /\ \A n \in Job : Wrote(t, n)' <=> Wrote(t, n)
        /\ \A n \in Job \ {t.job} : View(t)'[n] = View(t)[n]
        /\ View(t)[t.job].status = "dead" /\ View(t)'[t.job].status = "dead"
    BY <1>1, <1>2, <2>2, <2>3, <2>4, <2>6, <2>7 DEF Wrote, View
  <2>9. /\ View(t)'[Parent] = View(t)[Parent] /\ (Closed(t)' <=> Closed(t))
        /\ OpenChildren(View(t)') = OpenChildren(View(t))
    BY <1>1, <1>2, <2>8 DEF Closed, OpenChildren, IsOpen, OpenStatus
  <2>10. Places(t)' /\ Parents(t)'
    BY <1>1, <1>2, <2>5, <2>6, <2>7 DEF TxOk, Places, Parents, Lockers, Sweepers, Written, Posts, Modes
  <2>11. \A n \in Job : Owns(t, n)' <=> Owns(t, n)
    BY <2>7 DEF Owns, Modes
  <2>12. Writes(t)'
    <3>1. \A c \in Child : Wrote(t, c)' =>
            /\ IsOpen(tx'[t].wrote[c]) => tx'[t].wrote[c].linked
            /\ Owns(t, c)' /\ IsOpen(rows[c])
            /\ tx'[t].wrote[c].status = Verdict["fail"]
      BY <1>1, <1>2, <2>3, <2>4, <2>6, <2>7, <2>8, <2>11
         DEF TxOk, Writes, IsOpen, OpenStatus, Verdict
    <3>2. Wrote(t, Parent)' => FALSE \/
            /\ Owns(t, Parent)' /\ IsOpen(rows[Parent])
            /\ tx'[t].wrote[Parent].status \in {"waiting-children", "failed", "cancelled"}
      BY <1>1, <1>2, <2>4, <2>6, <2>7, <2>8, <2>11 DEF TxOk, Writes
    <3> QED
      BY <1>1, <1>2, <2>5, <2>6, <2>7, <2>8, <3>1, <3>2 DEF Writes, Written, Posts, IsOpen
  <2>13. Tells(t)'
    <3>1. \A m \in tx[t].out : m.child \in Child
      BY <1>1 DEF Tx, Message
    <3> QED
      BY <1>1, <1>2, <2>5, <2>6, <2>7, <2>8, <2>9, <3>1 DEF TxOk, Tells, Written, Posts, Loud
  <2>14. Counts(t)'
    <3>1. View(t)[Parent].status = "waiting" => OpenChildren(View(t)) = {}
      BY <1>1, <1>2, WokenView
    <3>2. pc = "commit" => View(t)[Parent].status # "waiting-children"
      BY <1>4 DEF pc
    <3> QED
      BY <1>4, <2>5, <2>6, <2>7, <2>9, <3>1, <3>2 DEF Counts, Waits
  <2> QED
    BY <1>1, <2>7, <2>10, <2>12, <2>13, <2>14, StepOk DEF TxOk
<1> QED
  BY <1>3, <1>4

(* The row of the parent is free.                                          *)
LEMMA ResolvingOk == ASSUME IInv, NEW t \in Calls, Resolving(t) PROVE IInv'
<1>1. /\ tx[t] \in Tx /\ tx[t].pc = "resolving" /\ TxOk(t) /\ TypeOK
      /\ UNCHANGED <<rows, inbox, policy>> /\ Lock(t, Parent, "nokey") /\ tx[t].op \in Op
      /\ Parent \in Job /\ Parent \notin Child /\ Job = Child \cup {Parent}
  BY Calling DEF IInv, TypeOK, Resolving, Tx
<1>2. tx[t].op \in Loud /\ tx[t].todo = {} /\ OpenChildren(View(t)) = {}
  BY <1>1 DEF TxOk, Places, Tells, Counts, Written, Posts, Loud, Op
<1>3. CASE View(t)[Parent].status = "waiting-children"
  BY <1>1, <1>2, <1>3, ParentWrite DEF Resolving
<1>4. CASE View(t)[Parent].status # "waiting-children"
  <2> DEFINE x == [tx[t] EXCEPT !.pc = "commit"]
  <2>1. tx' = [tx EXCEPT ![t].pc = "commit", ![t].wrote[Parent] = tx[t].wrote[Parent]]
    BY <1>4 DEF Resolving
  <2>2. [tx[t].wrote EXCEPT ![Parent] = tx[t].wrote[Parent]] = tx[t].wrote
    BY <1>1 DEF Tx
  <2>3. tx' = [tx EXCEPT ![t] = x]
    <3> DEFINE y == [tx[t] EXCEPT !.pc = "commit", !.wrote[Parent] = tx[t].wrote[Parent]]
    <3>1. tx' = [tx EXCEPT ![t] = y]
      BY <2>1
    <3>2. y = x
      BY <2>2
    <3> QED
      BY <3>1, <3>2
  <2>4. /\ x \in Tx /\ x.pc = "commit" /\ x.op = tx[t].op /\ x.wrote = tx[t].wrote
        /\ x.out = tx[t].out /\ x.todo = {}
    BY <1>1, <1>2 DEF Tx, PC
  <2> HIDE DEF x
  <2>5. /\ Others(t) /\ Excl' /\ locks' \subseteq [call : Calls, job : Job, mode : Modes]
        /\ tx' \in [Calls -> Tx] /\ tx'[t] = x
        /\ \A n \in Job, m \in Modes : Has(t, n, m) => Has(t, n, m)'
    BY <1>1, <2>3, <2>4, OneLock DEF Modes
  <2>6. /\ View(t)' = View(t) /\ (Closed(t)' <=> Closed(t))
        /\ \A n \in Job : Wrote(t, n)' <=> Wrote(t, n)
        /\ Writes(t)'
    BY <1>1, <1>2, <2>4, <2>5, Reads DEF Written, Posts
  <2>7. Places(t)' /\ Parents(t)'
    BY <1>1, <1>2, <2>4, <2>5, <2>6
       DEF TxOk, Places, Parents, Lockers, Sweepers, Written, Posts, Loud, Modes
  <2>8. Tells(t)'
    <3>1. \A m \in tx[t].out : m.child \in Child
      BY <1>1 DEF Tx, Message
    <3> QED
      BY <1>1, <1>2, <2>4, <2>5, <2>6, <3>1 DEF TxOk, Tells, Written, Posts, Loud
  <2>9. Counts(t)'
    <3>1. OpenChildren(View(t))' = {}
      BY <1>2, <2>6 DEF OpenChildren
    <3> QED
      BY <1>2, <1>4, <2>4, <2>5, <2>6, <3>1 DEF Counts, Loud, Waits
  <2> QED
    BY <1>1, <2>5, <2>6, <2>7, <2>8, <2>9, StepOk DEF TxOk
<1> QED
  BY <1>3, <1>4

(* The victim of a deadlock.                                               *)
LEMMA AbortOk == ASSUME IInv, NEW t \in Calls, Abort(t) PROVE IInv'
<1>1. /\ tx[t] \in Tx /\ TxOk(t) /\ tx[t].op \in Op /\ tx[t].pc # "done"
      /\ UNCHANGED <<rows, inbox, policy>>
  BY DEF IInv, TypeOK, Abort, Tx, Deadlocked, WaitsFor
<1>2. CASE tx[t].op = "complete"
  <2>1. PICK op \in {"retry", "fail"} :
          /\ tx' = [tx EXCEPT ![t] = [NewTx(op) EXCEPT !.pc = Peek(t)]]
          /\ locks' = {l \in locks : l.call # t}
    BY <1>2 DEF Abort
  <2>2. t.op = "complete"
    BY <1>1, <1>2 DEF TxOk, Places
  <2>3. op \in Op /\ op \in Lockers /\ Peek(t) \in {"lockParent", "settle"}
    BY DEF Op, Lockers, Peek
  <2> QED
    BY <1>1, <2>1, <2>2, <2>3, FinishOk
<1>3. CASE tx[t].op # "complete"
  BY <1>1, <1>3, FinishOk DEF Abort, Finish
<1> QED
  BY <1>2, <1>3
-----------------------------------------------------------------------------
(* Two calls never wrote the same row.                                     *)
LEMMA Apart ==
  ASSUME IInv, NEW t \in Calls, NEW u \in Calls, u # t, NEW n \in Job, Wrote(u, n), Wrote(t, n)
  PROVE  FALSE
<1>1. TxOk(t) /\ TxOk(u) /\ Excl /\ Parent \notin Child /\ Job = Child \cup {Parent}
  BY Calling DEF IInv
<1>2. ~(Owns(u, n) /\ Owns(t, n))
  BY <1>1 DEF Excl, Owns, Modes, Conflict
<1>3. n \in Child
  BY <1>1, <1>2 DEF TxOk, Writes
<1>4. CASE tx[u].op = "add" /\ tx[t].op = "add"
  <2>1. u.op = "add" /\ t.op = "add" /\ n = u.job /\ n = t.job
    BY <1>1, <1>3, <1>4 DEF TxOk, Places, Writes, Lockers
  <2> QED
    BY <2>1, Calling
<1>5. \A v \in Calls : TxOk(v) /\ tx[v].op = "add" /\ Wrote(v, n) => ~IsOpen(rows[n])
  BY <1>3, Calling DEF TxOk, Writes, IsOpen, OpenStatus, Written, Posts
<1>6. \A v \in Calls : TxOk(v) /\ tx[v].op # "add" /\ Wrote(v, n) => IsOpen(rows[n]) /\ Owns(v, n)
  BY <1>3 DEF TxOk, Writes
<1> QED
  BY <1>1, <1>2, <1>4, <1>5, <1>6

(* What a commit does to the rows.                                         *)
LEMMA CommitRows ==
  ASSUME IInv, NEW t \in Calls, Commit(t)
  PROVE  /\ rows' = View(t) /\ rows' \in [Job -> Row]
         /\ \A n \in Job : ~Wrote(t, n) => rows'[n] = rows[n]
         /\ \A n \in Job : Wrote(t, n) => rows'[n] = tx[t].wrote[n]
         /\ \A n \in Job : Wrote(t, n) => rows[n].status \notin Settled /\ rows'[n].status # "active"
         /\ ~IsOpen(rows[Parent]) => rows'[Parent] = rows[Parent]
         /\ Family(rows')
<1>1. /\ TxOk(t) /\ tx[t].pc = "commit" /\ Parent \in Job /\ Job = Child \cup {Parent}
      /\ tx[t].op \in Op /\ Family(rows)
  BY Calling DEF IInv, Commit, TypeOK, Tx
<1>2. /\ rows' = View(t) /\ rows' \in [Job -> Row]
      /\ \A n \in Job : rows'[n] = IF Wrote(t, n) THEN tx[t].wrote[n] ELSE rows[n]
  BY Sees DEF Commit
<1>3. ASSUME NEW n \in Job, Wrote(t, n)
      PROVE  rows[n].status \notin Settled /\ tx[t].wrote[n].status # "active"
  <2>1. CASE n = Parent
    BY <1>1, <1>3, <2>1 DEF TxOk, Writes, IsOpen, OpenStatus, Settled
  <2>2. CASE n \in Child /\ tx[t].op = "add"
    BY <1>1, <1>3, <2>2 DEF TxOk, Writes, Settled
  <2>3. CASE n \in Child /\ tx[t].op # "add"
    <3>1. IsOpen(rows[n]) /\ tx[t].wrote[n].status = Verdict[tx[t].op]
      BY <1>1, <1>3, <2>3 DEF TxOk, Writes
    <3> QED
      BY <1>1, <2>3, <3>1 DEF IsOpen, OpenStatus, Settled, Verdict, Op
  <2> QED
    BY <1>1, <2>1, <2>2, <2>3
<1>4. ~IsOpen(rows[Parent]) => rows'[Parent] = rows[Parent]
  BY <1>1, <1>2 DEF TxOk, Writes
<1>5. Family(rows')
  BY <1>1, <1>2 DEF TxOk, Writes, Family, IsOpen
<1> QED
  BY <1>2, <1>3, <1>4, <1>5

(* The inbox after a commit.                                               *)
LEMMA CommitInbox ==
  ASSUME IInv, NEW t \in Calls, Commit(t) PROVE Inbox' /\ inbox' \subseteq Message
<1>1. /\ TxOk(t) /\ tx[t].pc = "commit" /\ Inbox /\ inbox \subseteq Message
      /\ tx[t].out \subseteq Message /\ Child \subseteq Job /\ Parent \in Job /\ tx[t].op \in Op
      /\ inbox' = inbox \cup tx[t].out
  BY Calling DEF IInv, Commit, TypeOK, Tx
<1>2. ASSUME NEW m \in inbox
      PROVE  /\ rows'[m.child] = rows[m.child] /\ ~Wrote(t, m.child)
             /\ \E op \in Loud : m.outcome = Outcome[op] /\ rows[m.child].status = Verdict[op]
  <2>1. PICK op \in Loud : m.outcome = Outcome[op] /\ rows[m.child].status = Verdict[op]
    BY <1>1 DEF Inbox
  <2>2. m.child \in Job /\ rows[m.child].status \in Settled
    BY <1>1, <2>1 DEF Message, Verdict, Loud, Settled
  <2> QED
    BY <2>1, <2>2, CommitRows
<1>3. ASSUME NEW m \in tx[t].out
      PROVE  /\ tx[t].op \in Loud /\ m.outcome = Outcome[tx[t].op]
             /\ rows'[m.child].status = Verdict[tx[t].op]
             /\ Wrote(t, m.child) /\ m = [child |-> m.child, outcome |-> m.outcome]
  <2>1. /\ m.child \in Child /\ m = [child |-> m.child, outcome |-> m.outcome]
        /\ tx[t].op \in Loud /\ Wrote(t, m.child) /\ m.outcome = Outcome[tx[t].op]
    BY <1>1 DEF Message, TxOk, Tells
  <2>2. tx[t].wrote[m.child].status = Verdict[tx[t].op]
    BY <1>1, <2>1 DEF TxOk, Writes, Loud
  <2> QED
    BY <1>1, <2>1, <2>2, CommitRows
<1>4. \A m \in inbox' : \E op \in Loud :
        m.outcome = Outcome[op] /\ rows'[m.child].status = Verdict[op]
  BY <1>1, <1>2, <1>3
<1>5. \A m, k \in inbox' : m.child = k.child => m = k
  BY <1>1, <1>2, <1>3 DEF Inbox
<1>6. EveryOutcomeReported'
  <2> SUFFICES ASSUME IsOpen(rows'[Parent]), NEW c \in Child, rows'[c].status \in Settled
               PROVE  \E m \in inbox' : m.child = c
    BY DEF EveryOutcomeReported, IsOpen
  <2>1. IsOpen(rows[Parent]) /\ ~Closed(t)
    BY CommitRows DEF Closed
  <2>2. CASE Wrote(t, c)
    <3>1. tx[t].op \in Loud
      <4>1. tx[t].wrote[c].status \in Settled
        BY <1>1, <2>2, CommitRows
      <4> QED
        BY <1>1, <2>2, <4>1 DEF TxOk, Writes, Settled, Verdict, Op, Loud
    <3> QED
      BY <1>1, <2>1, <2>2, <3>1 DEF TxOk, Tells, Written, Posts
  <2>3. CASE ~Wrote(t, c)
    BY <1>1, <2>1, <2>3, CommitRows DEF Inbox, EveryOutcomeReported
  <2> QED
    BY <2>2, <2>3
<1> QED
  BY <1>1, <1>4, <1>5, <1>6 DEF Inbox

(* The number of open children after a commit.                             *)
LEMMA CommitCap == ASSUME IInv, NEW t \in Calls, Commit(t) PROVE ChildCapHolds'
<1>1. TxOk(t) /\ tx[t].pc = "commit" /\ ChildCapHolds /\ rows' = View(t) /\ Child \subseteq Job
  BY Calling, CommitRows DEF IInv, Commit
<1>2. CASE tx[t].op # "add"
  BY <1>1, <1>2, ViewShrinks, OpenCount DEF ChildCapHolds
<1>3. CASE tx[t].op = "add"
  <2>1. OpenChildren(rows') \subseteq OpenChildren(rows) \cup {t.job}
    BY <1>1, <1>3, Sees DEF TxOk, Writes, OpenChildren
  <2>2. /\ IsFiniteSet(OpenChildren(rows) \cup {t.job})
        /\ Cardinality(OpenChildren(rows) \cup {t.job}) <= Cardinality(OpenChildren(rows)) + 1
    BY OpenCount, FS_AddElement
  <2>3. Cardinality(OpenChildren(rows')) <= Cardinality(OpenChildren(rows) \cup {t.job})
    BY <2>1, <2>2, FS_Subset
  <2>4. /\ Cardinality(OpenChildren(rows)) \in Nat /\ Cardinality(OpenChildren(rows')) \in Nat
        /\ Cardinality(OpenChildren(rows) \cup {t.job}) \in Nat /\ MaxChildren \in Nat
    BY OpenCount, <2>2, FS_CardinalityType
  <2>5. Cardinality(OpenChildren(rows)) < MaxChildren
    BY <1>1, <1>3 DEF TxOk, Counts
  <2>6. Cardinality(OpenChildren(rows')) <= MaxChildren
    BY <2>2, <2>3, <2>4, <2>5
  <2> QED
    BY <2>6 DEF ChildCapHolds
<1> QED
  BY <1>2, <1>3

(* Another call than the one that commits.                                 *)
LEMMA CommitOthers ==
  ASSUME IInv, NEW t \in Calls, Commit(t), NEW u \in Calls, u # t,
         tx'[u] = tx[u], \A n \in Job, m \in Modes : Has(u, n, m)' <=> Has(u, n, m)
  PROVE  TxOk(u)'
<1>1. /\ TxOk(t) /\ TxOk(u) /\ tx[t].pc = "commit" /\ rows' = View(t) /\ Excl
      /\ Parent \in Job /\ Parent \notin Child /\ Child \subseteq Job /\ u.job \in Job
      /\ Job = Child \cup {Parent}
  BY Calling, CommitRows DEF IInv, Commit
<1>2. /\ \A n \in Job : Wrote(u, n)' <=> Wrote(u, n)
      /\ \A n \in Job : Wrote(u, n) => rows'[n] = rows[n] /\ View(u)'[n] = View(u)[n]
      /\ \A n \in Job : ~Wrote(u, n) => View(u)'[n] = rows'[n]
      /\ \A n \in Job : Owns(u, n)' <=> Owns(u, n)
  <2>1. \A n \in Job : Wrote(u, n) => ~Wrote(t, n)
    BY Apart
  <2> QED
    BY <2>1, CommitRows DEF Wrote, View, Owns, Modes
<1>3. Closed(u) => Closed(u)'
  <2>1. CASE Wrote(u, Parent)
    BY <1>1, <1>2, <2>1 DEF Closed, IsOpen
  <2>2. CASE ~Wrote(u, Parent)
    <3>1. View(u)[Parent] = rows[Parent] /\ View(u)'[Parent] = rows'[Parent]
      BY <1>1, <1>2, <2>2, Sees
    <3> QED
      BY <3>1, CommitRows DEF Closed, IsOpen
  <2> QED
    BY <2>1, <2>2
<1>4. Places(u)'
  BY <1>1 DEF TxOk, Places
<1>5. Parents(u)'
  <2>1. rows[u.job].status # "active" => rows'[u.job].status # "active"
    BY <1>1, CommitRows
  <2> QED
    BY <1>1, <1>3, <2>1 DEF TxOk, Parents, Modes
<1>6. Writes(u)'
  <2>1. tx[u].op = "add" /\ tx[u].pc # "done" => ~Wrote(t, u.job)
    <3> SUFFICES ASSUME tx[u].op = "add", tx[u].pc # "done", Wrote(t, u.job) PROVE FALSE
      OBVIOUS
    <3>1. u.op = "add" /\ rows[u.job].status = "absent" /\ u.job \in Child
      BY <1>1, Calling DEF TxOk, Places, Writes, Lockers
    <3>2. tx[t].op = "add" /\ t.job = u.job
      BY <1>1, <3>1 DEF TxOk, Writes, IsOpen, OpenStatus
    <3>3. t.op = "add"
      BY <1>1, <3>2 DEF TxOk, Places, Lockers
    <3> QED
      BY <3>1, <3>2, <3>3, Calling
  <2>2. tx[u].op = "add" /\ tx[u].pc # "done" => rows'[u.job].status = "absent"
    BY <1>1, <2>1, CommitRows DEF TxOk, Writes
  <2> QED
    BY <1>1, <1>2, <2>2 DEF TxOk, Writes, IsOpen
<1>7. Tells(u)'
  <2>1. \A m \in tx[u].out : m.child \in Job
    BY <1>1 DEF IInv, TypeOK, Tx, Message
  <2> QED
    BY <1>1, <1>2, <1>3, <2>1 DEF TxOk, Tells
<1>8. tx[t].op = "add" => \A m \in Modes : ~Has(u, Parent, m)
  BY <1>1 DEF TxOk, Parents, Sweepers, Written, Posts, Excl, Modes, Conflict
<1>9. tx[t].op # "add" => /\ OpenChildren(View(u)') \subseteq OpenChildren(View(u))
                          /\ OpenChildren(rows') \subseteq OpenChildren(rows)
  <2> SUFFICES ASSUME tx[t].op # "add"
               PROVE  /\ OpenChildren(View(u)') \subseteq OpenChildren(View(u))
                      /\ OpenChildren(rows') \subseteq OpenChildren(rows)
    OBVIOUS
  <2>1. OpenChildren(rows') \subseteq OpenChildren(rows)
    BY <1>1, ViewShrinks
  <2> QED
    BY <1>1, <1>2, <2>1, Sees DEF OpenChildren
<1>10. tx[u].op = "add" /\ tx[u].pc = "commit" => Has(u, Parent, "update") /\ tx[t].op # "add"
  BY <1>1, <1>8 DEF TxOk, Parents, Sweepers, Written, Posts, Modes
<1>11. Counts(u)'
  <2>1. tx[u].pc = "resolving" => OpenChildren(View(u)') = {}
    BY <1>1, <1>8, <1>9 DEF TxOk, Parents, Counts, Modes
  <2>2. ASSUME tx[u].pc = "commit", View(u)'[Parent].status = "waiting"
        PROVE  OpenChildren(View(u)') = {}
    <3>1. CASE Wrote(u, Parent)
      <4>1. View(u)[Parent].status = "waiting" /\ Owns(u, Parent)
        BY <1>1, <1>2, <2>2, <3>1 DEF TxOk, Writes
      <4> QED
        BY <1>1, <1>8, <1>9, <2>2, <4>1 DEF TxOk, Counts, Owns, Modes
    <3>2. CASE ~Wrote(u, Parent)
      <4>1. View(t)[Parent].status = "waiting" /\ OpenChildren(rows') = {}
        BY <1>1, <1>2, <2>2, <3>2 DEF TxOk, Counts
      <4>2. ~Closed(t)
        BY <4>1 DEF Closed, IsOpen, OpenStatus
      <4>3. \E m \in {"share", "update"} : Has(t, Parent, m)
        BY <1>1, <4>2 DEF TxOk, Parents, Sweepers, Written, Posts
      <4>4. tx[u].op # "add"
        BY <1>1, <1>10, <2>2, <4>3 DEF Excl, Modes, Conflict
      <4>5. \A c \in Child : View(u)'[c].linked /\ IsOpen(View(u)'[c]) => rows'[c].linked /\ IsOpen(rows'[c])
        <5> SUFFICES ASSUME NEW c \in Child, Wrote(u, c)
                     PROVE  rows'[c].linked /\ IsOpen(rows'[c])
          BY <1>1, <1>2
        <5>1. IsOpen(rows[c])
          BY <1>1, <4>4 DEF TxOk, Writes
        <5> QED
          BY <1>1, <1>2, <5>1 DEF IInv, Family
      <4> QED
        BY <4>1, <4>5 DEF OpenChildren
    <3> QED
      BY <3>1, <3>2
  <2>3. tx[u].pc = "commit" /\ tx[u].op = "add" => Cardinality(OpenChildren(rows')) < MaxChildren
    <3> SUFFICES ASSUME tx[u].pc = "commit", tx[u].op = "add"
                 PROVE  Cardinality(OpenChildren(rows')) < MaxChildren
      OBVIOUS
    <3>1. Cardinality(OpenChildren(rows)) < MaxChildren /\ OpenChildren(rows') \subseteq OpenChildren(rows)
      BY <1>1, <1>9, <1>10 DEF TxOk, Counts
    <3>2. /\ Cardinality(OpenChildren(rows')) <= Cardinality(OpenChildren(rows))
          /\ Cardinality(OpenChildren(rows')) \in Nat /\ Cardinality(OpenChildren(rows)) \in Nat
          /\ MaxChildren \in Nat
      BY <3>1, OpenCount
    <3> QED
      BY <3>1, <3>2
  <2>4. ASSUME tx[u].pc = "commit", OneSweep, View(u)'[Parent].status = "waiting-children"
        PROVE  OpenChildren(View(u)') # {}
    <3>1. ~Closed(u)' /\ ~Closed(u)
      BY <1>3, <2>4 DEF Closed, IsOpen, OpenStatus
    <3>2. ~Closed(t)
      <4>1. CASE Wrote(u, Parent)
        <5>1. ~Wrote(t, Parent) /\ IsOpen(rows[Parent])
          BY <1>1, <4>1, Apart DEF TxOk, Writes
        <5> QED
          BY <1>1, <5>1, CommitRows DEF Closed
      <4>2. CASE ~Wrote(u, Parent)
        BY <1>1, <1>2, <4>2, <3>1 DEF Closed, IsOpen
      <4> QED
        BY <4>1, <4>2
    <3>3. \A v \in {t, u} : /\ \E m \in {"share", "update"} : Has(v, Parent, m)
                            /\ tx[v].op \notin Sweepers => Has(v, Parent, "update")
      BY <1>1, <2>4, <3>1, <3>2 DEF TxOk, Parents, Written, Posts
    <3>4. tx[t].op \in Sweepers /\ tx[u].op \in Sweepers
      <4>1. ASSUME NEW v \in Calls, NEW w \in Calls, v # w, Has(v, Parent, "update"),
                   \E m \in {"share", "update"} : Has(w, Parent, m)
            PROVE  FALSE
        <5>1. PICK m \in {"share", "update"} : Has(w, Parent, m)
          BY <4>1
        <5>2. ~Conflict("update", m)
          BY <1>1, <4>1, <5>1 DEF Excl, Modes
        <5> QED
          BY <5>2 DEF Conflict
      <4>2. t # u /\ t \in Calls /\ u \in Calls
        BY <1>1
      <4>3. /\ \E m \in {"share", "update"} : Has(t, Parent, m)
            /\ tx[t].op \notin Sweepers => Has(t, Parent, "update")
        BY <3>3
      <4>4. /\ \E m \in {"share", "update"} : Has(u, Parent, m)
            /\ tx[u].op \notin Sweepers => Has(u, Parent, "update")
        BY <3>3
      <4>5. ~Has(t, Parent, "update")
        BY <4>1, <4>2, <4>4
      <4>6. ~Has(u, Parent, "update")
        BY <4>1, <4>2, <4>3
      <4> QED
        BY <4>3, <4>4, <4>5, <4>6
    <3>5. \A v \in {t, u} : v.op \in Sweepers /\ ~(v.op = "cancel" /\ v.job = Parent)
      BY <1>1, <2>4, <3>1, <3>2, <3>4 DEF TxOk, Places, Parents, Written, Posts, Lockers, Sweepers
    <3>6. \E G \in Games : t \in G /\ u \in G
      BY <1>1, <2>4 DEF IInv, Gaming
    <3> QED
      BY <2>4, <3>5, <3>6 DEF OneSweep, Unlocked, Sweepers
  <2> QED
    BY <2>1, <2>2, <2>3, <2>4 DEF Counts, OpenChildren, Waits
<1> QED
  BY <1>4, <1>5, <1>6, <1>7, <1>11 DEF TxOk

(* A commit.                                                               *)
LEMMA CommitOk == ASSUME IInv, NEW t \in Calls, Commit(t) PROVE IInv'
<1>1. /\ TypeOK /\ Excl /\ tx[t].op \in Op /\ "done" \in PC /\ UNCHANGED policy /\ TxOk(t)
      /\ tx[t].pc = "commit"
  BY DEF IInv, TypeOK, Tx, PC, Commit
<1>2. /\ locks' \subseteq [call : Calls, job : Job, mode : Modes]
      /\ Excl'
      /\ \A u \in Calls \ {t}, k \in Job, o \in Modes : Has(u, k, o)' <=> Has(u, k, o)
      /\ tx' \in [Calls -> Tx]
      /\ \A u \in Calls \ {t} : tx'[u] = tx[u]
      /\ tx'[t].op = tx[t].op /\ tx'[t].pc = "done"
      /\ tx'[t].todo = {} /\ tx'[t].out = {}
      /\ \A n \in Job : ~Wrote(t, n)'
  BY <1>1, Finished DEF Commit, Finish
<1>3. TxOk(t)'
  <2>1. Places(t)' /\ Parents(t)'
    BY <1>1, <1>2 DEF TxOk, Places, Parents, Lockers, Written, Posts
  <2>2. Writes(t)' /\ Tells(t)' /\ Counts(t)'
    BY <1>2, Calling DEF Writes, Tells, Counts, Written, Posts
  <2> QED
    BY <2>1, <2>2 DEF TxOk
<1>4. \A u \in Calls : TxOk(u)'
  BY <1>2, <1>3, CommitOthers
<1>5. Family(rows)' /\ NoEarlyWake' /\ (OneSweep => Waits(rows)')
  BY <1>1, CommitRows DEF TxOk, Counts, NoEarlyWake, Family, IsOpen, Waits, OpenChildren
<1>6. Gaming'
  BY <1>1, <1>2 DEF IInv, Gaming
<1>7. TypeOK'
  BY <1>1, <1>2, CommitRows, CommitInbox DEF TypeOK, Modes
<1> QED
  BY <1>2, <1>4, <1>5, <1>7, <1>6, CommitInbox, CommitCap DEF IInv
-----------------------------------------------------------------------------
(* A parent that waits, its active children, and no call made.             *)
LEMMA InitOk == Init => IInv
<1> SUFFICES ASSUME Init PROVE IInv
  OBVIOUS
<1>1. /\ Parent \in Job /\ Parent \notin Child /\ Job = Child \cup {Parent}
      /\ Unborn \subseteq Child /\ locks = {} /\ inbox = {} /\ policy \in Policies
      /\ \A t \in Calls : t.op \in Op
  BY FamilyAssumption, Calling DEF Init
<1>2. /\ rows \in [Job -> Row]
      /\ rows[Parent].status = "waiting-children"
      /\ \A c \in Unborn : rows[c].status = "absent"
      /\ \A c \in Child \ Unborn : rows[c].status = "active" /\ rows[c].linked
  BY <1>1 DEF Init, Row, Status, OpenStatus
<1>3. /\ tx \in [Calls -> Tx]
      /\ \A t \in Calls : /\ tx[t].pc \in {"idle", "done"} /\ tx[t].op = t.op
                          /\ tx[t].todo = {} /\ tx[t].out = {}
                          /\ \A n \in Job : ~Wrote(t, n)
  <2>1. PICK made \in Games :
          tx = [t \in Calls |-> IF t \in made THEN NewTx(t.op) ELSE [NewTx(t.op) EXCEPT !.pc = "done"]]
    BY DEF Init
  <2> DEFINE Fresh(x, op) ==
               /\ x \in Tx /\ x.op = op /\ x.pc \in {"idle", "done"} /\ x.todo = {} /\ x.out = {}
               /\ x.wrote = [n \in Job |-> NoWrite]
  <2>2. ASSUME NEW op \in Op PROVE Fresh(NewTx(op), op)
    BY DEF Tx, NewTx, NoWrite, Row, Status, PC
  <2>3. ASSUME NEW op \in Op PROVE Fresh([NewTx(op) EXCEPT !.pc = "done"], op)
    BY DEF Tx, NewTx, NoWrite, Row, Status, PC
  <2> HIDE DEF Fresh
  <2>4. \A t \in Calls : Fresh(tx[t], t.op)
    BY <1>1, <2>1, <2>2, <2>3
  <2>5. \A t \in Calls : /\ tx[t] \in Tx /\ tx[t].op = t.op /\ tx[t].pc \in {"idle", "done"}
                         /\ tx[t].todo = {} /\ tx[t].out = {}
                         /\ tx[t].wrote = [n \in Job |-> NoWrite]
    BY <2>4 DEF Fresh
  <2>6. DOMAIN tx = Calls /\ tx = [t \in Calls |-> tx[t]]
    BY <2>1
  <2> QED
    BY <2>5, <2>6 DEF Wrote
<1>4. TypeOK /\ Excl
  BY <1>1, <1>2, <1>3 DEF TypeOK, Excl, Has
<1>5. Family(rows) /\ Inbox /\ NoEarlyWake
  BY <1>1, <1>2 DEF Family, Inbox, EveryOutcomeReported, NoEarlyWake, IsOpen, OpenStatus, Settled
<1>6. Waits(rows) /\ Gaming
  <2>1. PICK c \in Child : c \notin Unborn
    BY <1>1, FamilyAssumption
  <2>2. c \in OpenChildren(rows)
    BY <1>2, <2>1 DEF OpenChildren, IsOpen, OpenStatus
  <2>3. PICK made \in Games :
          tx = [t \in Calls |-> IF t \in made THEN NewTx(t.op) ELSE [NewTx(t.op) EXCEPT !.pc = "done"]]
    BY DEF Init
  <2>4. \A u \in Calls : tx[u].pc # "done" => u \in made
    BY <2>3 DEF NewTx
  <2> QED
    BY <2>2, <2>4 DEF Waits, Gaming
<1>7. ChildCapHolds
  <2>1. OpenChildren(rows) \subseteq Child \ Unborn
    BY <1>2 DEF OpenChildren, IsOpen, OpenStatus
  <2>2. /\ IsFiniteSet(Child \ Unborn) /\ Cardinality(Child \ Unborn) <= MaxChildren
        /\ Cardinality(Child \ Unborn) \in Nat /\ MaxChildren \in Nat
    BY FamilyAssumption, FS_Subset, FS_CardinalityType
  <2>3. Cardinality(OpenChildren(rows)) <= Cardinality(Child \ Unborn)
    BY <2>1, <2>2, FS_Subset
  <2>4. Cardinality(OpenChildren(rows)) \in Nat
    BY OpenCount
  <2> QED
    BY <2>2, <2>3, <2>4 DEF ChildCapHolds
<1>8. \A u \in Calls : TxOk(u)
  <2> SUFFICES ASSUME NEW u \in Calls PROVE TxOk(u)
    OBVIOUS
  <2>1. Places(u) /\ Parents(u)
    BY <1>3 DEF Places, Parents, Written, Posts
  <2>2. Writes(u)
    <3>1. u.op = "add" => rows[u.job].status = "absent"
      BY <1>2, FamilyAssumption
    <3> QED
      BY <1>1, <1>3, <3>1 DEF Writes, Written, Posts
  <2>3. Tells(u) /\ Counts(u)
    BY <1>3 DEF Tells, Counts, Written, Posts
  <2> QED
    BY <2>1, <2>2, <2>3 DEF TxOk
<1> QED
  BY <1>4, <1>5, <1>7, <1>8, <1>6 DEF IInv

(* Every step of every call preserves the invariant.                       *)
LEMMA NextOk == IInv /\ [Next]_vars => IInv'
<1> SUFFICES ASSUME IInv, [Next]_vars PROVE IInv'
  OBVIOUS
<1>1. CASE UNCHANGED vars
  <2>1. \A u \in Calls, n \in Job, m \in Modes : Has(u, n, m)' <=> Has(u, n, m)
    BY <1>1 DEF vars, Has
  <2>2. \A u \in Calls : TxOk(u)'
    <3> SUFFICES ASSUME NEW u \in Calls PROVE TxOk(u)'
      OBVIOUS
    <3>1. /\ rows' = rows /\ tx' = tx /\ View(u)' = View(u)
      BY <1>1 DEF vars, View
    <3>2. /\ (Closed(u)' <=> Closed(u)) /\ \A n \in Job : Owns(u, n)' <=> Owns(u, n)
          /\ Parent \in Job /\ Child \subseteq Job
      BY <2>1, <3>1, Calling DEF Closed, Owns, Modes
    <3>3. TxOk(u)
      BY DEF IInv
    <3>4. Places(u)' /\ Parents(u)'
      BY <2>1, <3>1, <3>2, <3>3 DEF TxOk, Places, Parents, Modes
    <3>5. Writes(u)' /\ Counts(u)'
      BY <3>1, <3>2, <3>3 DEF TxOk, Writes, Counts, Wrote, IsOpen, OpenChildren, Waits
    <3>6. Tells(u)'
      BY <3>1, <3>2, <3>3 DEF TxOk, Tells, Wrote
    <3> QED
      BY <3>4, <3>5, <3>6 DEF TxOk
  <2>3. Excl'
    BY <2>1 DEF IInv, Excl
  <2> QED
    BY <1>1, <2>2, <2>3 DEF vars, IInv, TypeOK, Family, Inbox, NoEarlyWake, ChildCapHolds,
       EveryOutcomeReported, Gaming, Waits, OpenChildren
<1>2. ASSUME NEW t \in Calls, Begin(t) \/ Step(t) \/ Abort(t) PROVE IInv'
  BY <1>2, BeginOk, LockParentOk, InsertOk, SettleOk, SweepRowOk, SweepDoneOk, PostOk, PostingOk,
     PolicyOk, ResolveOk, ResolvingOk, CommitOk, AbortOk DEF Step
<1> QED
  BY <1>1, <1>2 DEF Next

(* The inductive invariant, whatever calls are made together and however   *)
(* their statements interleave: the row locks of queue.ts's transactions.  *)
THEOREM FamilyTxInvariant == Spec => []IInv
BY InitOk, NextOk, PTL DEF Spec

(* Rows, messages, locks and the private writes of the calls keep their    *)
(* shape, in whatever order the statements of the transactions come.       *)
THEOREM TypeCorrect == Spec => []TypeOK
<1>1. IInv => TypeOK
  BY DEF IInv
<1> QED
  BY <1>1, FamilyTxInvariant, PTL

(* A call that counted the open children before another one added a child  *)
(* does not wake their parent: cancelJob and the sweeps, which lock no row *)
(* of the parent, are held by the foreign key of the message they posted.  *)
THEOREM NoEarlyWakeHolds == Spec => []NoEarlyWake
<1>1. IInv => NoEarlyWake
  BY DEF IInv
<1> QED
  BY <1>1, FamilyTxInvariant, PTL

(* Calls that race for a child agree on what became of it: the inbox has   *)
(* at most one message about it, which says what the row says.             *)
THEOREM OneOutcomePerChildHolds == Spec => []OneOutcomePerChild
<1>1. IInv => OneOutcomePerChild
  <2> SUFFICES ASSUME IInv, NEW c \in Child
               PROVE  LET said == {m \in inbox : m.child = c}
                      IN /\ Cardinality(said) <= 1
                         /\ \A m \in said : \E op \in DOMAIN Outcome :
                              m.outcome = Outcome[op] /\ rows[c].status = Verdict[op]
    BY DEF OneOutcomePerChild
  <2> DEFINE said == {m \in inbox : m.child = c}
  <2>1. \A m, k \in said : m = k
    BY DEF IInv, Inbox
  <2>2. said = {} \/ \E m \in said : said = {m}
    BY <2>1
  <2>3. Cardinality(said) <= 1
    <3>1. CASE said = {}
      BY <3>1, FS_EmptySet
    <3>2. CASE \E m \in said : said = {m}
      <4>1. PICK m \in said : said = {m}
        BY <3>2
      <4>2. Cardinality({m}) = 1
        BY FS_Singleton
      <4> QED
        BY <4>1, <4>2
    <3> QED
      BY <2>2, <3>1, <3>2
  <2>4. \A m \in said : \E op \in DOMAIN Outcome :
          m.outcome = Outcome[op] /\ rows[c].status = Verdict[op]
    <3>1. Loud \subseteq DOMAIN Outcome
      BY DEF Loud, Outcome
    <3> QED
      BY <3>1 DEF IInv, Inbox
  <2> QED
    BY <2>3, <2>4
<1> QED
  BY <1>1, FamilyTxInvariant, PTL

(* A parent that is still open has been told of every settled child: the   *)
(* message is in the transaction that settles it, and a parent that was    *)
(* closed when the message was to be posted is closed for good.            *)
THEOREM EveryOutcomeReportedHolds == Spec => []EveryOutcomeReported
<1>1. IInv => EveryOutcomeReported
  BY DEF IInv, Inbox
<1> QED
  BY <1>1, FamilyTxInvariant, PTL

(* However many submissions race, max_children holds: what add counted     *)
(* under the lock of the parent only shrinks until it commits.             *)
THEOREM ChildCapHoldsAlways == Spec => []ChildCapHolds
<1>1. IInv => ChildCapHolds
  BY DEF IInv
<1> QED
  BY <1>1, FamilyTxInvariant, PTL

(* When at most one call of a game settles children without locking the    *)
(* parent (the cancel of one child, or a sweep; the cancel of the parent   *)
(* does not count, for it closes the parent), no parent waits for children *)
(* that are all settled: the calls that settle the last two see each other.*)
THEOREM NoParentStrandedHolds == ASSUME OneSweep PROVE Spec => []NoParentStranded
<1>1. IInv => NoParentStranded
  BY DEF IInv, Waits, NoParentStranded
<1> QED
  BY <1>1, FamilyTxInvariant, PTL
=============================================================================
