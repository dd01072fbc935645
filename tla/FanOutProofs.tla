--------------------------- MODULE FanOutProofs ---------------------------
(***************************************************************************)
(* Proof that the answer of an aggregator is true, for a fan-out of any    *)
(* size, any number of claims and runs, and every set of operations that   *)
(* does not run the parent early or take a settled child back.             *)
(*                                                                         *)
(* Every step of the queue but adding and claiming is Onward: what it does *)
(* to rows and messages, as far as a fan-out depends on it.  The invariant *)
(* FanInv relates the command, the rows, what each claim of the aggregator *)
(* has in hand, and the messages; one lemma per action of AgentFanOut.     *)
(***************************************************************************)
EXTENDS MinionFamilyProofs

(* The columns that the steps of a fan-out leave alone.                    *)
Kin(o, n) ==
  n.parent = o.parent /\ n.removeOn = o.removeOn /\ n.policy = o.policy /\ n.started = o.started

LEMMA UnlockedKin ==
  ASSUME NEW row \in SoundRow, NEW st, NEW n
  PROVE  /\ Unlocked(row, st).status = st /\ Kin(row, Unlocked(row, st))
         /\ Completed(row, n).status = "completed" /\ Completed(row, n).result = n
         /\ Kin(row, Completed(row, n))
BY DEF Unlocked, Completed, Kin, SoundRow, Row

LEMMA BlamedKin ==
  ASSUME NEW row \in SoundRow, NEW st, NEW err, NEW burned
  PROVE  /\ Blamed(row, st, err).status = st /\ Kin(row, Blamed(row, st, err))
         /\ LET w == Charged(Blamed(row, st, err), burned)
            IN w.status = st /\ w.error = err /\ Kin(row, w)
BY DEF Unlocked, Blamed, Charged, Kin, SoundRow, Row

LEMMA StalledKin ==
  ASSUME NEW row \in SoundRow
  PROVE  Stalled(row).status = row.status /\ Stalled(row).error = row.error /\ Kin(row, Stalled(row))
BY DEF Stalled, Kin, SoundRow, Row

LEMMA ResolveKin ==
  ASSUME NEW tbl \in [Job -> SoundRow], NEW P, NEW k \in Job
  PROVE  /\ Kin(tbl[k], Resolve(tbl, P)[k])
         /\ \/ Resolve(tbl, P)[k] = tbl[k]
            \/ tbl[k].status = "waiting-children" /\ Resolve(tbl, P)[k].status = "waiting"
BY DEF Resolve, Kin, SoundRow, Row

(* What a step that adds and claims nothing does to a family from which    *)
(* nothing is removed or retried: settled rows stay as they are, only rows *)
(* of D complete, and the aggregator gets the messages about the children  *)
(* that settle, each with how the child ended.                             *)
Closes(c) == jobs[c].parent = Agg /\ IsOpen(jobs[c]) /\ ~IsOpen(jobs'[c])

RowOnward(k, D) ==
  /\ Kin(jobs[k], jobs'[k])
  /\ jobs[k].status # "absent" => jobs'[k].status # "absent"
  /\ ~IsOpen(jobs[k]) => jobs'[k] = jobs[k]
  /\ jobs'[k].status = "active" => jobs[k].status = "active" /\ jobs'[k].token = jobs[k].token
  /\ jobs'[k].status = "completed" => jobs[k].status = "completed" \/ k \in D

MailOnward ==
  /\ inbox[Agg] \subseteq inbox'[Agg]
  /\ \A m \in inbox'[Agg] \ inbox[Agg] :
       m.child \in Job /\ Closes(m.child) /\ m.outcome = Fate(jobs'[m.child])
  /\ \A c \in Job :
       Closes(c) /\ IsOpen(jobs'[Agg]) /\ Fate(jobs'[c]) # "missing"
       => \E m \in inbox'[Agg] : m.child = c

Onward(D) == nextId' = nextId /\ (\A k \in Job : RowOnward(k, D)) /\ MailOnward

LEMMA AggIsJob == Agg \in Job /\ Agg # NoJob
BY BoundsAssumption DEF Agg, Job, NoJob

LEMMA SettledSetOnward ==
  ASSUME FInv, NEW S \in SUBSET Job, NEW D, NEW outcome, NEW tbl \in [Job -> SoundRow], NEW P,
         \A k \in Job \ S : tbl[k] = jobs[k],
         \A k \in S : /\ IsOpen(jobs[k]) /\ tbl[k].status \in Terminal
                      /\ Kin(jobs[k], tbl[k]) /\ Fate(tbl[k]) = outcome
                      /\ tbl[k].status = "completed" => k \in D,
         jobs' = Resolve(tbl, P), inbox' = Deliver(tbl, S, outcome), nextId' = nextId
  PROVE  Onward(D)
<1>1. \A k \in Job : /\ Kin(tbl[k], jobs'[k])
                     /\ jobs'[k] = tbl[k] \/ (tbl[k].status = "waiting-children"
                                             /\ jobs'[k].status = "waiting")
  BY ResolveKin
<1>2. ASSUME NEW k \in Job PROVE RowOnward(k, D)
  <2>1. CASE k \in S
    <3>1. jobs'[k] = tbl[k]
      BY <1>1, <2>1 DEF Terminal
    <3> QED
      BY <2>1, <3>1 DEF RowOnward, Terminal, Kin
  <2>2. CASE k \notin S
    <3>1. tbl[k] = jobs[k]
      BY <2>2
    <3> QED
      BY <1>1, <3>1 DEF RowOnward, IsOpen, OpenStatus
  <2> QED
    BY <2>1, <2>2
<1>3. \A k \in S : jobs'[k] = tbl[k] /\ ~IsOpen(jobs'[k])
  BY <1>1 DEF Terminal, IsOpen, OpenStatus
<1>4. \A k \in Job \ S : ~Closes(k)
  BY <1>1 DEF Closes, IsOpen, OpenStatus
<1>5. Agg \in Job
  BY AggIsJob
<1>6. IsOpen(tbl[Agg]) <=> IsOpen(jobs'[Agg])
  BY <1>1, <1>5 DEF IsOpen, OpenStatus
<1>7. inbox[Agg] \subseteq inbox'[Agg]
  BY <1>5 DEF Deliver
<1>8. ASSUME NEW m \in inbox'[Agg] \ inbox[Agg]
      PROVE  m.child \in Job /\ Closes(m.child) /\ m.outcome = Fate(jobs'[m.child])
  <2>1. PICK c \in S : tbl[c].parent = Agg /\ m.child = c /\ m.outcome = outcome
    BY <1>5, <1>8 DEF Deliver
  <2> QED
    BY <1>3, <2>1 DEF Closes, Kin
<1>9. ASSUME NEW c \in Job, Closes(c), IsOpen(jobs'[Agg])
      PROVE  \E m \in inbox'[Agg] : m.child = c
  <2>1. c \in S /\ tbl[c].parent = Agg
    BY <1>4, <1>9 DEF Closes, Kin
  <2> QED
    BY <1>5, <1>6, <1>9, <2>1, DeliverTells
<1> QED
  BY <1>2, <1>7, <1>8, <1>9 DEF Onward, MailOnward

(* A step that tells nobody: no child may close that has a story to tell.  *)
LEMMA QuietOnward ==
  ASSUME FInv, NEW D, nextId' = nextId, inbox' = inbox,
         \A k \in Job : \/ jobs'[k] = jobs[k]
                        \/ /\ IsOpen(jobs[k]) /\ Kin(jobs[k], jobs'[k])
                           /\ \/ jobs'[k].status \in OpenStatus \ {"active"}
                              \/ jobs'[k].status = "dead" /\ jobs'[k].error = "stalled"
  PROVE  Onward(D)
<1>1. ASSUME NEW k \in Job PROVE RowOnward(k, D)
  BY DEF RowOnward, Kin, IsOpen, OpenStatus
<1>2. ASSUME NEW c \in Job, Closes(c) PROVE Fate(jobs'[c]) = "missing"
  BY <1>2 DEF Closes, Fate, IsOpen, OpenStatus
<1> QED
  BY <1>1, <1>2 DEF Onward, MailOnward

(* The rows of a fan-out: nothing is removed with its settling, and the    *)
(* failure of a child changes neither the parent nor whose child it is.    *)
Plain ==
  \A k \in Job : jobs[k].removeOn = {} /\ (jobs[k].parent = NoJob \/ jobs[k].policy = "ignore")

LEMMA PlainPolicy ==
  ASSUME NEW tbl \in [Job -> SoundRow], NEW j \in Job,
         tbl[j].parent = NoJob \/ tbl[j].policy = "ignore"
  PROVE  \E P : ApplyPolicy(tbl, j) = Resolve(tbl, P)
<1>1. CASE tbl[j].parent = NoJob
  <2>1. ApplyPolicy(tbl, j) = tbl
    BY <1>1 DEF ApplyPolicy
  <2>2. Resolve(tbl, {}) = tbl
    BY DEF Resolve
  <2> QED
    BY <2>1, <2>2
<1>2. CASE tbl[j].parent # NoJob /\ tbl[j].policy = "ignore"
  BY <1>2 DEF ApplyPolicy
<1> QED
  BY <1>1, <1>2

LEMMA DeleteNoInbox ==
  ASSUME inbox \in [Job -> SUBSET Message], NEW tbl, NEW S, NEW outcome
  PROVE  DeleteInboxes(Deliver(tbl, S, outcome), {}) = Deliver(tbl, S, outcome)
BY DEF DeleteInboxes, Deliver

LEMMA FailJobOnward ==
  ASSUME FInv, Plain, NEW r \in runs, Holds(jobs, r), FailJob(r), nextId' = nextId
  PROVE  Onward({})
<1> DEFINE d == Charged(Blamed(jobs[r.job], "dead", "run"), 1)
           settled == [jobs EXCEPT ![r.job] = d]
<1>1. r.job \in Job /\ jobs \in [Job -> SoundRow] /\ inbox \in [Job -> SUBSET Message]
      /\ jobs[r.job].status = "active" /\ jobs[r.job].removeOn = {}
  BY DEF FInv, IInv, Run, Holds, Plain
<1>2. d \in SoundRow
  BY <1>1, KilledSound DEF Errors
<1>3. d.status = "dead" /\ d.error = "run" /\ Kin(jobs[r.job], d)
  BY <1>1, BlamedKin
<1> HIDE DEF d
<1>4. settled \in [Job -> SoundRow] /\ settled[r.job] = d
      /\ \A k \in Job \ {r.job} : settled[k] = jobs[k]
  BY <1>1, <1>2
<1>5. /\ jobs' = DeleteRows(ApplyPolicy(settled, r.job), {})
      /\ inbox' = DeleteInboxes(Deliver(settled, {r.job}, "dead"), {})
  BY <1>1 DEF FailJob, d
<1> HIDE DEF settled
<1>6. PICK P : ApplyPolicy(settled, r.job) = Resolve(settled, P)
  BY <1>1, <1>3, <1>4, PlainPolicy DEF Plain, Kin
<1>7. jobs' = Resolve(settled, P) /\ inbox' = Deliver(settled, {r.job}, "dead")
  BY <1>1, <1>4, <1>5, <1>6, DeleteNone, DeleteNoInbox, ResolveSound
<1>8. Fate(d) = "dead"
  BY <1>3 DEF Fate
<1> QED
  BY <1>1, <1>3, <1>4, <1>7, <1>8, SettledSetOnward DEF IsOpen, OpenStatus, Terminal

LEMMA CompleteJobOnward ==
  ASSUME FInv, Plain, NEW r \in runs, Holds(jobs, r), CompleteJob(r), nextId' = nextId
  PROVE  Onward({r.job}) /\ jobs'[r.job].result = r.claim
<1> DEFINE d == Completed(jobs[r.job], r.claim)
           settled == [jobs EXCEPT ![r.job] = d]
<1>1. r.job \in Job /\ jobs \in [Job -> SoundRow] /\ inbox \in [Job -> SUBSET Message]
      /\ jobs[r.job].status = "active" /\ jobs[r.job].removeOn = {}
  BY DEF FInv, IInv, Run, Holds, Plain
<1>2. d \in SoundRow
  <2>1. r.claim = jobs[r.job].started /\ r.claim \in Nat
    BY HolderHasLastClaim DEF FInv, IInv, Run
  <2> QED
    BY <1>1, <2>1, CompletedSound
<1>3. d.status = "completed" /\ d.result = r.claim /\ Kin(jobs[r.job], d)
  BY <1>1, UnlockedKin
<1> HIDE DEF d
<1>4. settled \in [Job -> SoundRow] /\ settled[r.job] = d
      /\ \A k \in Job \ {r.job} : settled[k] = jobs[k]
  BY <1>1, <1>2
<1> DEFINE P == {jobs[r.job].parent}
<1>5. /\ jobs' = DeleteRows(Resolve(settled, P), {})
      /\ inbox' = DeleteInboxes(Deliver(settled, {r.job}, "complete"), {})
  BY <1>1 DEF CompleteJob, d
<1> HIDE DEF settled, P
<1>6. jobs' = Resolve(settled, P) /\ inbox' = Deliver(settled, {r.job}, "complete")
  BY <1>1, <1>4, <1>5, DeleteNone, DeleteNoInbox, ResolveSound
<1>7. Fate(d) = "complete"
  BY <1>3 DEF Fate
<1>8. Onward({r.job})
  BY <1>1, <1>3, <1>4, <1>6, <1>7, SettledSetOnward DEF IsOpen, OpenStatus, Terminal
<1>9. jobs'[r.job] = d
  BY <1>1, <1>3, <1>4, <1>6, ResolveKin
<1> QED
  BY <1>3, <1>8, <1>9

LEMMA CancelOnward ==
  ASSUME FInv, NEW j \in Job, CancelTree(j)
  PROVE  Onward({})
<1> DEFINE S == {i \in Job : i \in Descendants(jobs, j) /\ IsOpen(jobs[i])}
           cancelled == [i \in Job |-> IF i \in S THEN Unlocked(jobs[i], "cancelled")
                                       ELSE jobs[i]]
<1>1. jobs \in [Job -> SoundRow]
  BY DEF FInv, IInv
<1>2. \A i \in S : Unlocked(jobs[i], "cancelled") \in SoundRow
  BY <1>1, UnlockedSound DEF IsOpen, OpenStatus, Status, Terminal
<1>3. \A i \in S : LET d == Unlocked(jobs[i], "cancelled")
                   IN d.status = "cancelled" /\ Kin(jobs[i], d)
  BY <1>1, UnlockedKin
<1>4. /\ cancelled \in [Job -> SoundRow]
      /\ \A k \in Job \ S : cancelled[k] = jobs[k]
      /\ \A k \in S : cancelled[k].status = "cancelled" /\ Kin(jobs[k], cancelled[k])
  BY <1>1, <1>2, <1>3
<1>5. /\ jobs' = Resolve(cancelled, ParentsOf(jobs, S))
      /\ inbox' = Deliver(cancelled, S, "cancelled") /\ nextId' = nextId
  BY DEF CancelTree, CancelJob
<1>6. \A k \in S : IsOpen(jobs[k]) /\ k \in Job
  OBVIOUS
<1> HIDE DEF cancelled, S
<1>7. \A k \in S : Fate(cancelled[k]) = "cancelled"
  BY <1>4 DEF Fate
<1> QED
  BY <1>4, <1>5, <1>6, <1>7, SettledSetOnward DEF Terminal

LEMMA TimeoutOnward ==
  ASSUME FInv, NEW S \in SUBSET Job, NEW burned \in {0, 1},
         \A j \in S : jobs[j].status = "active", KillForTimeout(S, burned)
  PROVE  Onward({})
<1> DEFINE dead == [j \in Job |->
                     IF j \in S THEN Charged(Blamed(jobs[j], "dead", "timeout"), burned)
                     ELSE jobs[j]]
<1>1. jobs \in [Job -> SoundRow]
  BY DEF FInv, IInv
<1>2. \A j \in S : Charged(Blamed(jobs[j], "dead", "timeout"), burned) \in SoundRow
  BY <1>1, KilledSound DEF Errors
<1>3. \A j \in S : LET d == Charged(Blamed(jobs[j], "dead", "timeout"), burned)
                   IN d.status = "dead" /\ d.error = "timeout" /\ Kin(jobs[j], d)
  BY <1>1, BlamedKin
<1>4. /\ dead \in [Job -> SoundRow]
      /\ \A k \in Job \ S : dead[k] = jobs[k]
      /\ \A k \in S : dead[k].status = "dead" /\ dead[k].error = "timeout" /\ Kin(jobs[k], dead[k])
  BY <1>1, <1>2, <1>3
<1>5. /\ jobs' = Resolve(dead, ParentsOf(jobs, S))
      /\ inbox' = Deliver(dead, S, "timeout") /\ nextId' = nextId
  BY DEF KillForTimeout
<1> HIDE DEF dead
<1>6. \A k \in S : Fate(dead[k]) = "timeout" /\ IsOpen(jobs[k])
  BY <1>4 DEF Fate, IsOpen, OpenStatus
<1> QED
  BY <1>4, <1>5, <1>6, SettledSetOnward DEF Terminal

LEMMA SweepOnward ==
  ASSUME FInv, Sweep
  PROVE  Onward({})
<1>1. jobs \in [Job -> SoundRow]
  BY DEF FInv, IInv
<1>2. PICK S \in SUBSET Job : PromoteDelayed(S) \/ HandleStalled(S) \/ HandleTimeouts(S)
                              \/ HandleWallClockTimeouts(S)
  BY DEF Sweep
<1>3. CASE PromoteDelayed(S)
  <2>1. \A k \in Job : \/ jobs'[k] = jobs[k]
                       \/ jobs[k].status = "delayed" /\ jobs'[k] = Unlocked(jobs[k], "waiting")
    BY <1>3 DEF PromoteDelayed
  <2>2. \A k \in Job : Unlocked(jobs[k], "waiting").status = "waiting"
                       /\ Kin(jobs[k], Unlocked(jobs[k], "waiting"))
    BY <1>1, UnlockedKin
  <2>3. nextId' = nextId /\ inbox' = inbox
    BY <1>3 DEF PromoteDelayed
  <2>4. \A k \in Job : \/ jobs'[k] = jobs[k]
                       \/ /\ IsOpen(jobs[k]) /\ Kin(jobs[k], jobs'[k])
                          /\ jobs'[k].status \in OpenStatus \ {"active"}
    BY <2>1, <2>2 DEF IsOpen, OpenStatus
  <2> QED
    BY <2>3, <2>4, QuietOnward
<1>4. CASE HandleStalled(S)
  <2>1. \A k \in Job : \/ jobs'[k] = jobs[k]
                       \/ /\ jobs[k].status = "active"
                          /\ \/ jobs'[k] = Stalled(Unlocked(jobs[k], "waiting"))
                             \/ jobs'[k] = Stalled(Charged(Blamed(jobs[k], "dead", "stalled"), 1))
    BY <1>4 DEF HandleStalled
  <2>2. ASSUME NEW k \in Job, jobs[k].status = "active"
        PROVE  LET w == Unlocked(jobs[k], "waiting")
               IN Stalled(w).status = "waiting" /\ Kin(jobs[k], Stalled(w))
    <3>1. Unlocked(jobs[k], "waiting") \in SoundRow
      BY <1>1, <2>2, UnlockedSound DEF IsOpen, OpenStatus, Status
    <3> QED
      BY <1>1, <3>1, UnlockedKin, StalledKin DEF Kin
  <2>3. ASSUME NEW k \in Job, jobs[k].status = "active"
        PROVE  LET w == Charged(Blamed(jobs[k], "dead", "stalled"), 1)
               IN Stalled(w).status = "dead" /\ Stalled(w).error = "stalled" /\ Kin(jobs[k], Stalled(w))
    <3> DEFINE w == Charged(Blamed(jobs[k], "dead", "stalled"), 1)
    <3>1. w \in SoundRow
      BY <1>1, <2>3, KilledSound DEF Errors
    <3>2. w.status = "dead" /\ w.error = "stalled" /\ Kin(jobs[k], w)
      BY <1>1, BlamedKin
    <3> HIDE DEF w
    <3>3. Stalled(w).status = "dead" /\ Stalled(w).error = "stalled" /\ Kin(jobs[k], Stalled(w))
      BY <3>1, <3>2, StalledKin DEF Kin
    <3> QED
      BY <3>3 DEF w
  <2>4. nextId' = nextId /\ inbox' = inbox
    BY <1>4 DEF HandleStalled
  <2>5. \A k \in Job : \/ jobs'[k] = jobs[k]
                       \/ /\ IsOpen(jobs[k]) /\ Kin(jobs[k], jobs'[k])
                          /\ \/ jobs'[k].status \in OpenStatus \ {"active"}
                             \/ jobs'[k].status = "dead" /\ jobs'[k].error = "stalled"
    BY <2>1, <2>2, <2>3 DEF IsOpen, OpenStatus
  <2> QED
    BY <2>4, <2>5, QuietOnward
<1>5. CASE HandleTimeouts(S)
  BY <1>5, TimeoutOnward DEF HandleTimeouts
<1>6. CASE HandleWallClockTimeouts(S)
  BY <1>6, TimeoutOnward DEF HandleWallClockTimeouts
<1> QED
  BY <1>2, <1>3, <1>4, <1>5, <1>6

LEMMA StillOnward ==
  ASSUME FInv, NEW D, jobs' = jobs, inbox' = inbox, nextId' = nextId
  PROVE  Onward(D)
BY QuietOnward

(* The steps of a worker; only one that completes its run answers.         *)
LEMMA CompleteRunOnward ==
  ASSUME FInv, Plain, NEW r \in runs, CompleteRun(r)
  PROVE  IF Holds(jobs, r) THEN Onward({r.job}) /\ jobs'[r.job].result = r.claim
         ELSE Onward({})
BY CompleteJobOnward, StillOnward DEF CompleteRun

OtherStep(r) ==
  \/ \E unrecoverable \in BOOLEAN : FailRun(r, unrecoverable)
  \/ DropRun(r) \/ ReleaseLeaseFull(r) \/ EvictRun(r)
  \/ \E mode \in {"aborted", "timedOut"} : AbortRun(r, mode)

LEMMA UnquietStep ==
  ASSUME Unquiet, NEW r \in runs, WorkerStep(r)
  PROVE  CompleteRun(r) \/ OtherStep(r)
<1>1. ~QuietDefer(r) /\ ~QuietRelease(r) /\ ~QuietCancel(r) /\ ~QuietFallback(r)
  BY DEF Unquiet, QuietDefer, QuietRelease, QuietCancel, QuietFallback
<1> QED
  BY <1>1 DEF WorkerStep, OtherStep

LEMMA OtherOnward ==
  ASSUME FInv, Plain, NEW r \in runs, OtherStep(r)
  PROVE  Onward({})
<1>1. r.job \in Job /\ jobs \in [Job -> SoundRow]
  BY DEF FInv, IInv, Run
<1>2. nextId' = nextId
  BY DEF OtherStep, FailRun, DropRun, ReleaseLeaseFull, AbortRun, EvictRun
<1>3. \/ Holds(jobs, r) /\ FailJob(r)
      \/ jobs' = jobs /\ inbox' = inbox
      \/ Holds(jobs, r) /\ RetryLater(r)
      \/ /\ Holds(jobs, r) /\ inbox' = inbox
         /\ jobs' = [jobs EXCEPT ![r.job] = Blamed(jobs[r.job], "delayed", "run")]
  BY DEF OtherStep, FailRun, DropRun, ReleaseLeaseFull, AbortRun, EvictRun
<1>4. ASSUME NEW d, Holds(jobs, r), inbox' = inbox, jobs' = [jobs EXCEPT ![r.job] = d],
             d.status = "delayed", Kin(jobs[r.job], d)
      PROVE  Onward({})
  <2>1. jobs'[r.job] = d /\ \A k \in Job \ {r.job} : jobs'[k] = jobs[k]
    BY <1>1, <1>4
  <2>2. IsOpen(jobs[r.job]) /\ d.status \in OpenStatus \ {"active"}
    BY <1>4 DEF Holds, IsOpen, OpenStatus
  <2> QED
    BY <1>2, <1>4, <2>1, <2>2, QuietOnward
<1>5. CASE Holds(jobs, r) /\ RetryLater(r)
  <2> DEFINE d == Charged(Blamed(jobs[r.job], "delayed", "run"), 1)
  <2>1. d.status = "delayed" /\ Kin(jobs[r.job], d)
    BY <1>1, BlamedKin
  <2>2. jobs' = [jobs EXCEPT ![r.job] = d] /\ inbox' = inbox
    BY <1>5 DEF RetryLater
  <2> HIDE DEF d
  <2> QED
    BY <1>4, <1>5, <2>1, <2>2
<1> QED
  BY <1>1, <1>2, <1>3, <1>4, <1>5, FailJobOnward, StillOnward, BlamedKin
-----------------------------------------------------------------------------
(* The invariant of a fan-out: how far the command is; the rows it added;  *)
(* what the claims of the aggregator have in hand; and the messages.       *)
Shape ==
  /\ command \in {"start", "adding", "listing", "done", "dead"}
  /\ nextId \in 1 .. MaxJobs + 1 /\ children = 2 .. (nextId - 1)
  /\ command = "start" <=> nextId = 1
  /\ command \in {"listing", "done"} => Cardinality(children) = Entries
  /\ listed # {} => command = "done" /\ listed = children

Rows ==
  /\ nextId > 1 => jobs[Agg].status # "absent"
  /\ jobs[Agg].parent = NoJob /\ jobs[Agg].removeOn = {} /\ jobs[Agg].started <= MaxClaims
  /\ \A c \in children : /\ jobs[c].status # "absent" /\ jobs[c].parent = Agg
                         /\ jobs[c].removeOn = {} /\ jobs[c].policy = "ignore"

(* The claim whose answer is the aggregator's, or will be unless it loses  *)
(* its lock.                                                               *)
Marked(n) ==
  \/ jobs[Agg].status = "active" /\ jobs[Agg].token = n
  \/ jobs[Agg].status = "completed" /\ jobs[Agg].result = n

DeskType ==
  [at : {"none", "reading", "marking", "answering"}, ids : SUBSET Job, got : SUBSET Message]

(* A claim that was given ids was given all, and after every child had     *)
(* settled: no message comes once it read.                                 *)
DeskOf(n) ==
  /\ n > jobs[Agg].started => desk[n] = Empty
  /\ desk[n].ids # {} => /\ command = "done" /\ desk[n].ids = children
                         /\ \A c \in children : ~IsOpen(jobs[c])
  /\ desk[n].at # "answering" => desk[n].got = {}
  /\ desk[n].got \subseteq read
  /\ desk[n].at = "answering" /\ desk[n].ids # {} /\ Marked(n) => inbox[Agg] \subseteq read

Desks ==
  /\ desk \in [1 .. MaxClaims -> DeskType]
  /\ \A n \in 1 .. MaxClaims : DeskOf(n)
  /\ \A m \in read : \E n \in 1 .. MaxClaims : m \in desk[n].got
  /\ read \subseteq inbox[Agg]
  /\ jobs[Agg].status = "completed" =>
       jobs[Agg].result \in 1 .. MaxClaims /\ desk[jobs[Agg].result].at = "answering"

(* A message tells how its child ended; while a claim of the aggregator    *)
(* may still come, each child that has something to tell has told it.      *)
Mail ==
  /\ \A m \in inbox[Agg] :
       m.child \in children /\ ~IsOpen(jobs[m.child]) /\ m.outcome = Fate(jobs[m.child])
  /\ \A c \in children :
       /\ ~IsOpen(jobs[c]) /\ Fate(jobs[c]) # "missing"
       /\ IsOpen(jobs[Agg]) \/ \E n \in 1 .. MaxClaims : desk[n].ids # {}
       => \E m \in inbox[Agg] : m.child = c

FanInv == Shape /\ Rows /\ Desks /\ Mail

(* The premises of every step of a fan-out.                                *)
Fanned == PInv /\ FanInv

LEMMA FannedFacts ==
  ASSUME Fanned
  PROVE  /\ FInv /\ Unquiet /\ Plain
         /\ jobs \in [Job -> SoundRow] /\ inbox \in [Job -> SUBSET Message] /\ runs \subseteq Run
         /\ nextId \in Nat /\ nextId >= 1 /\ MaxClaims \in Nat
         /\ children \subseteq Job \ {Agg} /\ Agg \in Job /\ Agg # NoJob
         /\ \A k \in Job : jobs[k].parent = Agg => k \in children
<1>1. /\ FInv /\ Unquiet
      /\ jobs \in [Job -> SoundRow] /\ inbox \in [Job -> SUBSET Message] /\ runs \subseteq Run
      /\ nextId \in Nat /\ nextId >= 1 /\ MaxClaims \in Nat
  BY BoundsAssumption DEF Fanned, PInv, FInv, IInv, Drawn
<1>2. children = 2 .. (nextId - 1) /\ nextId \in 1 .. MaxJobs + 1 /\ MaxJobs \in Nat \ {0}
  BY BoundsAssumption DEF Fanned, FanInv, Shape
<1>3. children \subseteq Job \ {Agg} /\ Agg \in Job /\ Agg # NoJob
  BY <1>2, AggIsJob DEF Job, Agg
<1>4. \A k \in Job : k = Agg \/ k \in children \/ k >= nextId
  BY <1>1, <1>2 DEF Job, Agg
<1>5. \A k \in Job : k >= nextId => jobs[k] = NoRow
  BY <1>1 DEF FInv, Drawn
<1>6. NoRow.parent = NoJob /\ NoRow.removeOn = {}
  BY DEF NoRow
<1>7. /\ jobs[Agg].parent = NoJob /\ jobs[Agg].removeOn = {}
      /\ \A c \in children : jobs[c].removeOn = {} /\ jobs[c].policy = "ignore"
  BY DEF Fanned, FanInv, Rows
<1>8. Plain
  BY <1>4, <1>5, <1>6, <1>7 DEF Plain
<1>9. \A k \in Job : jobs[k].parent = Agg => k \in children
  BY <1>3, <1>4, <1>5, <1>6, <1>7
<1> QED
  BY <1>1, <1>3, <1>8, <1>9

(* A step that goes on keeps it, if a claim that completes the aggregator  *)
(* held it and had read.                                                   *)
LEMMA OnwardKeeps ==
  ASSUME Fanned, NEW D, Onward(D), UNCHANGED fanVars,
         jobs'[Agg].status = "completed" =>
           \/ jobs[Agg].status = "completed"
           \/ LET n == jobs'[Agg].result
              IN n \in 1 .. MaxClaims /\ Marked(n) /\ desk[n].at = "answering"
  PROVE  FanInv'
<1>1. /\ children \subseteq Job \ {Agg} /\ Agg \in Job
      /\ \A k \in Job : jobs[k].parent = Agg => k \in children
  BY FannedFacts
<1>2. Shape /\ Rows /\ Desks /\ Mail
  BY DEF Fanned, FanInv
<1>3. /\ nextId' = nextId /\ command' = command /\ children' = children /\ listed' = listed
      /\ read' = read /\ desk' = desk
  BY DEF Onward, fanVars
<1>4. \A k \in Job : RowOnward(k, D)
  BY DEF Onward
<1>5. Shape'
  BY <1>2, <1>3 DEF Shape
<1>6. Rows'
  BY <1>1, <1>2, <1>3, <1>4 DEF Rows, RowOnward, Kin
<1>7. \A n : Marked(n)' => Marked(n)
  BY <1>1, <1>4 DEF Marked, RowOnward, IsOpen, OpenStatus
<1>8. \A m \in inbox'[Agg] \ inbox[Agg] :
        m.child \in children /\ Closes(m.child) /\ m.outcome = Fate(jobs'[m.child])
  BY <1>1 DEF Onward, MailOnward, Closes
<1>9. /\ \A c \in Job : ~IsOpen(jobs[c]) => jobs'[c] = jobs[c]
      /\ inbox[Agg] \subseteq inbox'[Agg]
  BY <1>4 DEF RowOnward, Onward, MailOnward
<1>10. ASSUME NEW n \in 1 .. MaxClaims, desk[n].ids # {}
       PROVE  /\ \A c \in children : ~IsOpen(jobs[c])
              /\ inbox'[Agg] = inbox[Agg]
  BY <1>2, <1>8, <1>9, <1>10 DEF Desks, DeskOf, Closes
<1>11. Desks'
  <2>1. ASSUME NEW n \in 1 .. MaxClaims PROVE DeskOf(n)'
    <3>1. DeskOf(n) /\ jobs'[Agg].started = jobs[Agg].started
      BY <1>1, <1>2, <1>4 DEF Desks, RowOnward, Kin
    <3>2. desk[n].ids # {} => \A c \in children : ~IsOpen(jobs'[c])
      BY <1>1, <1>9, <1>10
    <3> QED
      BY <1>3, <1>7, <1>10, <3>1, <3>2 DEF DeskOf
  <2>2. jobs'[Agg].status = "completed" =>
          jobs'[Agg].result \in 1 .. MaxClaims /\ desk[jobs'[Agg].result].at = "answering"
    BY <1>1, <1>2, <1>9 DEF Desks, IsOpen, OpenStatus
  <2> QED
    BY <1>2, <1>3, <1>9, <2>1, <2>2 DEF Desks
<1>12. Mail'
  <2>1. ASSUME NEW m \in inbox'[Agg]
        PROVE  m.child \in children /\ ~IsOpen(jobs'[m.child]) /\ m.outcome = Fate(jobs'[m.child])
    <3>1. CASE m \in inbox[Agg]
      BY <1>1, <1>2, <1>9, <3>1 DEF Mail
    <3>2. CASE m \notin inbox[Agg]
      BY <1>8, <3>2 DEF Closes
    <3> QED
      BY <3>1, <3>2
  <2>2. ASSUME NEW c \in children, ~IsOpen(jobs'[c]), Fate(jobs'[c]) # "missing",
               IsOpen(jobs'[Agg]) \/ \E n \in 1 .. MaxClaims : desk[n].ids # {}
        PROVE  \E m \in inbox'[Agg] : m.child = c
    <3>1. CASE IsOpen(jobs[c])
      <4>1. Closes(c) /\ IsOpen(jobs'[Agg])
        BY <1>2, <1>10, <2>2, <3>1 DEF Closes, Rows
      <4> QED
        BY <1>1, <2>2, <4>1 DEF Onward, MailOnward
    <3>2. CASE ~IsOpen(jobs[c])
      <4>1. jobs'[c] = jobs[c] /\ (IsOpen(jobs'[Agg]) => IsOpen(jobs[Agg]))
        BY <1>1, <1>9, <3>2
      <4> QED
        BY <1>2, <1>9, <2>2, <3>2, <4>1 DEF Mail
    <3> QED
      BY <3>1, <3>2
  <2> QED
    BY <1>3, <2>1, <2>2 DEF Mail
<1> QED
  BY <1>5, <1>6, <1>11, <1>12 DEF FanInv
-----------------------------------------------------------------------------
(* The command.                                                            *)
LEMMA NewRowKin ==
  ASSUME NEW p, NEW st, NEW policy, NEW removeOn, NEW deadline
  PROVE  LET row == NewRow(p, st, policy, removeOn, deadline)
         IN row.removeOn = removeOn /\ row.policy = policy
BY DEF NewRow, NoRow

LEMMA SubmitAggregatorKeeps ==
  ASSUME Fanned, SubmitAggregator
  PROVE  FanInv'
<1> DEFINE new == NewRow(NoJob, "waiting", "fail_parent", {}, FALSE)
<1>1. /\ Shape /\ Rows /\ Desks /\ Mail
      /\ FInv /\ Agg \in Job /\ NoJob \notin Job /\ MaxClaims \in Nat
  BY FannedFacts DEF Fanned, FanInv, Job, NoJob
<1>2. nextId = Agg /\ children = {} /\ listed = {}
  BY <1>1 DEF SubmitAggregator, Shape, Agg
<1>3. /\ Add(NoJob, "waiting", "fail_parent", {}, FALSE) /\ NoJob \in Job \cup {NoJob}
      /\ command' = "adding" /\ UNCHANGED <<children, listed, read, desk>>
  BY DEF SubmitAggregator
<1>4. /\ nextId' = nextId + 1 /\ inbox' = inbox /\ jobs[Agg] = NoRow /\ jobs'[Agg] = new
      /\ nextId \in Job
  <2>1. /\ nextId \in Job /\ nextId' = nextId + 1 /\ inbox' = inbox
        /\ jobs[nextId] = NoRow /\ jobs'[nextId] = new
    <3> HIDE DEF new
    <3>1. FInv /\ Add(NoJob, "waiting", "fail_parent", {}, FALSE) /\ NoJob \in Job \cup {NoJob}
      BY <1>1, <1>3
    <3> USE DEF new
    <3> QED
      BY <3>1, AddDoes
  <2> QED
    BY <1>2, <2>1
<1>5. /\ new.status = "waiting" /\ new.parent = NoJob /\ new.started = 0 /\ new.removeOn = {}
  BY DEF NewRow, NoRow
<1> HIDE DEF new
<1>6. \A n \in 1 .. MaxClaims : desk[n] = Empty
  BY <1>1, <1>4 DEF Desks, DeskOf, NoRow
<1>7. read = {} /\ inbox[Agg] = {}
  BY <1>1, <1>2, <1>6 DEF Desks, Mail, Empty
<1>8. Shape'
  <2>1. nextId' = 2 /\ nextId' \in 1 .. MaxJobs + 1 /\ children = 2 .. (nextId' - 1)
    BY <1>2, <1>4, BoundsAssumption DEF Agg
  <2> QED
    BY <1>2, <1>3, <2>1 DEF Shape
<1>9. Rows'
  BY <1>1, <1>2, <1>3, <1>4, <1>5 DEF Rows
<1>10. Desks'
  BY <1>1, <1>3, <1>4, <1>5, <1>6, <1>7 DEF Desks, DeskOf, Marked, Empty
<1>11. Mail'
  BY <1>2, <1>3, <1>4, <1>7 DEF Mail
<1> QED
  BY <1>8, <1>9, <1>10, <1>11 DEF FanInv

LEMMA SubmitChildKeeps ==
  ASSUME Fanned, SubmitChild
  PROVE  FanInv'
<1>1. /\ Shape /\ Rows /\ Desks /\ Mail /\ FInv
      /\ children \subseteq Job \ {Agg} /\ Agg \in Job /\ Agg # NoJob
      /\ jobs \in [Job -> SoundRow] /\ nextId \in Nat
  BY FannedFacts DEF Fanned, FanInv
<1>2. PICK deadline \in Deadlines : Add(Agg, "waiting", "ignore", {}, deadline)
  BY DEF SubmitChild
<1>3. /\ command = "adding" /\ children' = children \cup {nextId}
      /\ command' = IF Cardinality(children') = Entries THEN "listing" ELSE "adding"
      /\ UNCHANGED <<listed, read, desk>>
  BY DEF SubmitChild
<1> DEFINE new == NewRow(Agg, "waiting", "ignore", {}, deadline)
<1>4. /\ nextId \in Job /\ nextId' = nextId + 1 /\ inbox' = inbox /\ Agg < nextId
      /\ MayHaveChild(Agg) /\ jobs[nextId] = NoRow /\ jobs'[nextId] = new
      /\ \A k \in Job \ {nextId} :
           jobs'[k] = IF k = Agg /\ jobs[k].status \in {"waiting", "active", "delayed"}
                      THEN [jobs[k] EXCEPT !.status = "waiting-children"]
                      ELSE jobs[k]
  BY <1>1, <1>2, AddDoes
<1>5. /\ new.status = "waiting" /\ new.parent = Agg /\ new.removeOn = {}
      /\ new.policy = "ignore"
  BY NewRowFields, NewRowKin
<1> HIDE DEF new
<1>6. /\ children = 2 .. (nextId - 1) /\ nextId \in 2 .. MaxJobs /\ nextId \notin children
  BY <1>1, <1>4 DEF Shape, Agg, Job
<1>7. \A c \in children : jobs'[c] = jobs[c]
  BY <1>1, <1>4, <1>6
<1>8. \/ jobs'[Agg] = jobs[Agg]
      \/ /\ jobs'[Agg] = [jobs[Agg] EXCEPT !.status = "waiting-children"]
         /\ IsOpen(jobs[Agg])
  BY <1>1, <1>4, <1>6 DEF IsOpen, OpenStatus
<1>9. /\ jobs'[Agg].started = jobs[Agg].started /\ jobs'[Agg].parent = jobs[Agg].parent
      /\ jobs'[Agg].removeOn = jobs[Agg].removeOn /\ jobs'[Agg].result = jobs[Agg].result
      /\ jobs'[Agg].token = jobs[Agg].token
      /\ jobs'[Agg].status \in {jobs[Agg].status, "waiting-children"}
      /\ IsOpen(jobs'[Agg]) => IsOpen(jobs[Agg])
  BY <1>1, <1>8 DEF SoundRow, Row
<1>10. jobs[Agg].status # "absent"
  BY <1>1, <1>6 DEF Rows
<1>11. listed = {} /\ \A n \in 1 .. MaxClaims : desk[n].ids = {}
  BY <1>1, <1>3 DEF Shape, Desks, DeskOf
<1>12. Shape'
  <2>1. children' = 2 .. (nextId' - 1) /\ nextId' \in 1 .. MaxJobs + 1 /\ nextId' # 1
    BY <1>3, <1>4, <1>6, BoundsAssumption DEF Job
  <2> QED
    BY <1>3, <1>11, <2>1 DEF Shape
<1>13. Rows'
  BY <1>1, <1>3, <1>4, <1>5, <1>7, <1>9, <1>10 DEF Rows
<1>14. Desks'
  <2>1. ASSUME NEW n \in 1 .. MaxClaims PROVE DeskOf(n)'
    BY <1>1, <1>3, <1>9, <1>11 DEF Desks, DeskOf
  <2> QED
    BY <1>1, <1>3, <1>4, <1>9, <2>1 DEF Desks
<1>15. Mail'
  <2>1. IsOpen(jobs'[nextId])
    BY <1>4, <1>5 DEF IsOpen, OpenStatus
  <2> QED
    BY <1>1, <1>3, <1>4, <1>7, <1>9, <1>11, <2>1 DEF Mail
<1> QED
  BY <1>12, <1>13, <1>14, <1>15 DEF FanInv

LEMMA CommandKeeps ==
  ASSUME Fanned, ListChildren \/ CommandDies
  PROVE  FanInv'
<1>1. /\ Shape /\ Rows /\ Desks /\ Mail
      /\ UNCHANGED <<jobs, inbox, nextId, children, read, desk>>
  BY DEF Fanned, FanInv, ListChildren, CommandDies, vars
<1>2. command # "done" /\ command # "start" /\ \A n \in 1 .. MaxClaims : desk[n].ids = {}
  BY <1>1 DEF ListChildren, CommandDies, Desks, DeskOf
<1>3. Shape'
  BY <1>1, <1>2 DEF Shape, ListChildren, CommandDies
<1>4. Rows' /\ Mail'
  BY <1>1 DEF Rows, Mail
<1>5. Desks'
  <2>1. ASSUME NEW n \in 1 .. MaxClaims PROVE DeskOf(n)'
    BY <1>1, <1>2 DEF Desks, DeskOf, Marked
  <2> QED
    BY <1>1, <2>1 DEF Desks
<1> QED
  BY <1>3, <1>4, <1>5 DEF FanInv
-----------------------------------------------------------------------------
(* The claims.                                                             *)
LEMMA ClaimAggregatorKeeps ==
  ASSUME Fanned, ClaimAggregator
  PROVE  FanInv'
<1> DEFINE n0 == jobs[Agg].started + 1
<1>1. /\ Shape /\ Rows /\ Desks /\ Mail /\ FInv
      /\ children \subseteq Job \ {Agg} /\ Agg \in Job /\ MaxClaims \in Nat
      /\ jobs \in [Job -> SoundRow]
  BY FannedFacts DEF Fanned, FanInv
<1>2. Claim(Agg, "running") /\ UNCHANGED <<command, children, listed, read>>
  BY DEF ClaimAggregator
<1>3. /\ jobs[Agg].status = "waiting" /\ nextId' = nextId /\ inbox' = inbox
      /\ jobs' = [jobs EXCEPT ![Agg] = [jobs[Agg] EXCEPT !.status = "active",
                                          !.token = n0, !.started = n0]]
      /\ jobs'[Agg].status = "active" /\ jobs'[Agg].started = n0 /\ jobs'[Agg].token = n0
      /\ jobs'[Agg].parent = jobs[Agg].parent
  BY <1>1, <1>2, ClaimDoes
<1>4. jobs[Agg].started \in Nat /\ jobs'[Agg].removeOn = jobs[Agg].removeOn
  BY <1>1, <1>3 DEF SoundRow, Row
<1>5. n0 \in 1 .. MaxClaims /\ n0 > jobs[Agg].started
  BY <1>1, <1>2, <1>4 DEF Claim
<1>6. \A c \in children : jobs'[c] = jobs[c]
  BY <1>1, <1>3
<1>7. desk' = [desk EXCEPT ![n0] = [at |-> IF listed = {} THEN "answering" ELSE "reading",
                                    ids |-> listed, got |-> {}]]
  BY <1>3 DEF ClaimAggregator
<1>8. /\ desk'[n0].at = IF listed = {} THEN "answering" ELSE "reading"
      /\ desk'[n0].ids = listed /\ desk'[n0].got = {} /\ desk[n0].got = {}
      /\ \A n \in 1 .. MaxClaims \ {n0} : desk'[n] = desk[n]
      /\ desk' \in [1 .. MaxClaims -> DeskType]
  <2>1. listed \subseteq Job
    BY <1>1 DEF Shape
  <2>2. desk \in [1 .. MaxClaims -> DeskType] /\ desk[n0] = Empty
    BY <1>1, <1>5 DEF Desks, DeskOf
  <2> HIDE DEF n0
  <2> QED
    BY <1>5, <1>7, <2>1, <2>2 DEF DeskType, Empty
<1> HIDE DEF n0
<1>9. \A c \in children : ~IsOpen(jobs[c])
  BY <1>1, <1>3 DEF Fanned, PInv, ParentsWaitForChildren, OpenChildren, Rows
<1>10. Shape'
  BY <1>1, <1>2, <1>3 DEF Shape
<1>11. Rows'
  BY <1>1, <1>2, <1>3, <1>4, <1>5, <1>6 DEF Rows
<1>12. Desks'
  <2>1. ASSUME NEW n \in 1 .. MaxClaims PROVE DeskOf(n)'
    <3>1. CASE n = n0
      BY <1>1, <1>2, <1>3, <1>5, <1>6, <1>8, <1>9, <3>1 DEF DeskOf, Shape
    <3>2. CASE n # n0
      <4>1. ~Marked(n)'
        BY <1>3, <3>2 DEF Marked
      <4>2. DeskOf(n) /\ desk'[n] = desk[n]
        BY <1>1, <1>8, <3>2 DEF Desks
      <4>3. n > n0 => n > jobs[Agg].started
        BY <1>4, <1>5
      <4> QED
        BY <1>2, <1>3, <1>6, <4>1, <4>2, <4>3 DEF DeskOf
    <3> QED
      BY <3>1, <3>2
  <2>2. \A m \in read : \E n \in 1 .. MaxClaims : m \in desk'[n].got
    BY <1>1, <1>8 DEF Desks
  <2> QED
    BY <1>1, <1>2, <1>3, <1>8, <2>1, <2>2 DEF Desks
<1>13. Mail'
  <2>1. IsOpen(jobs[Agg])
    BY <1>3 DEF IsOpen, OpenStatus
  <2> QED
    BY <1>1, <1>2, <1>3, <1>6, <2>1 DEF Mail
<1> QED
  BY <1>10, <1>11, <1>12, <1>13 DEF FanInv

LEMMA ClaimChildKeeps ==
  ASSUME Fanned, NEW j \in Job \ {Agg}, ClaimChild(j), UNCHANGED fanVars
  PROVE  FanInv'
<1>1. /\ Shape /\ Rows /\ Desks /\ Mail /\ FInv
      /\ children \subseteq Job \ {Agg} /\ Agg \in Job /\ jobs \in [Job -> SoundRow]
  BY FannedFacts DEF Fanned, FanInv
<1>2. /\ jobs[j].status = "waiting" /\ nextId' = nextId /\ inbox' = inbox
      /\ jobs' = [jobs EXCEPT ![j] = [jobs[j] EXCEPT !.status = "active",
                                        !.token = jobs[j].started + 1,
                                        !.started = jobs[j].started + 1]]
      /\ jobs'[j].status = "active" /\ jobs'[j].parent = jobs[j].parent
  BY <1>1, ClaimDoes DEF ClaimChild
<1>3. jobs'[j].removeOn = jobs[j].removeOn /\ jobs'[j].policy = jobs[j].policy
  BY <1>1, <1>2 DEF SoundRow, Row
<1>4. \A k \in Job \ {j} : jobs'[k] = jobs[k]
  BY <1>1, <1>2
<1>5. IsOpen(jobs[j]) /\ IsOpen(jobs'[j])
  BY <1>2 DEF IsOpen, OpenStatus
<1>6. UNCHANGED <<command, children, listed, read, desk>> /\ jobs'[Agg] = jobs[Agg]
  BY <1>1, <1>4 DEF fanVars
<1>7. \A c \in children : c \in Job /\ (~IsOpen(jobs'[c]) <=> ~IsOpen(jobs[c]))
                          /\ (~IsOpen(jobs[c]) => jobs'[c] = jobs[c])
  BY <1>1, <1>4, <1>5
<1>8. Shape'
  BY <1>1, <1>2, <1>6 DEF Shape
<1>9. Rows'
  BY <1>1, <1>2, <1>3, <1>4, <1>6, <1>7 DEF Rows
<1>10. Desks'
  <2>1. ASSUME NEW n \in 1 .. MaxClaims PROVE DeskOf(n)'
    BY <1>1, <1>2, <1>6, <1>7 DEF Desks, DeskOf, Marked
  <2> QED
    BY <1>1, <1>2, <1>6, <2>1 DEF Desks
<1>11. Mail'
  BY <1>1, <1>2, <1>6, <1>7 DEF Mail
<1> QED
  BY <1>8, <1>9, <1>10, <1>11 DEF FanInv
-----------------------------------------------------------------------------
(* The aggregator's handler.                                               *)
LEMMA ClaimOfAggregator ==
  ASSUME Fanned, NEW r \in runs, r.job = Agg
  PROVE  r.claim \in 1 .. MaxClaims /\ r.claim <= jobs[Agg].started
<1>1. /\ r.claim \in Nat \ {0} /\ Agg < nextId /\ jobs[Agg].started \in Nat
      /\ jobs[Agg].status # "absent" => r.claim <= jobs[Agg].started
  BY FannedFacts DEF FInv, Claimed, Run, NoToken, SoundRow, Row
<1>2. jobs[Agg].status # "absent" /\ jobs[Agg].started <= MaxClaims
  BY <1>1, FannedFacts DEF Fanned, FanInv, Rows, Agg
<1>3. MaxClaims \in Nat
  BY BoundsAssumption
<1> QED
  BY <1>1, <1>2, <1>3

LEMMA CheckTokenKeeps ==
  ASSUME Fanned, NEW r \in runs, r.job = Agg, CheckToken(r)
  PROVE  FanInv'
<1> DEFINE n0 == r.claim
<1>1. /\ Shape /\ Rows /\ Desks /\ Mail
      /\ UNCHANGED <<jobs, inbox, nextId, command, children, listed, read>>
      /\ desk[n0].at = "reading" /\ n0 \in 1 .. MaxClaims /\ n0 <= jobs[Agg].started
      /\ jobs[Agg].started \in Nat
  BY ClaimOfAggregator, FannedFacts DEF Fanned, FanInv, CheckToken, vars, SoundRow, Row
<1>2. /\ desk' \in [1 .. MaxClaims -> DeskType]
      /\ desk'[n0].at = IF Holds(jobs, r) THEN "marking" ELSE "answering"
      /\ desk'[n0].ids = desk[n0].ids /\ desk'[n0].got = desk[n0].got
      /\ \A n \in 1 .. MaxClaims \ {n0} : desk'[n] = desk[n]
  BY <1>1 DEF CheckToken, Desks, DeskType
<1> HIDE DEF n0
<1>3. desk[n0].got = {} /\ (jobs[Agg].status = "completed" => jobs[Agg].result # n0)
  BY <1>1 DEF Desks, DeskOf
<1>4. ~Holds(jobs, r) => ~Marked(n0)
  BY <1>3 DEF Holds, Marked, n0
<1>5. Shape' /\ Rows'
  BY <1>1 DEF Shape, Rows
<1>6. Desks'
  <2>1. ASSUME NEW n \in 1 .. MaxClaims PROVE DeskOf(n)'
    <3>1. CASE n = n0
      BY <1>1, <1>2, <1>3, <1>4, <3>1 DEF Desks, DeskOf, Marked
    <3>2. CASE n # n0
      BY <1>1, <1>2, <3>2 DEF Desks, DeskOf, Marked
    <3> QED
      BY <3>1, <3>2
  <2>2. \A m \in read : \E n \in 1 .. MaxClaims : m \in desk'[n].got
    BY <1>1, <1>2 DEF Desks
  <2> QED
    BY <1>1, <1>2, <1>3, <2>1, <2>2 DEF Desks
<1>7. Mail'
  BY <1>1, <1>2 DEF Mail
<1> QED
  BY <1>5, <1>6, <1>7 DEF FanInv

LEMMA MarkReadKeeps ==
  ASSUME Fanned, NEW r \in runs, r.job = Agg, MarkRead(r)
  PROVE  FanInv'
<1> DEFINE n0 == r.claim
<1>1. /\ Shape /\ Rows /\ Desks /\ Mail
      /\ UNCHANGED <<jobs, inbox, nextId, command, children, listed>>
      /\ desk[n0].at = "marking" /\ n0 \in 1 .. MaxClaims /\ n0 <= jobs[Agg].started
      /\ jobs[Agg].started \in Nat /\ inbox[Agg] \subseteq Message
      /\ read' = read \cup inbox[Agg]
  BY ClaimOfAggregator, FannedFacts DEF Fanned, FanInv, MarkRead, vars, SoundRow, Row
<1>2. /\ desk' \in [1 .. MaxClaims -> DeskType]
      /\ desk'[n0].at = "answering"
      /\ desk'[n0].ids = desk[n0].ids /\ desk'[n0].got = inbox[Agg] \ read
      /\ \A n \in 1 .. MaxClaims \ {n0} : desk'[n] = desk[n]
  BY <1>1 DEF MarkRead, Desks, DeskType
<1> HIDE DEF n0
<1>3. desk[n0].got = {} /\ (jobs[Agg].status = "completed" => jobs[Agg].result # n0)
  BY <1>1 DEF Desks, DeskOf
<1>4. Shape' /\ Rows'
  BY <1>1 DEF Shape, Rows
<1>5. Desks'
  <2>1. ASSUME NEW n \in 1 .. MaxClaims PROVE DeskOf(n)'
    <3>1. CASE n = n0
      BY <1>1, <1>2, <1>3, <3>1 DEF Desks, DeskOf
    <3>2. CASE n # n0
      BY <1>1, <1>2, <3>2 DEF Desks, DeskOf, Marked
    <3> QED
      BY <3>1, <3>2
  <2>2. ASSUME NEW m \in read' PROVE \E n \in 1 .. MaxClaims : m \in desk'[n].got
    <3>1. CASE m \in read
      BY <1>1, <1>2, <1>3, <3>1 DEF Desks
    <3>2. CASE m \in inbox[Agg] \ read
      BY <1>1, <1>2, <3>2
    <3> QED
      BY <1>1, <2>2, <3>1, <3>2
  <2>3. read' \subseteq inbox'[Agg]
    BY <1>1 DEF Desks
  <2> QED
    BY <1>1, <1>2, <1>3, <2>1, <2>2, <2>3 DEF Desks
<1>6. Mail'
  BY <1>1, <1>2 DEF Mail
<1> QED
  BY <1>4, <1>5, <1>6 DEF FanInv

LEMMA AggregatorStepKeeps ==
  ASSUME Fanned, NEW r \in runs, r.job = Agg, AggregatorStep(r)
  PROVE  FanInv'
<1>1. FInv /\ Plain
  BY FannedFacts
<1>2. CASE Answer(r)
  <2>1. CompleteRun(r) /\ UNCHANGED fanVars /\ desk[r.claim].at = "answering"
    BY <1>2 DEF Answer
  <2>2. CASE Holds(jobs, r)
    <3>1. /\ Onward({r.job}) /\ jobs'[Agg].result = r.claim
          /\ Marked(r.claim) /\ r.claim \in 1 .. MaxClaims
      BY <1>1, <2>1, <2>2, CompleteRunOnward, ClaimOfAggregator DEF Holds, Marked
    <3> QED
      BY <2>1, <3>1, OnwardKeeps
  <2>3. CASE ~Holds(jobs, r)
    <3>1. Onward({}) /\ Agg \in Job
      BY <1>1, <2>1, <2>3, CompleteRunOnward, FannedFacts
    <3> QED
      BY <2>1, <3>1, OnwardKeeps DEF Onward, RowOnward
  <2> QED
    BY <2>2, <2>3
<1>3. CASE (FailRun(r, FALSE) \/ DropRun(r)) /\ UNCHANGED fanVars
  <2>1. Onward({}) /\ Agg \in Job
    BY <1>1, <1>3, OtherOnward, FannedFacts DEF OtherStep
  <2> QED
    BY <1>3, <2>1, OnwardKeeps DEF Onward, RowOnward
<1> QED
  BY <1>2, <1>3, CheckTokenKeeps, MarkReadKeeps DEF AggregatorStep
-----------------------------------------------------------------------------
LEMMA FanOutKeeps ==
  ASSUME Fanned, Ops \cap {"pause", "retry", "quiet", "remove"} = {}, FanOut
  PROVE  FanInv'
<1>1. FInv /\ Plain /\ Unquiet /\ Agg \in Job
  BY FannedFacts
<1>2. ASSUME Onward({}), UNCHANGED fanVars PROVE FanInv'
  BY <1>1, <1>2, OnwardKeeps DEF Onward, RowOnward
<1>3. ASSUME NEW r \in runs, r.job # Agg, WorkerStep(r), UNCHANGED fanVars PROVE FanInv'
  <2>1. Onward({}) \/ Onward({r.job})
    BY <1>1, <1>3, UnquietStep, CompleteRunOnward, OtherOnward
  <2>2. jobs'[Agg].status = "completed" => jobs[Agg].status = "completed"
    BY <1>1, <1>3, <2>1 DEF Onward, RowOnward
  <2> QED
    BY <1>3, <2>1, <2>2, OnwardKeeps
<1>4. Operate => \E j \in Job : CancelTree(j)
  BY DEF Operate
<1> QED
  BY <1>1, <1>2, <1>3, <1>4, SubmitAggregatorKeeps, SubmitChildKeeps, CommandKeeps,
     ClaimAggregatorKeeps, ClaimChildKeeps, AggregatorStepKeeps, SweepOnward, CancelOnward
     DEF FanOut

LEMMA FanStart ==
  ASSUME FanInit, command # "none"
  PROVE  FanInv
<1>1. /\ jobs[Agg] = NoRow /\ inbox[Agg] = {} /\ nextId = 1 /\ command = "start"
      /\ children = {} /\ listed = {} /\ read = {} /\ desk = [n \in 1 .. MaxClaims |-> Empty]
  BY AggIsJob DEF FanInit, Init
<1>2. MaxJobs \in Nat \ {0} /\ MaxClaims \in Nat
  BY BoundsAssumption
<1>3. Shape
  BY <1>1, <1>2 DEF Shape
<1>4. Rows
  BY <1>1, <1>2 DEF Rows, NoRow
<1>5. Desks
  BY <1>1 DEF Desks, DeskOf, DeskType, Empty, NoRow
<1>6. Mail
  BY <1>1 DEF Mail
<1> QED
  BY <1>3, <1>4, <1>5, <1>6 DEF FanInv

LEMMA FanInvUnchanged ==
  ASSUME FanInv, UNCHANGED allVars
  PROVE  FanInv'
<1>1. UNCHANGED <<jobs, inbox, nextId, command, children, listed, read, desk>>
  BY DEF allVars, vars, fanVars
<1>2. Shape' /\ Rows' /\ Mail'
  BY <1>1 DEF FanInv, Shape, Rows, Mail
<1>3. Desks'
  BY <1>1 DEF FanInv, Desks, DeskOf, Marked
<1> QED
  BY <1>2, <1>3 DEF FanInv

LEMMA FanInvTrue ==
  ASSUME Fanned, command # "none"
  PROVE  AnswerIsTrue
<1> DEFINE n == jobs[Agg].result
<1> SUFFICES ASSUME jobs[Agg].status = "completed", desk[n].ids # {},
                    \A m \in 1 .. MaxClaims : m # n => desk[m].got = {}
             PROVE  /\ Cardinality(desk[n].ids) = Entries
                    /\ \A c \in desk[n].ids : Reported(n, c) = Fate(jobs[c])
  BY DEF AnswerIsTrue
<1>1. /\ Shape /\ Desks /\ Mail /\ inbox[Agg] \subseteq Message
  BY FannedFacts DEF Fanned, FanInv
<1>2. /\ n \in 1 .. MaxClaims /\ desk[n].at = "answering" /\ Marked(n)
  BY <1>1 DEF Desks, Marked
<1>3. /\ command = "done" /\ desk[n].ids = children /\ \A c \in children : ~IsOpen(jobs[c])
      /\ inbox[Agg] \subseteq read /\ desk[n].got \subseteq read
  BY <1>1, <1>2 DEF Desks, DeskOf
<1>4. desk[n].got = inbox[Agg]
  BY <1>1, <1>3 DEF Desks
<1>5. ASSUME NEW c \in children PROVE Reported(n, c) = Fate(jobs[c])
  <2>1. CASE \E m \in desk[n].got : m.child = c
    <3> DEFINE m == CHOOSE m \in desk[n].got : m.child = c
    <3>1. m \in inbox[Agg] /\ m.child = c
      BY <1>4, <2>1
    <3>2. Reported(n, c) = m.outcome
      BY <2>1 DEF Reported
    <3> QED
      BY <1>1, <3>1, <3>2 DEF Mail
  <2>2. CASE ~\E m \in desk[n].got : m.child = c
    BY <1>1, <1>2, <1>3, <1>4, <2>2 DEF Reported, Mail
  <2> QED
    BY <2>1, <2>2
<1> QED
  BY <1>1, <1>3, <1>5 DEF Shape

(* The answer of the aggregator has all of the manifest's children, each   *)
(* with how it ended, whatever the size of the fan-out and however often   *)
(* the aggregator is claimed: the ids are listed last, a claim that gets   *)
(* them finds every child settled, and what settles a child tells it to    *)
(* the aggregator in the same transaction.  A retried child reports twice, *)
(* a removed one is not there to compare with, and a pause or quiet hours  *)
(* let the aggregator run before its children settled.                     *)
THEOREM AnswersAreTrue ==
  ASSUME Ops \cap {"pause", "retry", "quiet", "remove"} = {}
  PROVE  FanSpec => []AnswerIsTrue
<1> DEFINE I == PInv /\ (command # "none" => FanInv)
<1>1. Ops \cap {"pause", "retry", "quiet"} = {}
  OBVIOUS
<1>2. FanInit => I
  BY InitWaits, FanStart DEF FanInit
<1>3. I /\ [FanNext]_allVars => I'
  <2> SUFFICES ASSUME I, [FanNext]_allVars PROVE I'
    OBVIOUS
  <2>1. PInv'
    BY <1>1, NextWaits
  <2>2. CASE UNCHANGED allVars
    BY <2>1, <2>2, FanInvUnchanged DEF allVars, fanVars
  <2>3. CASE command = "none" /\ Elsewhere
    BY <2>1, <2>3 DEF Elsewhere, fanVars
  <2>4. CASE command # "none" /\ FanOut
    BY <2>1, <2>4, FanOutKeeps DEF Fanned
  <2> QED
    BY <2>2, <2>3, <2>4 DEF FanNext
<1>4. I => AnswerIsTrue
  BY FanInvTrue DEF Fanned, AnswerIsTrue
<1> QED
  BY <1>2, <1>3, <1>4, PTL DEF FanSpec
=============================================================================
