------------------------- MODULE MinionQueueProofs -------------------------
(***************************************************************************)
(* Machine-checked proofs about MinionQueue, for every number of jobs,     *)
(* claims and children and every choice of optional operations.            *)
(*                                                                         *)
(* The invariant IInv speaks of one row at a time, so the argument is one  *)
(* lemma per statement operator (it keeps sound rows sound) and one step   *)
(* per action (which composes them).                                       *)
(***************************************************************************)
EXTENDS MinionQueueProps, TLAPS

(* A deleted or never inserted row is sound.                               *)
LEMMA NoRowSound == NoRow \in SoundRow
BY DEF NoRow, SoundRow, Row, Sound, Status, Terminal, OpenStatus, Errors, NoJob, NoToken

(* Taking a row off its holder keeps it sound, whatever status but active  *)
(* or completed it gets.                                                   *)
LEMMA UnlockedSound ==
  ASSUME NEW row \in SoundRow, NEW st \in Status,
         row.status # "completed", st # "active", st # "completed"
  PROVE  Unlocked(row, st) \in SoundRow
BY DEF Unlocked, SoundRow, Row, Sound, NoToken

(* Resolve only ever turns waiting-children into waiting.                  *)
LEMMA ResolveSound ==
  ASSUME NEW tbl \in [Job -> SoundRow], NEW P
  PROVE  Resolve(tbl, P) \in [Job -> SoundRow]
<1> SUFFICES ASSUME NEW q \in Job, tbl[q].status = "waiting-children"
             PROVE  [tbl[q] EXCEPT !.status = "waiting"] \in SoundRow
    BY DEF Resolve
<1>1. tbl[q] \in SoundRow
    OBVIOUS
<1> QED
    BY <1>1 DEF SoundRow, Row, Sound, Status, OpenStatus

(* A parent flipped to waiting-children stays sound: its lock may linger,  *)
(* but the row is no longer active.                                        *)
LEMMA AwaitChildrenSound ==
  ASSUME NEW tbl \in [Job -> SoundRow], NEW p
  PROVE  AwaitChildren(tbl, p) \in [Job -> SoundRow]
<1> SUFFICES ASSUME NEW q \in Job, tbl[q].status \in {"waiting", "active", "delayed"}
             PROVE  [tbl[q] EXCEPT !.status = "waiting-children"] \in SoundRow
    BY DEF AwaitChildren
<1>1. tbl[q] \in SoundRow
    OBVIOUS
<1> QED
    BY <1>1 DEF SoundRow, Row, Sound, Status, OpenStatus

(* Losing the parent changes nothing the invariant speaks of.              *)
LEMMA OrphanSound ==
  ASSUME NEW row \in SoundRow
  PROVE  [row EXCEPT !.parent = NoJob] \in SoundRow
BY DEF SoundRow, Row, Sound

(* Deleting rows, and orphaning their children, leaves sound rows.         *)
LEMMA DeleteRowsSound ==
  ASSUME NEW tbl \in [Job -> SoundRow], NEW S
  PROVE  DeleteRows(tbl, S) \in [Job -> SoundRow]
BY NoRowSound, OrphanSound DEF DeleteRows

(* Whatever on_child_fail says, the parent it fails or wakes was waiting   *)
(* for children, so it is not active and has no result.                    *)
LEMMA ApplyPolicySound ==
  ASSUME NEW tbl \in [Job -> SoundRow], NEW j \in Job
  PROVE  ApplyPolicy(tbl, j) \in [Job -> SoundRow]
<1> DEFINE p == tbl[j].parent
<1>1. tbl[j] \in SoundRow /\ p \in Job \cup {NoJob}
    BY DEF SoundRow, Row
<1>2. CASE p # NoJob /\ tbl[p].status = "waiting-children"
    <2>1. p \in Job /\ tbl[p] \in SoundRow
        BY <1>1, <1>2
    <2>2. [[tbl[p] EXCEPT !.status = "failed"] EXCEPT !.error = "child"] \in SoundRow
        BY <2>1, <1>2 DEF SoundRow, Row, Sound, Status, Terminal, Errors
    <2>3. [tbl EXCEPT ![p].status = "failed", ![p].error = "child"] \in [Job -> SoundRow]
        BY <2>1, <2>2
    <2>4. [tbl EXCEPT ![j].parent = NoJob] \in [Job -> SoundRow]
        BY <1>1, OrphanSound
    <2> QED
        BY <2>3, <2>4, ResolveSound DEF ApplyPolicy
<1>3. CASE ~(p # NoJob /\ tbl[p].status = "waiting-children")
    <2>1. [tbl EXCEPT ![j].parent = NoJob] \in [Job -> SoundRow]
        BY <1>1, OrphanSound
    <2> QED
        BY <1>3, <2>1, ResolveSound DEF ApplyPolicy
<1> QED
    BY <1>2, <1>3

(* What a step leaves in the inboxes are messages.                         *)
LEMMA DeliverType ==
  ASSUME NEW tbl \in [Job -> SoundRow], NEW S \in SUBSET Job, NEW outcome \in Outcomes,
         inbox \in [Job -> SUBSET Message]
  PROVE  Deliver(tbl, S, outcome) \in [Job -> SUBSET Message]
<1> SUFFICES ASSUME NEW c \in S
             PROVE  [child |-> c, outcome |-> outcome, claim |-> tbl[c].started] \in Message
    BY DEF Deliver
<1>1. tbl[c].started \in Nat
    BY DEF SoundRow, Row
<1> QED
    BY <1>1 DEF Message

(* Messages that go with a deleted row leave the other inboxes alone.      *)
LEMMA DeleteInboxesType ==
  ASSUME NEW box \in [Job -> SUBSET Message], NEW S
  PROVE  DeleteInboxes(box, S) \in [Job -> SUBSET Message]
BY DEF DeleteInboxes
-----------------------------------------------------------------------------
(* The transactions.                                                       *)

(* The row of an active job, settled with the result of its last claim.    *)
LEMMA CompletedSound ==
  ASSUME NEW row \in SoundRow, NEW n \in Nat, n = row.started
  PROVE  Completed(row, n) \in SoundRow
BY DEF Completed, Unlocked, SoundRow, Row, Sound, Status, Terminal, NoToken

(* A row taken off its holder with an error is sound.                      *)
LEMMA BlamedSound ==
  ASSUME NEW row \in SoundRow, row.status # "completed",
         NEW st \in Status, st # "active", st # "completed", NEW err \in Errors
  PROVE  Blamed(row, st, err) \in SoundRow
BY DEF Blamed, Unlocked, SoundRow, Row, Sound, NoToken

(* An active row has an attempt left to charge, once.                      *)
LEMMA ChargedSound ==
  ASSUME NEW row \in SoundRow, row.made < row.started, row.status # "active",
         NEW burned \in {0, 1}
  PROVE  Charged(row, burned) \in SoundRow
<1>1. row.made \in Nat /\ row.started \in Nat
    BY DEF SoundRow, Row
<1>2. row.made + burned \in Nat /\ row.made + burned <= row.started
    BY <1>1
<1> QED
    BY <1>2 DEF Charged, SoundRow, Row, Sound

(* An active row that is failed, killed by a timeout or delayed for a      *)
(* retry is sound, whether or not the attempt is charged.                  *)
LEMMA KilledSound ==
  ASSUME NEW row \in SoundRow, row.status = "active", NEW st \in {"delayed", "dead"},
         NEW err \in Errors, NEW burned \in {0, 1}
  PROVE  /\ Charged(Blamed(row, st, err), burned) \in SoundRow
         /\ Charged(Blamed(row, st, err), burned).status = st
<1> DEFINE b == Blamed(row, st, err)
<1>1. b \in SoundRow
    BY BlamedSound DEF Status, Terminal, OpenStatus
<1>2. b.made = row.made /\ b.started = row.started /\ b.status = st
    BY DEF Blamed, Unlocked, SoundRow, Row
<1>3. row.made < row.started
    BY DEF SoundRow, Sound
<1>4. Charged(b, burned).status = b.status
    BY <1>1 DEF Charged, SoundRow, Row
<1> QED
    BY <1>1, <1>2, <1>3, <1>4, ChargedSound

(* The stall counter is no concern of the invariant.                       *)
LEMMA StalledSound ==
  ASSUME NEW row \in SoundRow
  PROVE  Stalled(row) \in SoundRow
BY DEF Stalled, SoundRow, Row, Sound

(* Whoever passes the fence holds the row's last claim.                    *)
LEMMA HolderHasLastClaim ==
  ASSUME IInv, NEW r \in runs, Holds(jobs, r)
  PROVE  r.claim = jobs[r.job].started
BY DEF IInv, Holds, Run, SoundRow, Sound

(* completeJob by the holder of the lock keeps every row sound.            *)
LEMMA CompleteJobSound ==
  ASSUME IInv, NEW r \in runs, Holds(jobs, r), CompleteJob(r)
  PROVE  jobs' \in [Job -> SoundRow] /\ inbox' \in [Job -> SUBSET Message]
<1> DEFINE settled == [jobs EXCEPT ![r.job] = Completed(jobs[r.job], r.claim)]
<1>1. r.job \in Job /\ r.claim \in Nat /\ jobs \in [Job -> SoundRow]
    BY DEF IInv, Run
<1>2. settled \in [Job -> SoundRow]
    <2>1. r.claim = jobs[r.job].started
        BY HolderHasLastClaim
    <2>2. Completed(jobs[r.job], r.claim) \in SoundRow
        BY <1>1, <2>1, CompletedSound
    <2> QED
        BY <1>1, <2>2
<1>3. "complete" \in Outcomes /\ {r.job} \in SUBSET Job
    BY <1>1 DEF Outcomes
<1>4. Deliver(settled, {r.job}, "complete") \in [Job -> SUBSET Message]
    BY <1>2, <1>3, DeliverType DEF IInv
<1>5. Resolve(settled, {jobs[r.job].parent}) \in [Job -> SoundRow]
    BY <1>2, ResolveSound
<1> QED
    BY <1>4, <1>5, DeleteRowsSound, DeleteInboxesType DEF CompleteJob

(* failJob by the holder of the lock keeps every row sound.                *)
LEMMA FailJobSound ==
  ASSUME IInv, NEW r \in runs, Holds(jobs, r), FailJob(r)
  PROVE  jobs' \in [Job -> SoundRow] /\ inbox' \in [Job -> SUBSET Message]
<1> DEFINE settled == [jobs EXCEPT ![r.job] = Charged(Blamed(jobs[r.job], "dead", "run"), 1)]
<1>1. r.job \in Job /\ jobs \in [Job -> SoundRow] /\ jobs[r.job].status = "active"
    BY DEF IInv, Run, Holds
<1>2. settled \in [Job -> SoundRow]
    BY <1>1, KilledSound DEF Errors
<1>3. "dead" \in Outcomes /\ {r.job} \in SUBSET Job
    BY <1>1 DEF Outcomes
<1>4. Deliver(settled, {r.job}, "dead") \in [Job -> SUBSET Message]
    BY <1>2, <1>3, DeliverType DEF IInv
<1>5. ApplyPolicy(settled, r.job) \in [Job -> SoundRow]
    BY <1>1, <1>2, ApplyPolicySound
<1> QED
    BY <1>4, <1>5, DeleteRowsSound, DeleteInboxesType DEF FailJob

(* cancelJob keeps every row sound: it takes open rows only.               *)
LEMMA CancelJobSound ==
  ASSUME IInv, NEW j \in Job, CancelJob(j)
  PROVE  jobs' \in [Job -> SoundRow] /\ inbox' \in [Job -> SUBSET Message]
<1> DEFINE S == {k \in Job : k \in Descendants(jobs, j) /\ IsOpen(jobs[k])}
           cancelled == [k \in Job |-> IF k \in S THEN Unlocked(jobs[k], "cancelled")
                                       ELSE jobs[k]]
<1>1. ASSUME NEW k \in Job, k \in S PROVE Unlocked(jobs[k], "cancelled") \in SoundRow
    <2>1. jobs[k] \in SoundRow /\ jobs[k].status # "completed"
        BY <1>1 DEF IInv, IsOpen, OpenStatus
    <2> QED
        BY <2>1, UnlockedSound DEF Status, Terminal
<1>2. cancelled \in [Job -> SoundRow]
    BY <1>1 DEF IInv
<1>3. Resolve(cancelled, ParentsOf(jobs, S)) \in [Job -> SoundRow]
    BY <1>2, ResolveSound
<1>4. Deliver(cancelled, S, "cancelled") \in [Job -> SUBSET Message]
    BY <1>2, DeliverType DEF Outcomes, IInv
<1> QED
    BY <1>3, <1>4 DEF CancelJob
-----------------------------------------------------------------------------
(* The actions.                                                            *)

(* A claim keeps its shape when what the worker does with it changes.      *)
LEMMA SetModeType ==
  ASSUME NEW r \in runs, runs \subseteq Run, NEW mode \in Modes, SetMode(r, mode)
  PROVE  runs' \subseteq Run
BY DEF SetMode, Run

(* add: the new row has no attempts and no result.                         *)
LEMMA AddSound ==
  ASSUME IInv, NEW p \in Job \cup {NoJob}, NEW st \in {"waiting", "delayed"},
         NEW policy \in {"fail_parent", "remove_dep", "ignore"},
         NEW removeOn \in SUBSET {"complete", "fail"}, NEW deadline \in BOOLEAN,
         Add(p, st, policy, removeOn, deadline)
  PROVE  IInv'
<1> DEFINE row == NewRow(p, st, policy, removeOn, deadline)
<1>1. p # NoJob => jobs[p].depth + 1 \in Nat
    BY DEF IInv, SoundRow, Row, NoJob
<1>2. row \in SoundRow
    <2> DEFINE d == IF p = NoJob THEN 0 ELSE jobs[p].depth + 1
    <2>1. d \in Nat
        BY <1>1
    <2>2. row = [NoRow EXCEPT !.status = st, !.parent = p, !.depth = d,
                              !.policy = policy, !.removeOn = removeOn,
                              !.deadline = deadline]
        BY DEF NewRow
    <2> HIDE DEF row, d
    <2>3. row = [status |-> st, parent |-> p, depth |-> d, policy |-> policy,
                 removeOn |-> removeOn, deadline |-> deadline, token |-> NoToken,
                 started |-> 0, made |-> 0, stalled |-> 0, error |-> "none", result |-> 0]
        BY <2>2 DEF NoRow
    <2>4. st \in Status /\ st # "active" /\ st # "completed" /\ "none" \in Errors
        BY DEF Status, OpenStatus, Errors
    <2>5. row \in Row
        BY <2>1, <2>3, <2>4 DEF Row, NoToken
    <2> QED
        BY <2>3, <2>4, <2>5 DEF SoundRow, Sound, NoToken
<1>3. [jobs EXCEPT ![nextId] = row] \in [Job -> SoundRow]
    BY <1>2 DEF IInv
<1>4. jobs' \in [Job -> SoundRow]
    <2> HIDE DEF row
    <2>1. AwaitChildren([jobs EXCEPT ![nextId] = row], p) \in [Job -> SoundRow]
        BY <1>3, AwaitChildrenSound
    <2> QED
        BY <2>1 DEF Add, row
<1>5. nextId' \in Nat /\ inbox' = inbox /\ runs' = runs
    BY DEF Add, IInv
<1> QED
    BY <1>4, <1>5 DEF IInv

(* claim: the new token is the new number of attempts started, and there   *)
(* is now an attempt to charge.                                            *)
LEMMA ClaimSound ==
  ASSUME IInv, NEW j \in Job, NEW mode \in {"running", "lost", "defer", "skip"},
         Claim(j, mode)
  PROVE  IInv'
<1> DEFINE n   == jobs[j].started + 1
           row == [jobs[j] EXCEPT !.status = "active", !.token = n, !.started = n]
<1>1. /\ jobs[j] \in SoundRow
      /\ jobs[j].status = "waiting"
      /\ jobs[j].started \in Nat
      /\ jobs[j].made \in Nat
      /\ n \in Nat \ {NoToken}
    BY DEF IInv, Claim, SoundRow, Row, NoToken
<1>2. jobs[j].made < n /\ jobs[j].made <= n
    BY <1>1 DEF SoundRow, Sound
<1>3. row \in SoundRow
    BY <1>1, <1>2 DEF SoundRow, Row, Sound, Status, OpenStatus, NoToken
<1>4. jobs' = [jobs EXCEPT ![j] = row]
    BY DEF Claim, IInv
<1>5. mode # "lost" => [job |-> j, claim |-> n, made |-> jobs[j].made, mode |-> mode] \in Run
    BY <1>1 DEF Run, Modes
<1>6. runs' \subseteq Run
    BY <1>5 DEF Claim, IInv
<1> QED
    BY <1>3, <1>4, <1>6 DEF Claim, IInv

(* promoteDelayed: the rows it takes are delayed.                          *)
LEMMA PromoteDelayedSound ==
  ASSUME IInv, NEW S \in SUBSET Job, PromoteDelayed(S)
  PROVE  IInv'
<1>1. ASSUME NEW j \in S PROVE Unlocked(jobs[j], "waiting") \in SoundRow
    BY UnlockedSound DEF IInv, PromoteDelayed, Status, OpenStatus
<1> QED
    BY <1>1 DEF PromoteDelayed, IInv

(* What a worker does with a claim, one step per way it may end.           *)
LEMMA WorkerStepSound ==
  ASSUME IInv, NEW r \in runs, WorkerStep(r)
  PROVE  IInv'
<1>1. /\ r \in Run
      /\ r.job \in Job
      /\ r.claim \in Nat \ {NoToken}
      /\ jobs \in [Job -> SoundRow]
      /\ jobs[r.job] \in SoundRow
      /\ runs \ {r} \subseteq Run
    BY DEF IInv, Run
<1>2. CASE CompleteRun(r)
    BY <1>1, <1>2, CompleteJobSound DEF CompleteRun, IInv
<1>3. CASE \E unrecoverable \in BOOLEAN : FailRun(r, unrecoverable)
    <2>1. CASE Holds(jobs, r) /\ FailJob(r)
        BY <1>1, <1>3, <2>1, FailJobSound DEF FailRun, IInv
    <2>2. CASE Holds(jobs, r) /\ RetryLater(r)
        <3>1. Charged(Blamed(jobs[r.job], "delayed", "run"), 1) \in SoundRow
            BY <1>1, <2>2, KilledSound DEF Holds, Errors
        <3> QED
            BY <1>1, <1>3, <2>2, <3>1 DEF RetryLater, FailRun, IInv
    <2>3. CASE UNCHANGED <<jobs, inbox>>
        BY <1>1, <1>3, <2>3 DEF FailRun, IInv
    <2> QED
        BY <1>3, <2>1, <2>2, <2>3 DEF FailRun
<1>4. CASE DropRun(r)
    BY <1>1, <1>4 DEF DropRun, IInv
<1>5. CASE ReleaseLeaseFull(r)
    <2>1. Holds(jobs, r) => Blamed(jobs[r.job], "delayed", "run") \in SoundRow
        BY <1>1, BlamedSound DEF Holds, Status, OpenStatus, Errors
    <2> QED
        BY <1>1, <1>5, <2>1 DEF ReleaseLeaseFull, IInv
<1>6. CASE AbortRun(r, "aborted") \/ AbortRun(r, "timedOut")
    BY <1>6, SetModeType DEF AbortRun, IInv, Modes
<1>7. CASE EvictRun(r)
    <2>1. jobs' \in [Job -> SoundRow] /\ inbox' \in [Job -> SUBSET Message]
        BY <1>7, FailJobSound DEF EvictRun, IInv
    <2> QED
        BY <1>7, <2>1, SetModeType DEF EvictRun, IInv, Modes
<1>8. CASE QuietDefer(r)
    <2>1. jobs[r.job].token = r.claim => Unlocked(jobs[r.job], "delayed") \in SoundRow
        <3>1. jobs[r.job].token = r.claim => jobs[r.job].status # "completed"
            BY <1>1 DEF SoundRow, Sound
        <3> QED
            BY <1>1, <3>1, UnlockedSound DEF Status, OpenStatus
    <2> QED
        BY <1>1, <1>8, <2>1 DEF QuietDefer, IInv
<1>9. CASE QuietRelease(r)
    <2>1. [jobs[r.job] EXCEPT !.token = NoToken] \in SoundRow
        BY <1>1 DEF SoundRow, Row, Sound, NoToken
    <2>2. jobs' \in [Job -> SoundRow]
        BY <1>1, <1>9, <2>1 DEF QuietRelease
    <2> QED
        BY <1>9, <2>2, SetModeType DEF QuietRelease, IInv, Modes
<1>10. CASE QuietCancel(r)
    BY <1>1, <1>10, CancelJobSound DEF QuietCancel, IInv
<1>11. CASE QuietFallback(r)
    <2> DEFINE row == [jobs[r.job] EXCEPT !.status = "cancelled", !.error = "quiet"]
    <2>1. jobs[r.job].status # "completed" => row \in SoundRow
        BY <1>1 DEF SoundRow, Row, Sound, Status, Terminal, Errors
    <2>2. jobs' \in [Job -> SoundRow]
        BY <1>1, <1>11, <2>1 DEF QuietFallback
    <2> QED
        BY <1>1, <1>11, <2>2 DEF QuietFallback, IInv
<1> QED
    BY <1>2, <1>3, <1>4, <1>5, <1>6, <1>7, <1>8, <1>9, <1>10, <1>11 DEF WorkerStep
-----------------------------------------------------------------------------
(* The sweeps and the operators.                                           *)

(* handleStalled requeues or dead-letters active rows.                     *)
LEMMA HandleStalledSound ==
  ASSUME IInv, NEW S \in SUBSET Job, HandleStalled(S)
  PROVE  IInv'
<1>1. ASSUME NEW j \in S
      PROVE  /\ Stalled(Unlocked(jobs[j], "waiting")) \in SoundRow
             /\ Stalled(Charged(Blamed(jobs[j], "dead", "stalled"), 1)) \in SoundRow
    <2>1. jobs[j] \in SoundRow /\ jobs[j].status = "active"
        BY DEF IInv, HandleStalled
    <2>2. Unlocked(jobs[j], "waiting") \in SoundRow
        BY <2>1, UnlockedSound DEF Status, OpenStatus
    <2>3. Charged(Blamed(jobs[j], "dead", "stalled"), 1) \in SoundRow
        BY <2>1, KilledSound DEF Errors
    <2> QED
        BY <2>2, <2>3, StalledSound
<1>2. jobs' \in [Job -> SoundRow]
    BY <1>1 DEF HandleStalled, IInv
<1> QED
    BY <1>2 DEF HandleStalled, IInv

(* Both timeout sweeps kill active rows.                                   *)
LEMMA KillForTimeoutSound ==
  ASSUME IInv, NEW S \in SUBSET Job, NEW burned \in {0, 1},
         \A j \in S : jobs[j].status = "active",
         KillForTimeout(S, burned)
  PROVE  IInv'
<1> DEFINE dead == [j \in Job |->
                     IF j \in S THEN Charged(Blamed(jobs[j], "dead", "timeout"), burned)
                     ELSE jobs[j]]
<1>1. ASSUME NEW j \in S
      PROVE  Charged(Blamed(jobs[j], "dead", "timeout"), burned) \in SoundRow
    BY KilledSound DEF IInv, Errors
<1>2. dead \in [Job -> SoundRow]
    BY <1>1 DEF IInv
<1>3. Resolve(dead, ParentsOf(jobs, S)) \in [Job -> SoundRow]
    BY <1>2, ResolveSound
<1>4. Deliver(dead, S, "timeout") \in [Job -> SUBSET Message]
    BY <1>2, DeliverType DEF Outcomes, IInv
<1> QED
    BY <1>3, <1>4 DEF KillForTimeout, IInv

(* The operations of an operator on one row, and prune.                    *)
LEMMA OperateSound ==
  ASSUME IInv, Operate
  PROVE  IInv'
<1>1. ASSUME NEW j \in Job, PauseJob(j) \/ ResumeJob(j)
      PROVE  IInv'
    <2>1. /\ PauseJob(j) => Unlocked(jobs[j], "paused") \in SoundRow
          /\ ResumeJob(j) => Unlocked(jobs[j], "waiting") \in SoundRow
        BY UnlockedSound DEF PauseJob, ResumeJob, IInv, Status, OpenStatus
    <2> QED
        BY <1>1, <2>1 DEF PauseJob, ResumeJob, IInv
<1>2. ASSUME NEW j \in Job, RetryJob(j)
      PROVE  IInv'
    <2>1. Blamed(jobs[j], "waiting", "none") \in SoundRow
        BY <1>2, BlamedSound DEF RetryJob, IInv, Status, OpenStatus, Errors
    <2> QED
        BY <1>2, <2>1 DEF RetryJob, IInv
<1>3. ASSUME NEW j \in Job, CancelTree(j)
      PROVE  IInv'
    BY <1>3, CancelJobSound DEF CancelTree, IInv
<1>4. ASSUME NEW j \in Job, RemoveJob(j)
      PROVE  IInv'
    BY <1>4, DeleteRowsSound, DeleteInboxesType DEF RemoveJob, IInv
<1>5. ASSUME NEW S \in SUBSET Job, Prune(S)
      PROVE  IInv'
    BY <1>5, DeleteRowsSound, DeleteInboxesType DEF Prune, IInv
<1> QED
    BY <1>1, <1>2, <1>3, <1>4, <1>5 DEF Operate
-----------------------------------------------------------------------------
(* The invariant.                                                          *)

(* The empty table is sound.                                               *)
LEMMA InitSound == Init => IInv
BY NoRowSound DEF Init, IInv

(* Every step of the queue, whoever takes it, keeps all rows sound.        *)
LEMMA NextSound == IInv /\ [Next]_vars => IInv'
<1> SUFFICES ASSUME IInv, [Next]_vars
             PROVE  IInv'
    OBVIOUS
<1>1. CASE Submit
    <2>1. PICK p \in Job \cup {NoJob}, policy \in Policies \cup {"fail_parent"},
               removeOn \in Removals, deadline \in Deadlines :
            \/ Add(p, "waiting", policy, removeOn, deadline)
            \/ Add(p, "delayed", policy, removeOn, deadline)
        BY <1>1 DEF Submit
    <2>2. /\ policy \in {"fail_parent", "remove_dep", "ignore"}
          /\ removeOn \in SUBSET {"complete", "fail"}
          /\ deadline \in BOOLEAN
        BY ChoicesAssumption
    <2> QED
        BY <2>1, <2>2, AddSound
<1>2. CASE ClaimSome
    BY <1>2, ClaimSound DEF ClaimSome
<1>3. CASE \E r \in runs : WorkerStep(r)
    BY <1>3, WorkerStepSound
<1>4. CASE Sweep
    <2>1. PICK S \in SUBSET Job :
            \/ PromoteDelayed(S)
            \/ HandleStalled(S)
            \/ HandleTimeouts(S)
            \/ HandleWallClockTimeouts(S)
        BY <1>4 DEF Sweep
    <2>2. CASE HandleTimeouts(S)
        BY <2>2, KillForTimeoutSound DEF HandleTimeouts
    <2>3. CASE HandleWallClockTimeouts(S)
        BY <2>3, KillForTimeoutSound DEF HandleWallClockTimeouts
    <2> QED
        BY <2>1, <2>2, <2>3, PromoteDelayedSound, HandleStalledSound
<1>5. CASE Operate
    BY <1>5, OperateSound
<1>6. CASE UNCHANGED vars
    BY <1>6 DEF vars, IInv
<1> QED
    BY <1>1, <1>2, <1>3, <1>4, <1>5, <1>6 DEF Next

(* Every reachable table of the queue is sound.                            *)
THEOREM SoundInvariant == Spec => []IInv
BY InitSound, NextSound, PTL DEF Spec

(* Type correctness: statuses stay within the CHECK constraint of          *)
(* minion_jobs, counters stay natural numbers.                             *)
THEOREM TypeCorrect == Spec => []TypeOK
<1>1. IInv => TypeOK
    BY DEF IInv, TypeOK, SoundRow
<1> QED
    BY <1>1, SoundInvariant, PTL

(* No history charges a row for more attempts than were claimed, so the    *)
(* CHECK constraint attempts_made <= attempts_started never trips.         *)
THEOREM AttemptsOrderedInvariant == Spec => []AttemptsOrdered
<1>1. IInv => AttemptsOrdered
    BY DEF IInv, AttemptsOrdered, SoundRow, Sound
<1> QED
    BY <1>1, SoundInvariant, PTL

(* Fencing: a completed row has the result of its last claim, whatever     *)
(* stale claims did in the meantime.                                       *)
THEOREM ResultFenced == Spec => []ResultOfLastClaim
<1>1. IInv => ResultOfLastClaim
    BY DEF IInv, ResultOfLastClaim, SoundRow, Sound
<1> QED
    BY <1>1, SoundInvariant, PTL
=============================================================================
