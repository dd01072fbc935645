---------------------------- MODULE MinionQueue ----------------------------
(***************************************************************************)
(* The minion job queue: the rows of minion_jobs and minion_inbox, the     *)
(* operations of MinionQueue (src/core/minions/queue.ts) that change them, *)
(* and the attempts in flight in the workers (src/core/minions/worker.ts). *)
(*                                                                         *)
(* Every operation is one SQL transaction and one action.  A transaction   *)
(* of several statements is written as the composition of operators that   *)
(* take the table and return it changed, in the order of the statements.   *)
(*                                                                         *)
(* Time is not counted.  A lock, a deadline or a delay may have run out or *)
(* not whenever a sweep looks at it, so a sweep takes ANY set of rows that *)
(* passes the conditions on its columns.  lock_until is set, cleared and   *)
(* renewed together with lock_token, so token # NoToken stands for both;   *)
(* a successful renewLock changes nothing else and is a stuttering step.   *)
(*                                                                         *)
(* A lock token is the number of the claim that drew it: attempts_started  *)
(* grows with every claim, so no two claims of a job share a token.        *)
(***************************************************************************)
EXTENDS Naturals, FiniteSets

CONSTANTS
  MaxJobs,        (* Rows ever inserted. Bounds the model.                  *)
  MaxClaims,      (* Claims per row. Bounds the model.                      *)
  MaxRuns,        (* Claims in memory at a time, all workers. Bounds the model. *)
  MaxAttempts,    (* Column max_attempts, the same for all rows.            *)
  MaxStalled,     (* Column max_stalled, the same for all rows.             *)
  MaxChildren,    (* Column max_children, the same for all rows.            *)
  MaxSpawnDepth,  (* Depth limit of add.                                    *)
  CancelDepth,    (* Depth limit of the cascade of cancelJob (100).         *)
  Policies,       (* The on_child_fail values the submitters use.           *)
  Removals,       (* The remove_on_* settings the submitters use.           *)
  Deadlines,      (* Whether timeout_ms is set: subset of BOOLEAN.          *)
  Ops             (* The optional operations this instance allows.          *)

OptionalOps == {"delay", "pause", "retry", "cancel", "remove", "quiet", "fallback",
                "lease", "abort", "lost"}

ASSUME BoundsAssumption ==
  /\ MaxJobs \in Nat \ {0}
  /\ MaxClaims \in Nat
  /\ MaxRuns \in Nat
  /\ MaxAttempts \in Nat \ {0}
  /\ MaxStalled \in Nat \ {0}
  /\ MaxChildren \in Nat
  /\ MaxSpawnDepth \in Nat
  /\ CancelDepth \in Nat

ASSUME ChoicesAssumption ==
  /\ Policies \subseteq {"fail_parent", "remove_dep", "ignore"}
  /\ Removals \subseteq SUBSET {"complete", "fail"}
  /\ Deadlines \subseteq BOOLEAN
  /\ Ops \subseteq OptionalOps

Job     == 1 .. MaxJobs
NoJob   == 0
NoToken == 0

VARIABLES
  jobs,     (* The rows of minion_jobs.                                     *)
  inbox,    (* The child_done messages in minion_inbox, by receiving job.   *)
  nextId,   (* The next value of the id sequence.                           *)
  runs      (* Claims a worker holds in memory, whatever the row says now.  *)

vars == <<jobs, inbox, nextId, runs>>
-----------------------------------------------------------------------------
Terminal    == {"completed", "failed", "dead", "cancelled"}
OpenStatus  == {"waiting", "active", "delayed", "waiting-children", "paused"}
Status      == Terminal \cup OpenStatus \cup {"absent"}

(* error_text, told apart as far as the properties need it.                *)
Errors == {"none", "run", "timeout", "stalled", "child", "quiet"}

Row ==
  [ status   : Status,
    parent   : Job \cup {NoJob},
    depth    : Nat,
    policy   : {"fail_parent", "remove_dep", "ignore"},
    removeOn : SUBSET {"complete", "fail"},
    deadline : BOOLEAN,
    token    : Nat,        \* lock_token, NoToken when NULL
    started  : Nat,        \* attempts_started
    made     : Nat,        \* attempts_made
    stalled  : Nat,        \* stalled_counter
    error    : Errors,
    result   : Nat ]       \* the claim whose handler returned the result, 0 when NULL

NoRow ==
  [ status |-> "absent", parent |-> NoJob, depth |-> 0, policy |-> "ignore",
    removeOn |-> {}, deadline |-> FALSE, token |-> NoToken, started |-> 0,
    made |-> 0, stalled |-> 0, error |-> "none", result |-> 0 ]

Outcomes == {"complete", "failed", "dead", "cancelled", "timeout"}

(* The claim of the child tells apart two messages about the same child,   *)
(* as the id of the inbox row does.                                        *)
Message == [child : Job, outcome : Outcomes, claim : Nat]

(* What a worker is doing with a claim: running the handler; aborted for   *)
(* an infrastructure reason; aborted by the per-job timer; evicted after   *)
(* it ignored that abort; or deferring or skipping it in quiet hours.      *)
Modes == {"running", "aborted", "timedOut", "evicted", "defer", "skip", "skipping"}

Run == [job : Job, claim : Nat \ {NoToken}, made : Nat, mode : Modes]

(* Open, that is neither settled nor deleted: the test of the EXISTS and   *)
(* NOT EXISTS guards over minion_jobs.                                     *)
IsOpen(row) == row.status \in OpenStatus
OpenChildren(tbl, p) == {c \in Job : tbl[c].parent = p /\ IsOpen(tbl[c])}
-----------------------------------------------------------------------------
(* Statements, as operators on the table.                                  *)

(* Columns every operation that takes the row off its holder writes.       *)
Unlocked(row, status) == [row EXCEPT !.status = status, !.token = NoToken]

(* error_text is written along with the status; an attempt is charged; the *)
(* handler's result is stored.                                             *)
Blamed(row, status, error) == [Unlocked(row, status) EXCEPT !.error = error]
Charged(row, burned)       == [row EXCEPT !.made = row.made + burned]
Completed(row, n)          == [Unlocked(row, "completed") EXCEPT !.result = n]
Stalled(row)               == [row EXCEPT !.stalled = row.stalled + 1]

(* Mutant: the fence forgets the token.                                    *)
HoldsAnyToken(tbl, r) == tbl[r.job].status = "active"

(* The row matches the WHERE of every token-fenced UPDATE.                 *)
Holds(tbl, r) == tbl[r.job].status = "active" /\ tbl[r.job].token = r.claim

(* Flip waiting-children parents to waiting when no child is open.         *)
Resolve(tbl, P) ==
  [q \in Job |->
    IF q \in P /\ tbl[q].status = "waiting-children" /\ OpenChildren(tbl, q) = {}
    THEN [tbl[q] EXCEPT !.status = "waiting"]
    ELSE tbl[q]]

ParentsOf(tbl, S) == {tbl[c].parent : c \in S} \ {NoJob}

(* One child_done per settled child, to a parent that is still open.       *)
Deliver(tbl, S, outcome) ==
  [p \in Job |->
    IF IsOpen(tbl[p])
    THEN inbox[p] \cup {[child |-> c, outcome |-> outcome, claim |-> tbl[c].started] :
                        c \in {d \in S : tbl[d].parent = p}}
    ELSE inbox[p]]

(* DELETE: children keep running with parent_job_id NULL (ON DELETE SET    *)
(* NULL), the inbox goes with the row (ON DELETE CASCADE).                 *)
DeleteRows(tbl, S) ==
  [k \in Job |->
    IF k \in S THEN NoRow
    ELSE IF tbl[k].parent \in S THEN [tbl[k] EXCEPT !.parent = NoJob]
    ELSE tbl[k]]

DeleteInboxes(box, S) == [k \in Job |-> IF k \in S THEN {} ELSE box[k]]

(* The rows the recursive CTE of cancelJob reaches within CancelDepth.     *)
Descendants(tbl, j) ==
  LET reach[n \in Nat] ==
        IF n = 0 THEN {j}
        ELSE LET above == reach[n - 1]
             IN above \cup {k \in Job : tbl[k].parent \in above}
  IN reach[CancelDepth]
-----------------------------------------------------------------------------
(* Submission.                                                             *)

NewRow(p, status, policy, removeOn, deadline) ==
  [NoRow EXCEPT !.status   = status,
                !.parent   = p,
                !.depth    = IF p = NoJob THEN 0 ELSE jobs[p].depth + 1,
                !.policy   = policy,
                !.removeOn = removeOn,
                !.deadline = deadline]

(* A parent must exist, be above the depth limit and have a free child     *)
(* slot; it is flipped to waiting-children, its lock left in place.        *)
MayHaveChild(p) ==
  /\ jobs[p].status # "absent"
  /\ jobs[p].depth + 1 <= MaxSpawnDepth
  /\ Cardinality(OpenChildren(jobs, p)) < MaxChildren

(* Mutant: the flip leaves a parent alone that is being worked on.         *)
AwaitChildrenUnlessActive(tbl, p) ==
  [q \in Job |->
    IF q = p /\ tbl[q].status \in {"waiting", "delayed"}
    THEN [tbl[q] EXCEPT !.status = "waiting-children"]
    ELSE tbl[q]]

AwaitChildren(tbl, p) ==
  [q \in Job |->
    IF q = p /\ tbl[q].status \in {"waiting", "active", "delayed"}
    THEN [tbl[q] EXCEPT !.status = "waiting-children"]
    ELSE tbl[q]]

Add(p, status, policy, removeOn, deadline) ==
  /\ nextId \in Job
  /\ p # NoJob => MayHaveChild(p)
  /\ jobs' = AwaitChildren(
               [jobs EXCEPT ![nextId] = NewRow(p, status, policy, removeOn, deadline)], p)
  /\ nextId' = nextId + 1
  /\ UNCHANGED <<inbox, runs>>
-----------------------------------------------------------------------------
(* Claiming.  The worker gets the row back with its attempts_made and      *)
(* starts the handler, or meets quiet hours.  "lost": the UPDATE committed *)
(* but the connection died before the row reached the worker.              *)

Claim(j, mode) ==
  /\ jobs[j].status = "waiting"
  /\ jobs[j].started < MaxClaims
  /\ Cardinality(runs) < MaxRuns
  /\ LET n == jobs[j].started + 1
     IN /\ jobs' = [jobs EXCEPT ![j].status = "active", ![j].token = n, ![j].started = n]
        /\ runs' = IF mode = "lost" THEN runs
                   ELSE runs \cup {[job |-> j, claim |-> n, made |-> jobs[j].made,
                                    mode |-> mode]}
  /\ UNCHANGED <<inbox, nextId>>

PromoteDelayed(S) ==
  /\ S # {}
  /\ \A j \in S : jobs[j].status = "delayed"
  /\ jobs' = [j \in Job |-> IF j \in S THEN Unlocked(jobs[j], "waiting") ELSE jobs[j]]
  /\ UNCHANGED <<inbox, nextId, runs>>
-----------------------------------------------------------------------------
(* What a worker does with a claim it holds.                               *)

SetMode(r, mode) == runs' = (runs \ {r}) \cup {[r EXCEPT !.mode = mode]}

(* The renewal tick found the lock lost, or could not renew it in time     *)
(* ("aborted"); the per-job timer fired ("timedOut").                      *)
AbortRun(r, mode) ==
  /\ r.mode = "running"
  /\ mode = "timedOut" => jobs[r.job].deadline
  /\ SetMode(r, mode)
  /\ UNCHANGED <<jobs, inbox, nextId>>

(* The process dies, a call to the database fails, or executeJob returns   *)
(* silently after an infrastructure abort: the claim leaves no trace.      *)
DropRun(r) ==
  /\ runs' = runs \ {r}
  /\ UNCHANGED <<jobs, inbox, nextId>>

InHandler(r) == r.mode \in {"running", "aborted", "timedOut", "evicted"}

(* completeJob.                                                            *)
CompleteJob(r) ==
  LET j       == r.job
      settled == [jobs EXCEPT ![j] = Completed(jobs[j], r.claim)]
      woken   == Resolve(settled, {jobs[j].parent})
      posted  == Deliver(settled, {j}, "complete")
      gone    == IF "complete" \in jobs[j].removeOn THEN {j} ELSE {}
  IN /\ jobs'  = DeleteRows(woken, gone)
     /\ inbox' = DeleteInboxes(posted, gone)

(* Mutant: completion checks that the job is active, not who holds it.     *)
CompleteRunUnfenced(r) ==
  /\ InHandler(r)
  /\ IF jobs[r.job].status = "active" THEN CompleteJob(r) ELSE UNCHANGED <<jobs, inbox>>
  /\ runs' = runs \ {r}
  /\ UNCHANGED nextId

CompleteRun(r) ==
  /\ InHandler(r)
  /\ IF Holds(jobs, r) THEN CompleteJob(r) ELSE UNCHANGED <<jobs, inbox>>
  /\ runs' = runs \ {r}
  /\ UNCHANGED nextId

(* failJob with status delayed.                                            *)
RetryLater(r) ==
  /\ jobs' = [jobs EXCEPT ![r.job] = Charged(Blamed(jobs[r.job], "delayed", "run"), 1)]
  /\ UNCHANGED inbox

(* Mutant: an ignored failure does not look at the parent at all.          *)
ApplyPolicyStranding(tbl, j) ==
  LET p == tbl[j].parent
  IN IF p # NoJob /\ tbl[j].policy = "fail_parent" /\ tbl[p].status = "waiting-children"
     THEN [tbl EXCEPT ![p].status = "failed", ![p].error = "child"]
     ELSE tbl

(* The on_child_fail policy of the failed child, applied to its parent.    *)
ApplyPolicy(tbl, j) ==
  LET p == tbl[j].parent
  IN CASE p = NoJob -> tbl
       [] p # NoJob /\ tbl[j].policy = "fail_parent" ->
            IF tbl[p].status = "waiting-children"
            THEN [tbl EXCEPT ![p].status = "failed", ![p].error = "child"]
            ELSE tbl
       [] p # NoJob /\ tbl[j].policy = "remove_dep" ->
            Resolve([tbl EXCEPT ![j].parent = NoJob], {p})
       [] OTHER -> Resolve(tbl, {p})

(* Mutant: the policy runs before the message is posted.                   *)
FailJobPolicyFirst(r) ==
  LET j       == r.job
      settled == ApplyPolicy([jobs EXCEPT ![j] =
                   Charged(Blamed(jobs[j], "dead", "run"), 1)], j)
      gone    == IF "fail" \in jobs[j].removeOn THEN {j} ELSE {}
  IN /\ jobs'  = DeleteRows(settled, gone)
     /\ inbox' = DeleteInboxes(Deliver(settled, {j}, "dead"), gone)

(* failJob with status dead.                                               *)
FailJob(r) ==
  LET j       == r.job
      settled == [jobs EXCEPT ![j] = Charged(Blamed(jobs[j], "dead", "run"), 1)]
      posted  == Deliver(settled, {j}, "dead")
      gone    == IF "fail" \in jobs[j].removeOn THEN {j} ELSE {}
  IN /\ jobs'  = DeleteRows(ApplyPolicy(settled, j), gone)
     /\ inbox' = DeleteInboxes(posted, gone)

(* The handler threw.  Attempts are exhausted by the number in the row the *)
(* claim returned; an UnrecoverableError exhausts them at once.            *)
FailRun(r, unrecoverable) ==
  /\ r.mode \in {"running", "timedOut", "evicted"}
  /\ CASE ~Holds(jobs, r) -> UNCHANGED <<jobs, inbox>>
       [] Holds(jobs, r) /\ (unrecoverable \/ r.made + 1 >= MaxAttempts) -> FailJob(r)
       [] OTHER -> RetryLater(r)
  /\ runs' = runs \ {r}
  /\ UNCHANGED nextId

(* releaseLeaseFullJob: the rate lease was full, no attempt is burned.     *)
ReleaseLeaseFull(r) ==
  /\ r.mode \in {"running", "timedOut", "evicted"}
  /\ jobs' = IF Holds(jobs, r)
             THEN [jobs EXCEPT ![r.job] = Blamed(jobs[r.job], "delayed", "run")]
             ELSE jobs
  /\ runs' = runs \ {r}
  /\ UNCHANGED <<inbox, nextId>>

(* The handler ignored the timeout abort for the grace period: the worker  *)
(* fails the job as dead, when the database answers, and the handler goes  *)
(* on.                                                                     *)
EvictRun(r) ==
  /\ r.mode = "timedOut"
  /\ \/ Holds(jobs, r) /\ FailJob(r)
     \/ UNCHANGED <<jobs, inbox>>
  /\ SetMode(r, "evicted")
  /\ UNCHANGED nextId
-----------------------------------------------------------------------------
(* Cancelling.                                                             *)

CancelJob(j) ==
  LET reached   == Descendants(jobs, j)
      S         == {k \in Job : k \in reached /\ IsOpen(jobs[k])}
      cancelled == [k \in Job |-> IF k \in S THEN Unlocked(jobs[k], "cancelled")
                                  ELSE jobs[k]]
  IN /\ jobs'  = Resolve(cancelled, ParentsOf(jobs, S))
     /\ inbox' = Deliver(cancelled, S, "cancelled")

CancelTree(j) ==
  /\ jobs[j].status # "absent"
  /\ CancelJob(j)
  /\ UNCHANGED <<nextId, runs>>

(* Quiet hours, verdict defer: the UPDATE is fenced by the token alone.    *)
QuietDefer(r) ==
  /\ r.mode = "defer"
  /\ jobs' = IF jobs[r.job].token = r.claim
             THEN [jobs EXCEPT ![r.job] = Unlocked(jobs[r.job], "delayed")]
             ELSE jobs
  /\ runs' = runs \ {r}
  /\ UNCHANGED <<inbox, nextId>>

(* Quiet hours, verdict skip: first release the lock, then cancel.         *)
QuietRelease(r) ==
  /\ r.mode = "skip"
  /\ jobs' = IF jobs[r.job].token = r.claim
             THEN [jobs EXCEPT ![r.job].token = NoToken]
             ELSE jobs
  /\ SetMode(r, "skipping")
  /\ UNCHANGED <<inbox, nextId>>

QuietCancel(r) ==
  /\ r.mode = "skipping"
  /\ CancelJob(r.job)
  /\ runs' = runs \ {r}
  /\ UNCHANGED nextId

(* Mutant: the fallback writes a status the table does not know.           *)
QuietFallbackSkipped(r) ==
  /\ r.mode = "skipping"
  /\ jobs' = IF jobs[r.job].status \notin {"completed", "failed", "dead", "absent"}
             THEN [jobs EXCEPT ![r.job].status = "skipped_quiet_hours"]
             ELSE jobs
  /\ runs' = runs \ {r}
  /\ UNCHANGED <<inbox, nextId>>

(* cancelJob threw: a bare UPDATE, with no cascade and no parent bookkeeping. *)
QuietFallback(r) ==
  /\ r.mode = "skipping"
  /\ jobs' = IF jobs[r.job].status \notin {"completed", "failed", "dead", "absent"}
             THEN [jobs EXCEPT ![r.job].status = "cancelled", ![r.job].error = "quiet"]
             ELSE jobs
  /\ runs' = runs \ {r}
  /\ UNCHANGED <<inbox, nextId>>
-----------------------------------------------------------------------------
(* The sweeps every worker runs on a timer.                                *)

HandleStalled(S) ==
  /\ S # {}
  /\ \A j \in S : jobs[j].status = "active" /\ jobs[j].token # NoToken
  /\ jobs' = [j \in Job |->
       CASE j \notin S -> jobs[j]
         [] j \in S /\ jobs[j].stalled + 1 < MaxStalled ->
              Stalled(Unlocked(jobs[j], "waiting"))
         [] OTHER ->
              Stalled(Charged(Blamed(jobs[j], "dead", "stalled"), 1))]
  /\ UNCHANGED <<inbox, nextId, runs>>

(* Both timeout sweeps kill rows, post child_done to and wake the parents, *)
(* with no regard to on_child_fail.                                        *)
KillForTimeout(S, burned) ==
  LET dead == [j \in Job |->
                IF j \in S
                THEN Charged(Blamed(jobs[j], "dead", "timeout"), burned)
                ELSE jobs[j]]
  IN /\ jobs'  = Resolve(dead, ParentsOf(jobs, S))
     /\ inbox' = Deliver(dead, S, "timeout")
     /\ UNCHANGED <<nextId, runs>>

HandleTimeouts(S) ==
  /\ S # {}
  /\ \A j \in S : /\ jobs[j].status = "active"
                  /\ jobs[j].deadline
                  /\ jobs[j].token # NoToken
  /\ KillForTimeout(S, 0)

(* Mutants: the wall-clock sweep skips rows without a lock, as the other   *)
(* sweeps do; or it takes every row that ever started.                     *)
HandleWallClockIfLocked(S) ==
  /\ S # {}
  /\ \A j \in S : jobs[j].status = "active" /\ jobs[j].token # NoToken
  /\ KillForTimeout(S, 1)

HandleWallClockAnyOpen(S) ==
  /\ S # {}
  /\ \A j \in S : jobs[j].started > 0 /\ IsOpen(jobs[j])
  /\ KillForTimeout(S, 1)

HandleWallClockTimeouts(S) ==
  /\ S # {}
  /\ \A j \in S : jobs[j].status = "active"
  /\ KillForTimeout(S, 1)
-----------------------------------------------------------------------------
(* Operators.                                                              *)

PauseJob(j) ==
  /\ jobs[j].status \in {"waiting", "active", "delayed"}
  /\ jobs' = [jobs EXCEPT ![j] = Unlocked(jobs[j], "paused")]
  /\ UNCHANGED <<inbox, nextId, runs>>

ResumeJob(j) ==
  /\ jobs[j].status = "paused"
  /\ jobs' = [jobs EXCEPT ![j] = Unlocked(jobs[j], "waiting")]
  /\ UNCHANGED <<inbox, nextId, runs>>

(* Mutant: retry takes any settled row.                                    *)
RetryAnySettled(j) ==
  /\ jobs[j].status \in Terminal
  /\ jobs' = [jobs EXCEPT ![j] = Blamed(jobs[j], "waiting", "none")]
  /\ UNCHANGED <<inbox, nextId, runs>>

(* retryJob leaves attempts_made, stalled_counter, started_at and the      *)
(* parent alone.                                                           *)
RetryJob(j) ==
  /\ jobs[j].status \in {"failed", "dead"}
  /\ jobs' = [jobs EXCEPT ![j] = Blamed(jobs[j], "waiting", "none")]
  /\ UNCHANGED <<inbox, nextId, runs>>

RemoveJob(j) ==
  /\ jobs[j].status \in Terminal
  /\ jobs'  = DeleteRows(jobs, {j})
  /\ inbox' = DeleteInboxes(inbox, {j})
  /\ UNCHANGED <<nextId, runs>>

Prune(S) ==
  /\ S # {}
  /\ \A j \in S : jobs[j].status \in {"completed", "dead", "cancelled"}
  /\ jobs'  = DeleteRows(jobs, S)
  /\ inbox' = DeleteInboxes(inbox, S)
  /\ UNCHANGED <<nextId, runs>>
-----------------------------------------------------------------------------
Init ==
  /\ jobs   = [j \in Job |-> NoRow]
  /\ inbox  = [j \in Job |-> {}]
  /\ nextId = 1
  /\ runs   = {}

(* on_child_fail of a row without a parent is never read: one value of it  *)
(* stands for all.                                                         *)
Submit ==
  \E p \in Job \cup {NoJob}, policy \in Policies \cup {"fail_parent"},
     removeOn \in Removals, deadline \in Deadlines :
    /\ IF p = NoJob THEN policy = "fail_parent" ELSE policy \in Policies
    /\ \/ Add(p, "waiting", policy, removeOn, deadline)
       \/ "delay" \in Ops /\ Add(p, "delayed", policy, removeOn, deadline)

ClaimSome ==
  \E j \in Job :
    \/ Claim(j, "running")
    \/ "lost" \in Ops /\ Claim(j, "lost")
    \/ "quiet" \in Ops /\ (Claim(j, "defer") \/ Claim(j, "skip"))

WorkerStep(r) ==
  \/ CompleteRun(r)
  \/ \E unrecoverable \in BOOLEAN : FailRun(r, unrecoverable)
  \/ DropRun(r)
  \/ "lease" \in Ops /\ ReleaseLeaseFull(r)
  \/ "abort" \in Ops /\ (AbortRun(r, "aborted") \/ AbortRun(r, "timedOut"))
  \/ EvictRun(r)
  \/ QuietDefer(r)
  \/ QuietRelease(r)
  \/ QuietCancel(r)
  \/ "fallback" \in Ops /\ QuietFallback(r)

Sweep ==
  \E S \in SUBSET Job :
    \/ PromoteDelayed(S)
    \/ HandleStalled(S)
    \/ HandleTimeouts(S)
    \/ HandleWallClockTimeouts(S)

Operate ==
  \/ \E j \in Job :
       \/ "pause" \in Ops /\ (PauseJob(j) \/ ResumeJob(j))
       \/ "retry" \in Ops /\ RetryJob(j)
       \/ "cancel" \in Ops /\ CancelTree(j)
       \/ "remove" \in Ops /\ RemoveJob(j)
  \/ "remove" \in Ops /\ \E S \in SUBSET Job : Prune(S)

Next ==
  \/ Submit
  \/ ClaimSome
  \/ \E r \in runs : WorkerStep(r)
  \/ Sweep
  \/ Operate

Spec == Init /\ [][Next]_vars
=============================================================================
