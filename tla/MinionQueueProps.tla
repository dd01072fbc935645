-------------------------- MODULE MinionQueueProps --------------------------
(***************************************************************************)
(* What is asked of MinionQueue.  The invariants and action properties are *)
(* stated here once; the MC modules check them and the proof module proves *)
(* some of them for every value of the constants.                          *)
(***************************************************************************)
EXTENDS MinionQueue

(* Every row, message and claim keeps its shape; the status column stays   *)
(* within the values the CHECK constraint of minion_jobs allows.           *)
TypeOK ==
  /\ jobs \in [Job -> Row]
  /\ inbox \in [Job -> SUBSET Message]
  /\ nextId \in Nat
  /\ runs \subseteq Run

(* The CHECK constraint attempts_made <= attempts_started never trips: no  *)
(* mixture of failures, sweeps, retries and operators charges a row for    *)
(* more attempts than were claimed, and a row that is being worked on has  *)
(* an attempt left to charge, so every UPDATE that burns one succeeds.     *)
AttemptsOrdered ==
  \A j \in Job :
    /\ jobs[j].made <= jobs[j].started
    /\ jobs[j].status = "active" => jobs[j].made < jobs[j].started

(* Fencing: the result stored in a completed row was returned by the       *)
(* handler of the row's last claim, never by one whose claim had been      *)
(* swept, paused or cancelled away meanwhile; no other row has a result.   *)
ResultOfLastClaim ==
  \A j \in Job :
    IF jobs[j].status = "completed"
    THEN jobs[j].result = jobs[j].started
    ELSE jobs[j].result = 0

(* The worker decides whether a failure exhausts the attempts from the     *)
(* attempts_made its claim returned, long before it writes.  While its     *)
(* fence still passes, that copy is what the row says.                     *)
AttemptCountIsCurrent ==
  \A r \in runs : Holds(jobs, r) => r.made = jobs[r.job].made

(* No row that has open children is queued, delayed or being worked on:    *)
(* a parent runs again only after all its children settled.  (Operators    *)
(* who pause and resume a parent, retry a settled child, or quiet hours    *)
(* that defer a parent break this; the run has none of them.)              *)
ParentsWaitForChildren ==
  \A p \in Job :
    jobs[p].status \in {"waiting", "active", "delayed"} => OpenChildren(jobs, p) = {}
-----------------------------------------------------------------------------
(* The inductive invariant behind the row-wise invariants.  A row is sound *)
(* when its attempts are ordered, when the lock of an active row is the    *)
(* one its last claim drew, when a completed row has none (the quiet-hours *)
(* defer, fenced by the token alone, then cannot reopen it), and when only *)
(* a completed row has a result, that of its last claim.  Every statement  *)
(* keeps sound rows sound.                                                 *)
Sound(row) ==
  /\ row.made <= row.started
  /\ row.status = "active" => row.made < row.started
  /\ row.status = "active" /\ row.token # NoToken => row.token = row.started
  /\ row.status = "completed" => row.token = NoToken
  /\ IF row.status = "completed" THEN row.result = row.started ELSE row.result = 0

SoundRow == {row \in Row : Sound(row)}

IInv ==
  /\ jobs \in [Job -> SoundRow]
  /\ inbox \in [Job -> SUBSET Message]
  /\ nextId \in Nat
  /\ runs \subseteq Run
-----------------------------------------------------------------------------
(* The rows whose own write skips the bookkeeping of the parent: killed by *)
(* handleStalled, failed through fail_parent of a child, or cancelled by   *)
(* the fallback of the quiet-hours skip.                                   *)
Unreported(row) == row.error \in {"stalled", "child", "quiet"}

(* A parent that waits for its children is woken (or settled) by the very  *)
(* step that settles its last open child.  Otherwise nothing ever wakes    *)
(* it: no sweep looks at waiting-children.  The exceptions are the three   *)
(* writes of Unreported.                                                   *)
LastChildWakesParent ==
  [][\A p \in Job :
       /\ jobs[p].status = "waiting-children" /\ jobs'[p].status = "waiting-children"
       /\ OpenChildren(jobs, p) # {} /\ OpenChildren(jobs', p) = {}
       => \E c \in OpenChildren(jobs, p) : Unreported(jobs'[c])]_vars

(* A step that settles a child whose parent is open, and stays open or is  *)
(* failed by this very child, leaves a child_done of this claim of the     *)
(* child in the parent's inbox: also when the step fails the parent first  *)
(* or deletes the child in the end.                                        *)
Settles(c) == IsOpen(jobs[c]) /\ ~IsOpen(jobs'[c])

SettledChildReports ==
  [][\A c \in Job : \A p \in {jobs[c].parent} \ {NoJob} :
       /\ Settles(c) /\ IsOpen(jobs[p])
       /\ IsOpen(jobs'[p]) \/ jobs'[p].status = "failed"
       /\ ~Unreported(jobs'[c])
       => \E m \in inbox'[p] : m.child = c /\ m.claim = jobs[c].started]_vars

(* The same without the exceptions, as the aggregator's header states it:  *)
(* "every terminal child transition (complete / failed / dead / cancelled  *)
(* / timeout) emits a child_done".                                         *)
EveryTerminalChildReports ==
  [][\A c \in Job : \A p \in {jobs[c].parent} \ {NoJob} :
       /\ Settles(c) /\ IsOpen(jobs[p])
       /\ IsOpen(jobs'[p]) \/ jobs'[p].status = "failed"
       => \E m \in inbox'[p] : m.child = c /\ m.claim = jobs[c].started]_vars
-----------------------------------------------------------------------------
(* The queue implements the life of a job that JobLifecycle promises.      *)
Phase(j) ==
  CASE jobs[j].status = "absent" -> IF j < nextId THEN "gone" ELSE "unborn"
    [] jobs[j].status = "active" -> "held"
    [] jobs[j].status \in Terminal -> jobs[j].status
    [] OTHER -> "open"

Lifecycle ==
  INSTANCE JobLifecycle
    WITH life <- [j \in Job |-> [phase  |-> Phase(j),        claims |-> jobs[j].started,
                                 made   |-> jobs[j].made,    result |-> jobs[j].result]]

ImplementsLifecycle == Lifecycle!Spec
-----------------------------------------------------------------------------
(* Every worker runs the sweeps on a timer, promotes delayed rows and      *)
(* claims in its main loop.  The wall-clock sweep sees every row that      *)
(* stays active long enough, since started_at is set once.  Nothing is     *)
(* assumed about handlers: they may run for ever, and workers may die.     *)
Fairness ==
  \A j \in Job :
    /\ WF_vars(\E S \in SUBSET Job : j \in S /\ HandleWallClockTimeouts(S))
    /\ WF_vars(\E S \in SUBSET Job : j \in S /\ PromoteDelayed(S))
    /\ WF_vars(Claim(j, "running"))

FairSpec == Spec /\ Fairness

(* Every queued, delayed or claimed job comes to rest: it settles, or an   *)
(* operator pauses it, or it waits for children; no job stays active for   *)
(* ever, not even one whose lock was released without being requeued or    *)
(* whose claim never reached a worker.  (A job may also use up the claims  *)
(* the model has for it.)                                                  *)
JobsComeToRest ==
  \A j \in Job :
    jobs[j].status \in {"waiting", "active", "delayed"} ~>
      \/ jobs[j].status \notin {"waiting", "active", "delayed"}
      \/ jobs[j].status # "active" /\ jobs[j].started = MaxClaims
=============================================================================
