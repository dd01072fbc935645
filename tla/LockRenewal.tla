---------------------------- MODULE LockRenewal ----------------------------
(***************************************************************************)
(* How a worker keeps the lock of the job it runs: the renewal timer of    *)
(* launchJob (src/core/minions/worker.ts), runLockRenewalTick              *)
(* (src/core/minions/lock-renewal-tick.ts), renewLock in the database and  *)
(* the stall detector of whichever worker.                                 *)
(*                                                                         *)
(* Time is discrete.  The variables hold time differences, which stop      *)
(* where more of the same changes nothing, so behaviours are unbounded.    *)
(* The default knobs for a lock of 30 s are 15, 10 and 5 s: in units of    *)
(* 5 s, LockDuration 6, Interval 3, CallTimeout 2 and SafetyMargin 1.      *)
(***************************************************************************)
EXTENDS Integers

CONSTANTS
  LockDuration,   (* Option lockDuration.                                   *)
  Interval,       (* Between two ticks: lockDuration / 2.                   *)
  CallTimeout,    (* For renewLock and for the reconnect.                   *)
  SafetyMargin,   (* The worker gives up this long before the lock ends.    *)
  MaxLate,        (* Abandoned statements under way. Bounds the model.      *)
  MaxOverlap      (* Overlap is counted up to here. Bounds the model.       *)

ASSUME KnobsAssumption ==
  /\ {LockDuration, Interval, CallTimeout, SafetyMargin} \subseteq Nat \ {0}
  /\ SafetyMargin < LockDuration
  /\ {MaxLate, MaxOverlap} \subseteq Nat

(* True of the defaults; the environment variables are not held to it.     *)
ASSUME CallTimeoutAssumption == CallTimeout <= LockDuration

VARIABLES
  lease,      (* lock_until - now() of the row; -1 once it is past.         *)
  row,        (* "ours", or "swept" when the stall detector took it.        *)
  mode,       (* The worker is "claiming" the job, "running" its handler,   *)
              (* "aborted" it, or it "ended".                               *)
  heard,      (* A renewal was granted and its answer arrived in time.      *)
  sinceOk,    (* Date.now() - lastSuccessfulRenewalAt.                      *)
  untilTick,  (* Until the interval timer fires.                            *)
  phase,      (* The tick is "idle", "calling" or "reconnecting".           *)
  left,       (* Until the timeout of that phase.                           *)
  call,       (* The UPDATE of renewLock: "sent", "granted" or "refused".   *)
  late,       (* UPDATEs whose caller gave up waiting, still on their way.  *)
  overlap     (* How long the handler has run since the row was swept.      *)

vars ==
  <<lease, row, mode, heard, sinceOk, untilTick, phase, left, call, late, overlap>>

worker == <<mode, heard, sinceOk, untilTick, phase, left, call>>
-----------------------------------------------------------------------------
Deadline == LockDuration - SafetyMargin

AtMost(m, n)  == IF m < n THEN m ELSE n
AtLeast(m, n) == IF m > n THEN m ELSE n

(* One unit of time passes.  A timer that is due fires first.              *)
Pass ==
  /\ mode = "running" => untilTick > 0 /\ (phase # "idle" => left > 0)
  /\ lease'     = AtLeast(lease - 1, -1)
  /\ sinceOk'   = AtMost(sinceOk + 1, Deadline)
  /\ untilTick' = AtLeast(untilTick - 1, 0)
  /\ left'      = AtLeast(left - 1, 0)
  /\ overlap'   = IF row = "swept" /\ mode = "running" THEN AtMost(overlap + 1, MaxOverlap)
                  ELSE overlap
  /\ UNCHANGED <<row, mode, heard, phase, call, late>>

(* The answer of claim arrives, however late (nothing times that call out, *)
(* and the row may be swept by then); launchJob starts the worker's clock  *)
(* and its timer.                                                          *)
LaunchJob ==
  /\ mode = "claiming"
  /\ mode' = "running"
  /\ sinceOk' = 0
  /\ untilTick' = Interval
  /\ UNCHANGED <<lease, row, heard, phase, left, call, late, overlap>>

(* The interval fires; a tick still in flight is left alone.               *)
Tick ==
  /\ mode = "running" /\ untilTick = 0
  /\ untilTick' = Interval
  /\ IF phase = "idle"
     THEN phase' = "calling" /\ left' = CallTimeout /\ call' = "sent"
     ELSE UNCHANGED <<phase, left, call>>
  /\ UNCHANGED <<lease, row, mode, heard, sinceOk, late, overlap>>

Idle == phase' = "idle" /\ left' = 0 /\ call' = "sent"

(* renewLock in the database, fenced by the token.                         *)
Renewed == IF row = "ours" THEN LockDuration ELSE lease

RenewLock ==
  /\ phase = "calling" /\ call = "sent"
  /\ lease' = Renewed
  /\ call' = IF row = "ours" THEN "granted" ELSE "refused"
  /\ UNCHANGED <<row, mode, heard, sinceOk, untilTick, phase, left, late, overlap>>

(* Mutant: the answer is taken for a success whatever it says.             *)
AnswerTrusted ==
  /\ phase = "calling" /\ call # "sent"
  /\ sinceOk' = 0 /\ heard' = TRUE
  /\ Idle
  /\ UNCHANGED <<lease, row, mode, untilTick, late, overlap>>

(* The answer arrives: the deadline moves, or the lock is lost.            *)
Answer ==
  /\ phase = "calling" /\ call # "sent"
  /\ IF call = "granted" THEN sinceOk' = 0 /\ heard' = TRUE /\ UNCHANGED mode
     ELSE mode' = "aborted" /\ UNCHANGED <<heard, sinceOk>>
  /\ Idle
  /\ UNCHANGED <<lease, row, untilTick, late, overlap>>

(* The UPDATE of a call nobody waits for may still be executed.            *)
Abandoned == IF call = "sent" THEN AtMost(late + 1, MaxLate) ELSE late

(* Mutant: a failure never makes the worker give up.                       *)
FailUnnoticed ==
  /\ phase = "calling"
  /\ late' = Abandoned
  /\ Idle
  /\ UNCHANGED <<lease, row, mode, heard, sinceOk, untilTick, overlap>>

(* The call throws or times out.  Past the deadline the worker aborts the  *)
(* handler; before it, it rebuilds the pool.  An engine without a pool is  *)
(* one whose reconnect takes no time.                                      *)
Fail ==
  /\ phase = "calling"
  /\ late' = Abandoned
  /\ IF sinceOk >= Deadline
     THEN mode' = "aborted" /\ Idle
     ELSE phase' = "reconnecting" /\ left' = CallTimeout /\ UNCHANGED <<mode, call>>
  /\ UNCHANGED <<lease, row, heard, sinceOk, untilTick, overlap>>

(* The reconnect succeeds, throws or times out.                            *)
Reconnected ==
  /\ phase = "reconnecting"
  /\ Idle
  /\ UNCHANGED <<lease, row, mode, heard, sinceOk, untilTick, late, overlap>>

(* Mutant: the abandoned call is retried in the background.                *)
LateRenewLockRetried ==
  /\ late > 0
  /\ lease' \in {Renewed, lease}
  /\ UNCHANGED <<row, worker, late, overlap>>

(* An abandoned UPDATE is executed, or lost with its connection.           *)
LateRenewLock ==
  /\ late > 0
  /\ late' = late - 1
  /\ lease' \in {Renewed, lease}
  /\ UNCHANGED <<row, worker, overlap>>

(* handleStalled, of this worker or of another one.                        *)
HandleStalled ==
  /\ row = "ours" /\ lease < 0
  /\ row' = "swept"
  /\ UNCHANGED <<lease, worker, late, overlap>>

(* The handler returns or throws; executeJob clears the timers.            *)
End ==
  /\ mode = "running"
  /\ mode' = "ended"
  /\ Idle
  /\ UNCHANGED <<lease, row, heard, sinceOk, untilTick, late, overlap>>
-----------------------------------------------------------------------------
(* The database has just executed the UPDATE of claim.                     *)
Init ==
  /\ lease = LockDuration
  /\ row = "ours"
  /\ mode = "claiming"
  /\ heard = FALSE
  /\ sinceOk = 0
  /\ untilTick = Interval
  /\ phase = "idle"
  /\ left = 0
  /\ call = "sent"
  /\ late = 0
  /\ overlap = 0

Next ==
  \/ Pass \/ LaunchJob \/ Tick \/ RenewLock \/ Answer \/ Fail \/ Reconnected
  \/ LateRenewLock \/ HandleStalled \/ End

(* Time passes, timers fire, and some worker's stall detector runs.  An    *)
(* answer, of claim or of renewLock, may never come.                       *)
Fairness ==
  /\ WF_vars(Pass) /\ WF_vars(Tick)
  /\ WF_vars(Fail) /\ WF_vars(Reconnected)
  /\ WF_vars(HandleStalled)

Spec == Init /\ [][Next]_vars /\ Fairness
-----------------------------------------------------------------------------
(* The differences stay within the knobs that bound them.                  *)
TypeOK ==
  /\ lease \in -1 .. LockDuration
  /\ row \in {"ours", "swept"}
  /\ mode \in {"claiming", "running", "aborted", "ended"}
  /\ heard \in BOOLEAN
  /\ sinceOk \in 0 .. Deadline
  /\ untilTick \in 0 .. Interval
  /\ phase \in {"idle", "calling", "reconnecting"}
  /\ left \in 0 .. CallTimeout
  /\ call \in {"sent", "granted", "refused"}
  /\ late \in 0 .. MaxLate
  /\ overlap \in 0 .. MaxOverlap

(* The worker's clock starts when the answer arrives, the lease when the   *)
(* database executes the UPDATE: for a renewal up to CallTimeout earlier,  *)
(* for the claim any time earlier.  A worker that heard of a renewal, at   *)
(* most LockDuration - CallTimeout ago, has the lock.                      *)
FreshWorkerHasLock ==
  /\ mode = "running" /\ heard
  /\ sinceOk < Deadline
  /\ sinceOk <= LockDuration - CallTimeout
  => row = "ours"

(* How long before its deadline the worker may have lost the row.          *)
Unaware == IF heard THEN AtLeast(CallTimeout - SafetyMargin, 0) ELSE Deadline

(* A worker that lost its lock runs the handler alongside the next holder  *)
(* only for so long, whatever its calls do: fail, hang, or answer late.    *)
(* The handler may even start without the lock.  A call that failed before *)
(* the deadline, its reconnect, the wait for the next tick and the call of *)
(* that tick are what may follow.                                          *)
OverlapBounded == overlap <= Unaware + Interval + 2 * CallTimeout

(* The worker lets go before the stall detector takes the row, as the      *)
(* header of lock-renewal-tick.ts states it.                               *)
ReleasesBeforeReclaim == row = "swept" => mode # "running"

(* A job whose worker gave up is taken by the stall detector, although     *)
(* abandoned UPDATEs may renew the lock after that.                        *)
GivenUpIsReclaimed == mode = "aborted" ~> row = "swept"
=============================================================================
