---------------------------- MODULE ChildWorker ----------------------------
(***************************************************************************)
(* The supervisor's worker process: the loop that spawns it, waits for its *)
(* exit, counts crashes and backs off (minions/child-worker-supervisor.ts),*)
(* and the health check that restarts a worker which lives and does nothing*)
(* (minions/supervisor.ts).  The loop, the check and the restart await side*)
(* by side: the worker that a check is about, or that was asked to stop,   *)
(* may have been replaced when the await returns.                          *)
(*                                                                         *)
(* Workers are numbered.  The sliding windows forget at any time; clean and*)
(* RSS exits differ from each other in the length of the backoff only.     *)
(***************************************************************************)
EXTENDS Naturals, FiniteSets

CONSTANTS
  MaxCrashes, \* maxCrashes
  Checks,     \* wedgeRestartChecks
  Budget,     \* wedgeRestartLoopBudget
  MaxWorkers  \* workers spawned. Bounds the model.

WorkerConstants == {MaxCrashes, Checks, Budget, MaxWorkers} \subseteq Nat

VARIABLES
  loop,        \* where run() is
  count,       \* workers spawned so far: the last one's number
  child,       \* the worker that runs, or 0
  aged,        \* it is past the startup grace
  crashes,     \* crashCount
  intentional, \* intentionalRestart
  wedges,      \* consecutiveWedgedChecks
  restarts,    \* wedge restarts within their window
  health,      \* where healthCheck is
  captured,    \* the worker restartCurrentChild is about
  stopping,
  against,     \* checks in a row that found the worker wedged, to Checks
  signalled,   \* running workers the health check sent a signal
  doomed,      \* running workers that got a SIGKILL
  failed       \* workers that crashed, since the last one that ran for long

vars == <<loop, count, child, aged, crashes, intentional, wedges, restarts, health,
          captured, stopping, against, signalled, doomed, failed>>
watch == <<wedges, restarts, health, captured, signalled, doomed>>

Init ==
  /\ loop = "spawn" /\ count = 0 /\ child = 0 /\ aged = FALSE
  /\ crashes = 0 /\ intentional = FALSE
  /\ wedges = 0 /\ restarts = 0 /\ health = "idle" /\ captured = 0
  /\ stopping = FALSE
  /\ against = 0 /\ signalled = {} /\ doomed = {} /\ failed = {}
-----------------------------------------------------------------------------
(* spawnOnce, and the supervisor's answer to worker_spawned.               *)
Spawn ==
  /\ loop = "spawn" /\ ~stopping /\ count < MaxWorkers
  /\ count' = count + 1 /\ child' = count + 1
  /\ aged' = FALSE /\ wedges' = 0 /\ against' = 0
  /\ loop' = "up"
  /\ UNCHANGED <<crashes, intentional, restarts, health, captured, stopping, signalled,
                 doomed, failed>>

(* run() after spawnOnce: back off, or give up, which shuts down.          *)
Continue ==
  /\ loop' = IF stopping THEN "ended" ELSE IF crashes' >= MaxCrashes THEN "gaveUp" ELSE "backoff"
  /\ stopping' = (stopping \/ crashes' >= MaxCrashes)

(* spawn() throws.                                                         *)
SpawnFails ==
  /\ loop = "spawn" /\ ~stopping /\ count < MaxWorkers
  /\ count' = count + 1
  /\ crashes' = crashes + 1
  /\ failed' = failed \cup {count + 1}
  /\ Continue
  /\ UNCHANGED <<child, aged, intentional, watch, against>>

(* Mutant: a restart of the health check is a crash like any other.        *)
TallyAll(kind) ==
  /\ intentional' = FALSE
  /\ crashes' = CASE kind = "short" -> crashes + 1
                  [] kind = "long"  -> 1
                  [] OTHER          -> crashes

(* What an exit does to crashCount.                                        *)
Tally(kind) ==
  /\ intentional' = FALSE
  /\ crashes' = CASE kind = "short" /\ ~intentional -> crashes + 1
                  [] kind = "long" /\ ~intentional  -> 1
                  [] OTHER                          -> crashes

(* The exit handler: a clean or RSS exit, a crash after a short or a long  *)
(* run; a signal is a crash.                                               *)
Exit(kind) ==
  /\ child # 0
  /\ kind = "clean" => child \notin doomed
  /\ child' = 0
  /\ IF stopping THEN UNCHANGED <<crashes, intentional>> ELSE Tally(kind)
  /\ failed' = IF child \in signalled \/ kind = "clean" THEN failed
               ELSE IF kind = "long" THEN {child} ELSE failed \cup {child}
  /\ signalled' = signalled \ {child} /\ doomed' = doomed \ {child}
  /\ Continue
  /\ UNCHANGED <<count, aged, wedges, restarts, health, captured, against>>

(* applyBackoff is over.                                                   *)
Wake ==
  /\ loop = "backoff"
  /\ loop' = IF stopping THEN "ended" ELSE "spawn"
  /\ UNCHANGED <<count, child, aged, crashes, intentional, watch, stopping, against, failed>>

(* A signal to the supervisor: shutdown.                                   *)
Stop ==
  /\ ~stopping
  /\ stopping' = TRUE
  /\ loop' = IF loop = "spawn" THEN "ended" ELSE loop
  /\ UNCHANGED <<count, child, aged, crashes, intentional, watch, against, failed>>
-----------------------------------------------------------------------------
(* healthCheck sends its query, whose answer says that there is work and   *)
(* nobody does it, or not; or the query fails.                             *)
Ask ==
  /\ health = "idle" /\ ~stopping
  /\ health' \in {"wedged", "fine", "error"}
  /\ UNCHANGED <<loop, count, child, aged, crashes, intentional, wedges, restarts, captured,
                 stopping, against, signalled, doomed, failed>>

Wedged == health = "wedged" /\ child # 0 /\ ~stopping /\ aged

(* escalateWedgedWorker, up to the SIGTERM of restartCurrentChild.         *)
Escalate ==
  IF restarts < Budget
  THEN /\ restarts' = restarts + 1
       /\ captured' = child /\ intentional' = TRUE
       /\ signalled' = signalled \cup {child}
       /\ health' = "restarting"
  ELSE /\ health' = "idle"
       /\ UNCHANGED <<restarts, captured, intentional, signalled>>

(* The answer comes.                                                       *)
Conclude ==
  /\ health \in {"wedged", "fine", "error"}
  /\ against' = CASE Wedged -> IF against = Checks THEN Checks ELSE against + 1
                  [] health = "error" -> against
                  [] OTHER -> 0
  /\ IF Wedged /\ wedges + 1 >= Checks
     THEN Escalate /\ wedges' = 0
     ELSE /\ wedges' = IF Wedged THEN wedges + 1 ELSE IF health = "error" THEN wedges ELSE 0
          /\ health' = "idle"
          /\ UNCHANGED <<restarts, captured, intentional, signalled>>
  /\ UNCHANGED <<loop, count, child, aged, crashes, stopping, doomed, failed>>

(* Mutant: the SIGKILL goes to the worker there is.                        *)
KillCurrent ==
  /\ health = "restarting"
  /\ doomed' = doomed \cup ({child} \ {0})
  /\ signalled' = signalled \cup ({child} \ {0})
  /\ health' = "idle" /\ captured' = 0
  /\ UNCHANGED <<loop, count, child, aged, crashes, intentional, wedges, restarts, stopping,
                 against, failed>>

(* restartCurrentChild after the exit of the worker, or after the grace:   *)
(* SIGKILL, if it still runs.                                              *)
Kill ==
  /\ health = "restarting"
  /\ doomed' = doomed \cup ({captured} \cap {child})
  /\ health' = "idle" /\ captured' = 0
  /\ UNCHANGED <<loop, count, child, aged, crashes, intentional, wedges, restarts, stopping,
                 against, signalled, failed>>

(* Time passes: the startup grace, the window of wedge restarts.           *)
Age ==
  /\ child # 0 /\ ~aged
  /\ aged' = TRUE
  /\ UNCHANGED <<loop, count, child, crashes, intentional, watch, stopping, against, failed>>

Forget ==
  /\ restarts > 0
  /\ restarts' = restarts - 1
  /\ UNCHANGED <<loop, count, child, aged, crashes, intentional, wedges, health, captured,
                 stopping, against, signalled, doomed, failed>>

Next ==
  \/ Spawn \/ SpawnFails \/ Wake \/ Stop
  \/ \E kind \in {"clean", "short", "long"} : Exit(kind)
  \/ Ask \/ Conclude \/ Kill \/ Age \/ Forget
Spec == Init /\ [][Next]_vars
-----------------------------------------------------------------------------
(* The health check sends a signal only to a worker of which it found, in  *)
(* as many checks as it takes, that it did nothing, whatever was spawned   *)
(* while it waited for an answer or for the end of the grace.              *)
KillsWhatItJudged ==
  [][\A w \in (signalled' \cup doomed') \ (signalled \cup doomed) :
       w = child /\ against' >= Checks]_vars

(* The supervisor gives up, and all processing of jobs stops, only after   *)
(* MaxCrashes crashes with no long run since the first of them; a restart  *)
(* by the health check, and an exit for memory, do not count.              *)
GivesUpOnCrashesOnly == loop = "gaveUp" => Cardinality(failed) >= MaxCrashes

(* A worker that ended is followed by another one.                         *)
WorkerReturns == loop \in {"spawn", "backoff"} ~> child # 0 \/ stopping \/ count = MaxWorkers

(* A worker is not left wedged for good, though it ignores SIGTERM.        *)
WedgedIsReplaced ==
  \A w \in 1 .. MaxWorkers :
    <>[](child = w /\ ~stopping) => []<>(health \in {"fine", "error"})
-----------------------------------------------------------------------------
(* The loop and the checks go on, time passes, and a SIGKILL works.        *)
Fairness ==
  /\ WF_vars(Spawn \/ SpawnFails) /\ WF_vars(Wake)
  /\ WF_vars(child \in doomed /\ Exit("short"))
  /\ WF_vars(Ask) /\ WF_vars(Conclude) /\ WF_vars(Kill) /\ WF_vars(Age) /\ SF_vars(Forget)
FairSpec == Spec /\ Fairness
=============================================================================
