------------------------------ MODULE Services ------------------------------
(***************************************************************************)
(* Services that have to go on after an interruption, one beside the other:*)
(* the sync of a repository, the worker that a supervisor restarts, and    *)
(* the facts queue of a command that ends.  A behaviour is one of the      *)
(* service that is in focus; the others stay in an initial state of theirs.*)
(***************************************************************************)
EXTENDS SyncRun

CONSTANTS
  MaxCrashes, Checks, Budget, MaxWorkers, (* of ChildWorker *)
  Session, MaxJobs, Cap                   (* of FactsQueue  *)

VARIABLES
  focus,
  cwLoop, cwCount, cwChild, cwAged, cwCrashes, cwIntentional, cwWedges, cwRestarts,
  cwHealth, cwCaptured, cwStopping, cwAgainst, cwSignalled, cwDoomed, cwFailed,
  fqSent, fqPending, fqInflight, fqPumpDue, fqShutting, fqStage, fqOverran

cwVars == <<cwLoop, cwCount, cwChild, cwAged, cwCrashes, cwIntentional, cwWedges, cwRestarts,
            cwHealth, cwCaptured, cwStopping, cwAgainst, cwSignalled, cwDoomed, cwFailed>>
fqVars == <<fqSent, fqPending, fqInflight, fqPumpDue, fqShutting, fqStage, fqOverran>>

Cws == INSTANCE ChildWorker
  WITH loop <- cwLoop, count <- cwCount, child <- cwChild, aged <- cwAged,
       crashes <- cwCrashes, intentional <- cwIntentional, wedges <- cwWedges,
       restarts <- cwRestarts, health <- cwHealth, captured <- cwCaptured,
       stopping <- cwStopping, against <- cwAgainst, signalled <- cwSignalled,
       doomed <- cwDoomed, failed <- cwFailed

Fqu == INSTANCE FactsQueue
  WITH sent <- fqSent, pending <- fqPending, inflight <- fqInflight,
       pumpDue <- fqPumpDue, shutting <- fqShutting, stage <- fqStage, overran <- fqOverran

ASSUME ServicesAssumption == Cws!WorkerConstants /\ Fqu!QueueConstants
-----------------------------------------------------------------------------
(* The other services' behaviours are in one of the sync's worlds only.    *)
ServicesInit ==
  /\ focus \in {"sync", "worker", "facts"}
  /\ Init /\ Cws!Init /\ Fqu!Init
  /\ focus = "sync" \/ can = CHOOSE w \in Worlds : TRUE

ServicesNext ==
  /\ UNCHANGED focus
  /\ \/ focus = "sync" /\ Next /\ UNCHANGED <<cwVars, fqVars>>
     \/ focus = "worker" /\ Cws!Next /\ UNCHANGED <<vars, fqVars>>
     \/ focus = "facts" /\ Fqu!Next /\ UNCHANGED <<vars, cwVars>>

(* The fairness of each service, while it is in focus.                     *)
WorkerFairness ==
  /\ WF_cwVars(focus = "worker" /\ (Cws!Spawn \/ Cws!SpawnFails))
  /\ WF_cwVars(focus = "worker" /\ Cws!Wake)
  /\ WF_cwVars(focus = "worker" /\ cwChild \in cwDoomed /\ Cws!Exit("short"))
  /\ WF_cwVars(focus = "worker" /\ Cws!Ask) /\ WF_cwVars(focus = "worker" /\ Cws!Conclude)
  /\ WF_cwVars(focus = "worker" /\ Cws!Kill) /\ WF_cwVars(focus = "worker" /\ Cws!Age)
  /\ SF_cwVars(focus = "worker" /\ Cws!Forget)

FactsFairness ==
  WF_fqVars(focus = "facts" /\ Fqu!Pump) /\ WF_fqVars(focus = "facts" /\ Fqu!Drop)

ServicesSpec ==
  /\ ServicesInit /\ [][ServicesNext]_<<focus, vars, cwVars, fqVars>>
  /\ WF_vars(focus = "sync" /\ SyncStep) /\ WorkerFairness /\ FactsFairness
-----------------------------------------------------------------------------
(* See SyncRun, ChildWorker and FactsQueue.                                *)
SyncCatchesUp        == focus = "sync" => CatchesUp
KillsWhatItJudged    == Cws!KillsWhatItJudged
GivesUpOnCrashesOnly == Cws!GivesUpOnCrashesOnly
SessionsInOrder      == Fqu!SessionsInOrder
TeardownIsQuiet      == Fqu!TeardownIsQuiet

(* Neither the worker nor a session's facts are left behind: see           *)
(* WorkerReturns, WedgedIsReplaced and SessionsMoveOn.                     *)
ServicesMoveOn ==
  /\ focus = "worker" => Cws!WorkerReturns /\ Cws!WedgedIsReplaced
  /\ focus = "facts" => Fqu!SessionsMoveOn
=============================================================================
