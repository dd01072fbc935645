------------------------------- MODULE Locks -------------------------------
(***************************************************************************)
(* The locks and leases of the system, one beside the other: the renewal   *)
(* clock of a job's lock, the lock on a PGLite data directory, that on a   *)
(* page's file, the named locks in the database, the leases of provider    *)
(* calls, and the supervisors of a queue.  They have nothing in common but *)
(* their hazards, so a behaviour is one of the component that is in focus, *)
(* and the others stay in an initial state of theirs.                      *)
(***************************************************************************)
EXTENDS LockRenewal

CONSTANTS
  PgProc, PgWorlds,                              (* of PgliteLock           *)
  PaTask, PaHome, PaWorlds,                      (* of PageLock             *)
  RaCaller, RaId, RaCap,                         (* of RateLeases           *)
  DbProc, PidOf, HostOf, DbTTL, Grace, DbWorlds, (* of DbLock               *)
  SuSup, FileOf, SuTTL, MaxFailures, MaxCrashes, Faults, (* of SupervisorLock *)
  None, Dead

VARIABLES
  focus,
  pgCan, pgDir, pgFile, pgPc, pgBeating, pgFresh, pgLapsed, pgStrangers,
  paCan, paFile, paOld, paPc, paOverdue,
  raRows, raExpired, raLock, raPc, raLease, raOverdue,
  dbCan, dbRow, dbQuiet, dbYoung, dbPc, dbSnap, dbLapsed,
  suPc, suFile, suRow, suQuiet, suDue, suFailures, suKilled

pgVars == <<pgCan, pgDir, pgFile, pgPc, pgBeating, pgFresh, pgLapsed, pgStrangers>>
paVars == <<paCan, paFile, paOld, paPc, paOverdue>>
raVars == <<raRows, raExpired, raLock, raPc, raLease, raOverdue>>
dbVars == <<dbCan, dbRow, dbQuiet, dbYoung, dbPc, dbSnap, dbLapsed>>
suVars == <<suPc, suFile, suRow, suQuiet, suDue, suFailures, suKilled>>

Pgl == INSTANCE PgliteLock
  WITH Proc <- PgProc, Worlds <- PgWorlds,
       can <- pgCan, dir <- pgDir, file <- pgFile, pc <- pgPc, beating <- pgBeating,
       fresh <- pgFresh, lapsed <- pgLapsed, strangers <- pgStrangers

Pag == INSTANCE PageLock
  WITH Task <- PaTask, HomeOf <- PaHome, Worlds <- PaWorlds,
       can <- paCan, file <- paFile, old <- paOld, pc <- paPc, overdue <- paOverdue

Rat == INSTANCE RateLeases
  WITH Caller <- RaCaller, Id <- RaId, Cap <- RaCap,
       rows <- raRows, expired <- raExpired, lock <- raLock, pc <- raPc,
       lease <- raLease, overdue <- raOverdue

Dbl == INSTANCE DbLock
  WITH Proc <- DbProc, TTL <- DbTTL, Worlds <- DbWorlds,
       can <- dbCan, row <- dbRow, quiet <- dbQuiet, young <- dbYoung, pc <- dbPc,
       snap <- dbSnap, lapsed <- dbLapsed

Spv == INSTANCE SupervisorLock
  WITH Sup <- SuSup, TTL <- SuTTL,
       pc <- suPc, file <- suFile, row <- suRow, quiet <- suQuiet, due <- suDue,
       failures <- suFailures, killed <- suKilled

ASSUME LocksAssumption ==
  /\ Pgl!PgliteConstants /\ Pag!PageConstants /\ Rat!LeaseConstants
  /\ Dbl!DbConstants /\ Spv!SupervisorConstants
-----------------------------------------------------------------------------
LocksInit ==
  /\ focus \in {"renewal", "pglite", "page", "rate", "db", "supervisor"}
  /\ Init /\ Pgl!Init /\ Pag!Init /\ Rat!Init /\ Dbl!Init /\ Spv!Init
  /\ (pgCan # {}) = (focus = "pglite")
  /\ (paCan # {}) = (focus = "page")
  /\ (dbCan # {}) = (focus = "db")

LocksNext ==
  /\ UNCHANGED focus
  /\ \/ focus = "renewal" /\ Next /\ UNCHANGED <<pgVars, paVars, raVars, dbVars, suVars>>
     \/ focus = "pglite" /\ Pgl!Next /\ UNCHANGED <<vars, paVars, raVars, dbVars, suVars>>
     \/ focus = "page" /\ Pag!Next /\ UNCHANGED <<vars, pgVars, raVars, dbVars, suVars>>
     \/ focus = "rate" /\ Rat!Next /\ UNCHANGED <<vars, pgVars, paVars, dbVars, suVars>>
     \/ focus = "db" /\ Dbl!Next /\ UNCHANGED <<vars, pgVars, paVars, raVars, suVars>>
     \/ focus = "supervisor" /\ Spv!Next /\ UNCHANGED <<vars, pgVars, paVars, raVars, dbVars>>

(* The fairness of each component, while it is in focus.                   *)
RenewalFairness ==
  /\ WF_vars(focus = "renewal" /\ Pass) /\ WF_vars(focus = "renewal" /\ Tick)
  /\ WF_vars(focus = "renewal" /\ Fail) /\ WF_vars(focus = "renewal" /\ Reconnected)
  /\ WF_vars(focus = "renewal" /\ HandleStalled)

PgliteFairness == \A p \in PgProc :
  /\ WF_pgVars(focus = "pglite" /\ Pgl!Acquiring(p))
  /\ WF_pgVars(focus = "pglite" /\ Pgl!Beating(p))
  /\ WF_pgVars(focus = "pglite" /\ Pgl!Remove(p))
  /\ WF_pgVars(focus = "pglite" /\ p \notin pgBeating /\ Pgl!Age(p))

PageFairness == \A t \in PaTask :
  WF_paVars(focus = "page" /\ (Pag!Check(t) \/ Pag!Write(t) \/ Pag!Unlink(t)))

RateFairness ==
  /\ WF_raVars(focus = "rate" /\ \E t \in RaCaller : Rat!Acquire(t))
  /\ \A id \in RaId : WF_raVars(focus = "rate" /\ Rat!Expire(id))

DbFairness ==
  /\ WF_dbVars(focus = "db" /\ Dbl!Tick)
  /\ \A p \in DbProc :
       /\ WF_dbVars(focus = "db" /\ Dbl!Refresh(p))
       /\ SF_dbVars(focus = "db" /\ Dbl!Acquire(p))
       /\ WF_dbVars(focus = "db" /\ Dbl!Ending(p))

SupervisorFairness ==
  /\ WF_suVars(focus = "supervisor" /\ Spv!Tick)
  /\ \A p \in SuSup :
       /\ WF_suVars(focus = "supervisor" /\ Spv!Start(p))
       /\ WF_suVars(focus = "supervisor" /\ Spv!Starting(p))
       /\ WF_suVars(focus = "supervisor" /\ Spv!Ending(p))

LocksSpec ==
  /\ LocksInit /\ [][LocksNext]_<<focus, vars, pgVars, paVars, raVars, dbVars, suVars>>
  /\ RenewalFairness /\ PgliteFairness /\ PageFairness /\ RateFairness /\ DbFairness
  /\ SupervisorFairness
-----------------------------------------------------------------------------
(* Who acts as the holder of each lock, and which of them lost it.  A      *)
(* supervisor ends before it loses its row.                                *)
PgIn == {p \in PgProc : Pgl!Holding(p)}
PaIn == {t \in PaTask : paPc[t] = "in"}
DbIn == {p \in DbProc : dbPc[p] = "in"}
RaIn == {c \in RaCaller : raPc[c] = "calling"}
SuIn == {s \in SuSup : suPc[s] = "up"}

PgLock == INSTANCE LeasedLock
  WITH Client <- PgProc, Cap <- 1, in <- PgIn, overdue <- PgIn \cap pgLapsed
PaLock == INSTANCE LeasedLock
  WITH Client <- PaTask, Cap <- 1, in <- PaIn, overdue <- PaIn \cap paOverdue
DbRow  == INSTANCE LeasedLock
  WITH Client <- DbProc, Cap <- 1, in <- DbIn, overdue <- DbIn \cap dbLapsed
RaCalls == INSTANCE LeasedLock
  WITH Client <- RaCaller, Cap <- RaCap, in <- RaIn, overdue <- RaIn \cap raOverdue
SuQueue == INSTANCE LeasedLock
  WITH Client <- SuSup, Cap <- 1, in <- SuIn, overdue <- {}

(* Five mechanisms, one promise: the directory, the lock file, the row,    *)
(* the leases of provider calls and the row of the supervisors each        *)
(* implement LeasedLock.  Nobody gets in beside holders that kept their    *)
(* lease, and a holder that lost it does not get it back before it left.   *)
LocksImplementLease ==
  PgLock!Spec /\ PaLock!Spec /\ DbRow!Spec /\ RaCalls!Spec /\ SuQueue!Spec

(* See the modules.                                                        *)
OneWriter              == Pgl!OneWriter
BeatingHolderKeepsLock == Pgl!BeatingHolderKeepsLock
OneEditor              == Pag!OneEditor
CapHolds               == Rat!CapHolds
DbOneHolder            == Dbl!DbOneHolder
OneSupervisor          == Spv!OneSupervisor
=============================================================================
