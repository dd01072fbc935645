---------------------------- MODULE LocksProofs ----------------------------
(***************************************************************************)
(* Machine-checked proofs about Locks, for every set of processes and      *)
(* tasks, every cap and every choice of worlds that LocksAssumption allows.*)
(*                                                                         *)
(* Each component has its inductive invariant.  A step of Locks is a step  *)
(* of the component in focus and leaves the others alone, so what holds of *)
(* a component's specification holds of the composition.                   *)
(***************************************************************************)
EXTENDS Locks, FiniteSets, Functions, FiniteSetTheorems, TLAPS

(* The components' specifications are implied by that of the composition.  *)
LEMMA Projection ==
  LocksSpec => Pgl!Spec /\ Pag!Spec /\ Rat!Spec /\ Dbl!Spec /\ Spv!Spec
<1>1. LocksInit => Pgl!Init /\ Pag!Init /\ Rat!Init /\ Dbl!Init /\ Spv!Init
    BY DEF LocksInit
<1>2. ASSUME [LocksNext]_<<focus, vars, pgVars, paVars, raVars, dbVars, suVars>>
      PROVE  /\ [Pgl!Next]_Pgl!vars /\ [Pag!Next]_Pag!vars /\ [Rat!Next]_Rat!vars
             /\ [Dbl!Next]_Dbl!vars /\ [Spv!Next]_Spv!vars
    BY <1>2 DEF LocksNext, pgVars, paVars, raVars, dbVars, suVars,
                Pgl!vars, Pag!vars, Rat!vars, Dbl!vars, Spv!vars
<1> QED
    BY <1>1, <1>2, PTL DEF LocksSpec, Pgl!Spec, Pag!Spec, Rat!Spec, Dbl!Spec, Spv!Spec
-----------------------------------------------------------------------------
(* The PGLite directory.  Without a race one process at a time is between  *)
(* two steps of its own.  A holder that was not reaped for its age has the *)
(* directory and its name is in the file, or it is writing it.             *)
PgPlaces == {"out", "reap", "mkdir", "write", "held", "truncate", "fill", "remove", "dead"}
PgBusy   == {"reap", "mkdir", "write", "truncate", "fill", "remove"}

PgInv ==
  /\ "race" \notin pgCan
  /\ pgPc \in [PgProc -> PgPlaces] /\ pgFile \in PgProc \cup {"empty", None}
  /\ \A p, q \in PgProc : pgPc[p] \in PgBusy /\ pgPc[q] \in PgBusy => p = q
  /\ pgFile # None => pgDir
  /\ \A p \in PgProc : Pgl!Holding(p) /\ p \notin pgLapsed =>
       /\ pgPc[p] = "fill" => pgFile = "empty" /\ pgDir
       /\ pgPc[p] # "fill" => pgFile = p
  /\ \A p \in PgProc :
       /\ pgPc[p] = "truncate" => pgFile = p
       /\ pgPc[p] = "fill" => pgFile = "empty"
       /\ pgPc[p] = "remove" => pgFile \notin PgProc \ {p}
       /\ pgPc[p] = "reap" /\ pgFile \in PgProc =>
            pgPc[pgFile] = "dead" \/ pgFile \notin pgFresh
       /\ pgPc[p] \in {"mkdir", "write"} =>
            \A q \in PgProc : Pgl!Holding(q) => q \in pgLapsed

LEMMA PgInit == Pgl!Init => PgInv
BY LocksAssumption
   DEF Pgl!Init, PgInv, PgPlaces, PgBusy, Pgl!Holding, Pgl!PgliteConstants

LEMMA PgNext == PgInv /\ [Pgl!Next]_Pgl!vars => PgInv'
<1> SUFFICES ASSUME PgInv, [Pgl!Next]_Pgl!vars PROVE PgInv'
    OBVIOUS
<1> USE LocksAssumption DEF Pgl!PgliteConstants, PgInv, PgPlaces, PgBusy, Pgl!Holding, Pgl!Goto
<1>1. CASE UNCHANGED Pgl!vars
    BY <1>1 DEF Pgl!vars
<1>2. ASSUME NEW p \in PgProc, Pgl!Look(p) PROVE PgInv'
    BY <1>2 DEF Pgl!Look, Pgl!Turn, Pgl!Reapable, Pgl!Alive
<1>3. ASSUME NEW p \in PgProc, Pgl!Reap(p) PROVE PgInv'
    BY <1>3 DEF Pgl!Reap, Pgl!Turn
<1>4. ASSUME NEW p \in PgProc, Pgl!Mkdir(p) PROVE PgInv'
    BY <1>4 DEF Pgl!Mkdir, Pgl!Turn
<1>5. ASSUME NEW p \in PgProc, Pgl!Write(p) PROVE PgInv'
    BY <1>5 DEF Pgl!Write, Pgl!Turn
<1>6. ASSUME NEW p \in PgProc, Pgl!Beat(p) PROVE PgInv'
    BY <1>6 DEF Pgl!Beat, Pgl!Turn
<1>7. ASSUME NEW p \in PgProc, Pgl!Truncate(p) PROVE PgInv'
    BY <1>7 DEF Pgl!Truncate, Pgl!Turn
<1>8. ASSUME NEW p \in PgProc, Pgl!Fill(p) PROVE PgInv'
    BY <1>8 DEF Pgl!Fill, Pgl!Turn
<1>9. ASSUME NEW p \in PgProc, Pgl!Release(p) PROVE PgInv'
    BY <1>9 DEF Pgl!Release, Pgl!Turn
<1>10. ASSUME NEW p \in PgProc, Pgl!Remove(p) PROVE PgInv'
    BY <1>10 DEF Pgl!Remove, Pgl!Turn
<1>11. ASSUME NEW p \in PgProc, Pgl!Crash(p) PROVE PgInv'
    BY <1>11 DEF Pgl!Crash
<1>12. ASSUME NEW p \in PgProc, Pgl!Reuse(p) PROVE PgInv'
    BY <1>12 DEF Pgl!Reuse
<1>13. ASSUME NEW p \in PgProc, Pgl!Age(p) PROVE PgInv'
    BY <1>13 DEF Pgl!Age
<1> QED
    BY <1>1, <1>2, <1>3, <1>4, <1>5, <1>6, <1>7, <1>8, <1>9, <1>10, <1>11, <1>12, <1>13
       DEF Pgl!Next, Pgl!Acquiring, Pgl!Beating, Pgl!Leaving

(* Two processes have the data directory open only if one of them stalled  *)
(* past the steal grace and was reaped: for every number of processes that *)
(* crash, stall and come back with one another's PIDs.                     *)
THEOREM OneWriterHolds == LocksSpec => []OneWriter
<1>1. PgInv => OneWriter
    BY LocksAssumption
       DEF PgInv, PgBusy, OneWriter, Pgl!OneWriter, Pgl!Holding, Pgl!PgliteConstants
<1> QED
    BY <1>1, PgInit, PgNext, Projection, PTL DEF Pgl!Spec

(* The lock directory of a holder whose heartbeat is fresh goes only when  *)
(* the holder lets go (pglite-lock.ts:27).                                 *)
THEOREM BeatingHolderKeepsLockHolds == LocksSpec => BeatingHolderKeepsLock
<1> DEFINE Keeps == \A p \in PgProc : Pgl!Holding(p) /\ p \in pgFresh \ pgLapsed /\ pgDir
                                      /\ pgPc'[p] = pgPc[p] => pgDir'
<1>1. ASSUME PgInv, [Pgl!Next]_Pgl!vars
      PROVE  [Keeps]_Pgl!vars
    <2>1. CASE UNCHANGED Pgl!vars
        BY <2>1
    <2>2. SUFFICES ASSUME Pgl!Next, NEW p \in PgProc, Pgl!Holding(p), p \in pgFresh \ pgLapsed,
                          pgDir, pgPc'[p] = pgPc[p]
                   PROVE  pgDir'
        BY <1>1, <2>1
    <2>3. PICK q \in PgProc :
            \/ Pgl!Reap(q) \/ Pgl!Remove(q) \/ pgDir' = pgDir \/ pgDir' = TRUE
        BY <2>2 DEF Pgl!Next, Pgl!Acquiring, Pgl!Beating, Pgl!Leaving, Pgl!Look, Pgl!Mkdir,
                    Pgl!Write, Pgl!Beat, Pgl!Truncate, Pgl!Fill, Pgl!Release, Pgl!Crash,
                    Pgl!Reuse, Pgl!Age
    <2>4. ~Pgl!Reap(q)
        BY <1>1, <2>2 DEF Pgl!Reap, Pgl!Holding, PgInv, PgBusy
    <2>5. ~Pgl!Remove(q)
        BY <1>1, <2>2 DEF Pgl!Remove, Pgl!Holding, Pgl!Goto, PgInv, PgBusy
    <2> QED
        BY <2>2, <2>3, <2>4, <2>5
<1> QED
    BY <1>1, PgInit, PgNext, Projection, PTL
       DEF Pgl!Spec, BeatingHolderKeepsLock, Pgl!BeatingHolderKeepsLock
-----------------------------------------------------------------------------
(* The page's file.  A holder within the TTL has its PID in a file that is *)
(* not old; who is about to write or unlink knows of no such holder.       *)
PaPlaces == {"out", "write", "in", "unlink", "dead"}
PaBusy   == {"write", "unlink"}

PaInv ==
  /\ "race" \notin paCan /\ ~({"shared", "slow"} \subseteq paCan)
  /\ paPc \in [PaTask -> PaPlaces]
  /\ \A t, u \in PaTask : paPc[t] \in PaBusy /\ paPc[u] \in PaBusy => t = u
  /\ "slow" \notin paCan => paOverdue = {}
  /\ \A t \in PaTask : paPc[t] = "in" /\ t \notin paOverdue =>
       paFile = Pag!Pid(t) /\ ~paOld
  /\ \A t, u \in PaTask : t # u /\ paPc[t] \in {"write", "in", "unlink"} /\ paPc[u] = "in" =>
       u \in paOverdue \/ (paPc[t] = "in" /\ t \in paOverdue)

LEMMA PaInit == Pag!Init => PaInv
BY LocksAssumption DEF Pag!Init, PaInv, PaPlaces, PaBusy, Pag!PageConstants

LEMMA PaNext == PaInv /\ [Pag!Next]_Pag!vars => PaInv'
<1> SUFFICES ASSUME PaInv, [Pag!Next]_Pag!vars PROVE PaInv'
    OBVIOUS
<1> USE LocksAssumption DEF Pag!PageConstants, PaInv, PaPlaces, PaBusy, Pag!Goto, Pag!Pid
<1>1. CASE UNCHANGED Pag!vars
    BY <1>1 DEF Pag!vars
<1>2. ASSUME NEW t \in PaTask, Pag!Check(t) PROVE PaInv'
    BY <1>2 DEF Pag!Check, Pag!Turn, Pag!Free, Pag!Home
<1>3. ASSUME NEW t \in PaTask, Pag!Write(t) PROVE PaInv'
    BY <1>3 DEF Pag!Write, Pag!Turn
<1>4. ASSUME NEW t \in PaTask, Pag!Release(t) PROVE PaInv'
    BY <1>4 DEF Pag!Release, Pag!Turn
<1>5. ASSUME NEW t \in PaTask, Pag!Unlink(t) PROVE PaInv'
    BY <1>5 DEF Pag!Unlink, Pag!Turn
<1>6. ASSUME NEW t \in PaTask, Pag!Crash(Pag!Pid(t)) PROVE PaInv'
    BY <1>6 DEF Pag!Crash, Pag!Home
<1>7. CASE Pag!Age
    BY <1>7 DEF Pag!Age, Pag!Home
<1> QED
    BY <1>1, <1>2, <1>3, <1>4, <1>5, <1>6, <1>7 DEF Pag!Next, Pag!Step

(* Two tasks edit a page at once only if one of them took longer than the  *)
(* TTL: for every number of tasks and processes, whatever crashes.         *)
THEOREM OneEditorHolds == LocksSpec => []OneEditor
<1>1. PaInv => OneEditor
    BY DEF PaInv, OneEditor, Pag!OneEditor
<1> QED
    BY <1>1, PaInit, PaNext, Projection, PTL DEF Pag!Spec
-----------------------------------------------------------------------------
(* The row.  A holder whose row did not expire in its hands has it; who is *)
(* about to delete a row by PID knows of no such holder with that PID, and *)
(* who deletes the very row it read knows its holder to be dead.           *)
DbPlaces == {"unborn", "out", "inspect", "takeover", "retry", "in", "reap", "break", "dead"}

DbInv ==
  /\ "race" \in dbCan => "reuse" \notin dbCan /\ "break" \notin dbCan
  /\ "race" \in dbCan \/ "starve" \in dbCan =>
       \A p, q \in DbProc : PidOf[p] = PidOf[q] => HostOf[p] = HostOf[q]
  /\ dbPc \in [DbProc -> DbPlaces]
  /\ dbRow \in DbProc \cup {None} /\ dbSnap \in [DbProc -> DbProc \cup {None}]
  /\ dbQuiet \in Nat /\ dbLapsed \subseteq DbProc
  /\ dbRow # None => dbPc[dbRow] # "unborn"
  /\ "starve" \notin dbCan => dbLapsed = {}
  /\ \A p, q \in DbProc : p # q /\ q \in Dbl!Twins(p) => ~(Dbl!Alive(p) /\ Dbl!Alive(q))
  /\ \A p \in DbProc : dbPc[p] = "in" /\ p \notin dbLapsed => dbRow = p /\ dbQuiet <= DbTTL
  /\ \A p \in DbProc :
       /\ dbPc[p] \in {"takeover", "break"} =>
            /\ "race" \notin dbCan => \A q \in DbProc : dbPc[q] = "in" => q \in dbLapsed
            /\ dbSnap[p] \in DbProc
       /\ dbPc[p] = "break" => "break" \in dbCan
       /\ dbPc[p] = "takeover" /\ "race" \in dbCan =>
            /\ dbPc[dbSnap[p]] = "dead"
            /\ \A q \in DbProc : PidOf[q] = PidOf[dbSnap[p]] => ~Dbl!Alive(q)
       /\ dbPc[p] = "reap" => dbSnap[p] \in DbProc /\ dbPc[dbSnap[p]] = "dead"

LEMMA DbInit == Dbl!Init => DbInv
BY LocksAssumption DEF Dbl!Init, DbInv, DbPlaces, Dbl!DbConstants, Dbl!Alive, Dbl!SamePid

LEMMA DbNext == DbInv /\ [Dbl!Next]_Dbl!vars => DbInv'
<1> SUFFICES ASSUME DbInv, [Dbl!Next]_Dbl!vars PROVE DbInv'
    OBVIOUS
<1> USE LocksAssumption DEF Dbl!DbConstants, DbInv, DbPlaces, Dbl!Goto, Dbl!Alive, Dbl!SamePid,
                            Dbl!Twins
<1>1. CASE UNCHANGED Dbl!vars
    BY <1>1 DEF Dbl!vars
<1>2. CASE Dbl!Tick
    <2> USE <1>2 DEF Dbl!Tick, Dbl!Expired
    <2>1. dbQuiet' \in Nat /\ (dbQuiet <= DbTTL => dbQuiet' = dbQuiet + 1)
        OBVIOUS
    <2>2. \A p \in DbProc : dbPc[p] = "in" /\ p \notin dbLapsed' => dbRow = p /\ dbQuiet' <= DbTTL
        BY <2>1
    <2>3. dbLapsed \subseteq dbLapsed' /\ dbLapsed' \subseteq DbProc
        OBVIOUS
    <2>4. "starve" \notin dbCan => dbLapsed' = {}
        OBVIOUS
    <2> QED
        BY <2>1, <2>2, <2>3, <2>4
<1>3. ASSUME NEW p \in DbProc, Dbl!Spawn(p) PROVE DbInv'
    BY <1>3 DEF Dbl!Spawn, Dbl!Turn
<1>4. ASSUME NEW p \in DbProc, Dbl!Acquire(p) PROVE DbInv'
    BY <1>4 DEF Dbl!Acquire, Dbl!Take, Dbl!Free, Dbl!Expired, Dbl!Turn
<1>5. ASSUME NEW p \in DbProc, Dbl!Inspect(p) PROVE DbInv'
    BY <1>5 DEF Dbl!Inspect, Dbl!DeadLocally, Dbl!Turn
<1>6. ASSUME NEW p \in DbProc, Dbl!TakeOver(p) PROVE DbInv'
    BY <1>6 DEF Dbl!TakeOver, Dbl!DeleteByPid
<1>7. ASSUME NEW p \in DbProc, Dbl!Refresh(p) PROVE DbInv'
    BY <1>7 DEF Dbl!Refresh
<1>8. ASSUME NEW p \in DbProc, Dbl!Finish(p) PROVE DbInv'
    BY <1>8 DEF Dbl!Finish, Dbl!DeleteByPid
<1>9. ASSUME NEW p \in DbProc, Dbl!Die(p) PROVE DbInv'
    BY <1>9 DEF Dbl!Die, Dbl!DeleteByPid
<1>10. ASSUME NEW p \in DbProc, Dbl!ReapLook(p) PROVE DbInv'
    BY <1>10 DEF Dbl!ReapLook, Dbl!DeadLocally
<1>11. ASSUME NEW p \in DbProc, Dbl!ReapDelete(p) PROVE DbInv'
    BY <1>11 DEF Dbl!ReapDelete
<1>12. ASSUME NEW p \in DbProc, Dbl!BreakLook(p) PROVE DbInv'
    BY <1>12 DEF Dbl!BreakLook, Dbl!DeadLocally, Dbl!Expired, Dbl!Turn
<1>13. ASSUME NEW p \in DbProc, Dbl!BreakDelete(p) PROVE DbInv'
    BY <1>13 DEF Dbl!BreakDelete, Dbl!DeleteByPid
<1> QED
    BY <1>1, <1>2, <1>3, <1>4, <1>5, <1>6, <1>7, <1>8, <1>9, <1>10, <1>11, <1>12, <1>13
       DEF Dbl!Next, Dbl!Acquiring, Dbl!Clearing

(* Two processes hold a named lock at once only if one of them let its row *)
(* expire, for every number of processes and hosts.                        *)
THEOREM DbOneHolderHolds == LocksSpec => []DbOneHolder
<1>1. DbInv => DbOneHolder
    BY DEF DbInv, DbOneHolder, Dbl!DbOneHolder
<1> QED
    BY <1>1, DbInit, DbNext, Projection, PTL DEF Dbl!Spec
-----------------------------------------------------------------------------
(* That each of them is a LeasedLock.  A step lets one in when nobody who  *)
(* counts is in, or makes holders overdue, or lets some go.                *)
LEMMA NobodyCounts == Cardinality({}) < 1
BY FS_EmptySet

LEMMA PgEnters ==
  ASSUME NEW p \in PgProc, p \notin PgIn, PgIn' = PgIn \cup {p}, PgIn \subseteq pgLapsed,
         pgLapsed' = pgLapsed \ {p}
  PROVE  PgLock!Next
<1>1. PgIn \ (PgIn \cap pgLapsed) = {} /\ PgLock!Cardinality({}) < 1
    BY NobodyCounts DEF PgLock!Cardinality, Cardinality
<1>2. (PgIn \cap pgLapsed)' = PgIn \cap pgLapsed
    OBVIOUS
<1> QED
    BY <1>1, <1>2 DEF PgLock!Next, PgLock!Enter

LEMMA PgStays ==
  ASSUME PgIn' = PgIn, pgLapsed \subseteq pgLapsed'
  PROVE  PgLock!Next
BY DEF PgLock!Next, PgLock!Overstay

LEMMA PgLeaves ==
  ASSUME PgIn' \subseteq PgIn, pgLapsed' = pgLapsed
  PROVE  PgLock!Next
BY DEF PgLock!Next, PgLock!Leave

LEMMA PgImplements == PgInv /\ [Pgl!Next]_Pgl!vars => [PgLock!Next]_PgLock!vars
<1> SUFFICES ASSUME PgInv, [Pgl!Next]_Pgl!vars PROVE [PgLock!Next]_PgLock!vars
    OBVIOUS
<1>1. CASE UNCHANGED Pgl!vars
    BY <1>1, PgStays DEF Pgl!vars, PgIn, Pgl!Holding
<1>2. ASSUME NEW p \in PgProc, Pgl!Write(p) PROVE PgLock!Next
    <2> USE <1>2 DEF Pgl!Write, PgInv, PgPlaces, Pgl!Goto
    <2>1. CASE pgDir
        <3>1. p \notin PgIn /\ PgIn' = PgIn \cup {p} /\ PgIn \subseteq pgLapsed
            BY <2>1 DEF PgIn, Pgl!Holding
        <3> QED
            BY <2>1, <3>1, PgEnters
    <2>2. CASE ~pgDir
        BY <2>2, PgStays DEF PgIn, Pgl!Holding
    <2> QED
        BY <2>1, <2>2
<1>3. ASSUME NEW p \in PgProc,
             \/ Pgl!Look(p) \/ Pgl!Reap(p) \/ Pgl!Mkdir(p)
             \/ Pgl!Beat(p) \/ Pgl!Truncate(p) \/ Pgl!Fill(p)
             \/ Pgl!Remove(p) \/ Pgl!Reuse(p) \/ Pgl!Age(p)
      PROVE  PgLock!Next
    <2>1. pgLapsed \subseteq pgLapsed'
        BY <1>3 DEF Pgl!Look, Pgl!Reap, Pgl!Mkdir, Pgl!Beat, Pgl!Truncate, Pgl!Fill, Pgl!Remove,
                    Pgl!Reuse, Pgl!Age
    <2>2. \A q \in PgProc : pgPc'[q] = pgPc[q] \/ (q = p /\ (Pgl!Holding(q)' <=> Pgl!Holding(q)))
        BY <1>3 DEF Pgl!Look, Pgl!Reap, Pgl!Mkdir, Pgl!Beat, Pgl!Truncate, Pgl!Fill, Pgl!Remove,
                    Pgl!Reuse, Pgl!Age, PgInv, Pgl!Goto, Pgl!Holding
    <2> QED
        BY <2>1, <2>2, PgStays DEF PgIn, Pgl!Holding
<1>4. ASSUME NEW p \in PgProc, Pgl!Release(p) \/ Pgl!Crash(p) PROVE PgLock!Next
    <2>1. pgLapsed' = pgLapsed /\ \A q \in PgProc : pgPc'[q] = pgPc[q] \/ ~Pgl!Holding(q)'
        BY <1>4 DEF Pgl!Release, Pgl!Crash, PgInv, Pgl!Goto, Pgl!Holding
    <2> QED
        BY <2>1, PgLeaves DEF PgIn, Pgl!Holding
<1> QED
    BY <1>1, <1>2, <1>3, <1>4 DEF Pgl!Next, Pgl!Acquiring, Pgl!Beating, Pgl!Leaving

LEMMA PaEnters ==
  ASSUME NEW t \in PaTask, t \notin PaIn, PaIn' = PaIn \cup {t}, PaIn \subseteq paOverdue,
         paOverdue' = paOverdue \ {t}
  PROVE  PaLock!Next
<1>1. PaIn \ (PaIn \cap paOverdue) = {} /\ PaLock!Cardinality({}) < 1
    BY NobodyCounts DEF PaLock!Cardinality, Cardinality
<1>2. (PaIn \cap paOverdue)' = PaIn \cap paOverdue
    OBVIOUS
<1> QED
    BY <1>1, <1>2 DEF PaLock!Next, PaLock!Enter

LEMMA PaStays ==
  ASSUME PaIn' = PaIn, paOverdue \subseteq paOverdue'
  PROVE  PaLock!Next
BY DEF PaLock!Next, PaLock!Overstay

LEMMA PaLeaves ==
  ASSUME PaIn' \subseteq PaIn, paOverdue' = paOverdue
  PROVE  PaLock!Next
BY DEF PaLock!Next, PaLock!Leave

LEMMA PaImplements == PaInv /\ [Pag!Next]_Pag!vars => [PaLock!Next]_PaLock!vars
<1> SUFFICES ASSUME PaInv, [Pag!Next]_Pag!vars PROVE [PaLock!Next]_PaLock!vars
    OBVIOUS
<1> USE DEF PaInv, PaPlaces, Pag!Goto
<1>1. CASE UNCHANGED Pag!vars
    BY <1>1, PaStays DEF Pag!vars, PaIn
<1>2. ASSUME NEW t \in PaTask, Pag!Write(t) PROVE PaLock!Next
    <2>1. t \notin PaIn /\ PaIn' = PaIn \cup {t} /\ PaIn \subseteq paOverdue
        BY <1>2 DEF Pag!Write, PaIn
    <2> QED
        BY <1>2, <2>1, PaEnters DEF Pag!Write
<1>3. ASSUME NEW t \in PaTask, Pag!Check(t) \/ Pag!Release(t) \/ Pag!Unlink(t) PROVE PaLock!Next
    BY <1>3, PaLeaves DEF Pag!Check, Pag!Release, Pag!Unlink, PaIn
<1>4. ASSUME NEW t \in PaTask, Pag!Crash(Pag!Pid(t)) PROVE PaLock!Next
    BY <1>4, PaLeaves DEF Pag!Crash, PaIn
<1>5. CASE Pag!Age
    BY <1>5, PaStays DEF Pag!Age, PaIn
<1> QED
    BY <1>1, <1>2, <1>3, <1>4, <1>5 DEF Pag!Next, Pag!Step

LEMMA DbEnters ==
  ASSUME NEW p \in DbProc, p \notin DbIn, DbIn' = DbIn \cup {p}, DbIn \subseteq dbLapsed,
         dbLapsed' = dbLapsed \ {p}
  PROVE  DbRow!Next
<1>1. DbIn \ (DbIn \cap dbLapsed) = {} /\ DbRow!Cardinality({}) < 1
    BY NobodyCounts DEF DbRow!Cardinality, Cardinality
<1>2. (DbIn \cap dbLapsed)' = DbIn \cap dbLapsed
    OBVIOUS
<1> QED
    BY <1>1, <1>2 DEF DbRow!Next, DbRow!Enter

LEMMA DbStays ==
  ASSUME DbIn' = DbIn, dbLapsed \subseteq dbLapsed'
  PROVE  DbRow!Next
BY DEF DbRow!Next, DbRow!Overstay

LEMMA DbLeaves ==
  ASSUME DbIn' \subseteq DbIn, dbLapsed' = dbLapsed
  PROVE  DbRow!Next
BY DEF DbRow!Next, DbRow!Leave

LEMMA DbImplements == DbInv /\ [Dbl!Next]_Dbl!vars => [DbRow!Next]_DbRow!vars
<1> SUFFICES ASSUME DbInv, [Dbl!Next]_Dbl!vars PROVE [DbRow!Next]_DbRow!vars
    OBVIOUS
<1>1. dbPc \in [DbProc -> DbPlaces] /\ dbQuiet \in Nat /\ DbTTL \in Nat
    BY LocksAssumption DEF DbInv, Dbl!DbConstants
<1>2. CASE UNCHANGED Dbl!vars
    BY <1>2, DbStays DEF Dbl!vars, DbIn
<1>3. CASE Dbl!Tick
    BY <1>3, DbStays DEF Dbl!Tick, DbIn
<1>4. ASSUME NEW p \in DbProc, Dbl!Acquire(p) PROVE DbRow!Next
    <2>1. CASE Dbl!Free
        <3>1. dbLapsed' = dbLapsed \ {p} /\ dbPc' = [dbPc EXCEPT ![p] = "in"] /\ dbPc[p] # "in"
            BY <1>4, <2>1 DEF Dbl!Acquire, Dbl!Take, Dbl!Goto
        <3>2. \A q \in DbProc : dbPc[q] = "in" => q \in dbLapsed
            <4>1. dbRow = None \/ dbQuiet > DbTTL
                BY <2>1 DEF Dbl!Free, Dbl!Expired
            <4>2. None \notin DbProc
                BY LocksAssumption DEF Dbl!DbConstants
            <4> QED
                BY <1>1, <4>1, <4>2 DEF DbInv
        <3> QED
            BY <1>1, <3>1, <3>2, DbEnters DEF DbIn
    <2>2. CASE ~Dbl!Free
        BY <1>1, <1>4, <2>2, DbLeaves DEF Dbl!Acquire, Dbl!Goto, DbIn
    <2> QED
        BY <2>1, <2>2
<1>5. ASSUME NEW p \in DbProc,
             \/ Dbl!Spawn(p) \/ Dbl!Inspect(p) \/ Dbl!TakeOver(p)
             \/ Dbl!Refresh(p) \/ Dbl!Finish(p) \/ Dbl!Die(p)
             \/ Dbl!ReapLook(p) \/ Dbl!ReapDelete(p) \/ Dbl!BreakLook(p) \/ Dbl!BreakDelete(p)
      PROVE  DbRow!Next
    <2>1. dbLapsed' = dbLapsed /\ \A q \in DbProc : dbPc'[q] = dbPc[q] \/ dbPc'[q] # "in"
        BY <1>1, <1>5 DEF Dbl!Spawn, Dbl!Inspect, Dbl!TakeOver, Dbl!Refresh, Dbl!Finish, Dbl!Die,
                          Dbl!ReapLook, Dbl!ReapDelete, Dbl!BreakLook, Dbl!BreakDelete, Dbl!Goto
    <2> QED
        BY <2>1, DbLeaves DEF DbIn
<1> QED
    BY <1>2, <1>3, <1>4, <1>5 DEF Dbl!Next, Dbl!Acquiring, Dbl!Clearing
-----------------------------------------------------------------------------
(* The leases of provider calls.  The advisory lock makes the count and    *)
(* the insert one step, and a lease that did not expire has a row of its   *)
(* own.                                                                    *)
RaPlaces  == {"idle", "locked", "pruned", "counted", "calling", "down"}
RaHolding == {"locked", "pruned", "counted"}

RaTypes ==
  /\ raPc \in [RaCaller -> RaPlaces]
  /\ raLease \in [RaCaller -> RaId \cup {None}]
  /\ raExpired \subseteq raRows

(* Between the lock and the commit there is one transaction ...            *)
RaExcluded == \A c \in RaCaller : raPc[c] \in RaHolding => raLock = c

(* ... so that the count is still true when the row is inserted.           *)
RaCounted ==
  /\ IsFiniteSet(raRows) /\ Cardinality(raRows) <= RaCap
  /\ \A c \in RaCaller : raPc[c] = "counted" => Cardinality(raRows) < RaCap

(* A call under way has a lease, and a row until the lease is overdue.     *)
RaLeased(c) ==
  /\ raPc[c] = "calling" <=> raLease[c] # None
  /\ raPc[c] = "calling" /\ c \notin raOverdue => raLease[c] \in raRows \ raExpired

RaDistinct == \A c, d \in RaCaller : raLease[c] = raLease[d] /\ raLease[c] # None => c = d

RaInv == RaTypes /\ RaExcluded /\ RaCounted /\ (\A c \in RaCaller : RaLeased(c)) /\ RaDistinct

LEMMA RaConstants == RaCap \in Nat /\ None \notin RaCaller \cup RaId
BY LocksAssumption DEF Rat!LeaseConstants

LEMMA RaCardinality == \A S : Rat!Cardinality(S) = Cardinality(S)
BY DEF Rat!Cardinality, Cardinality

(* Fewer rows are no more.                                                 *)
LEMMA RaFewerRows ==
  ASSUME IsFiniteSet(raRows), NEW fewer, fewer \subseteq raRows
  PROVE  IsFiniteSet(fewer) /\ Cardinality(fewer) <= Cardinality(raRows)
         /\ Cardinality(fewer) \in Nat /\ Cardinality(raRows) \in Nat
BY FS_Subset, FS_CardinalityType

(* No rows, no calls.                                                      *)
LEMMA RaInit == Rat!Init => RaInv
<1> SUFFICES ASSUME Rat!Init PROVE RaInv
  OBVIOUS
<1>1. RaTypes /\ RaExcluded /\ RaDistinct
  BY DEF Rat!Init, RaTypes, RaPlaces, RaHolding, RaExcluded, RaDistinct
<1>2. \A c \in RaCaller : raPc[c] = "idle" /\ raLease[c] = None
  BY DEF Rat!Init
<1>3. RaCounted
  <2>1. IsFiniteSet(raRows) /\ Cardinality(raRows) = 0
    BY FS_EmptySet DEF Rat!Init
  <2> QED
    BY <1>2, <2>1, RaConstants DEF RaCounted
<1> QED
  BY <1>1, <1>2, <1>3 DEF RaInv, RaLeased

(* The conjuncts about the count are preserved by a step that adds no row  *)
(* and counts nothing.                                                     *)
LEMMA RaCountedKept ==
  ASSUME RaInv, raRows' \subseteq raRows,
         \A c \in RaCaller : raPc'[c] = "counted" => raPc[c] = "counted"
  PROVE  RaCounted'
<1>1. /\ IsFiniteSet(raRows') /\ Cardinality(raRows') <= Cardinality(raRows)
      /\ Cardinality(raRows') \in Nat /\ Cardinality(raRows) \in Nat
  BY RaFewerRows DEF RaInv, RaCounted
<1> QED
  BY <1>1, RaConstants DEF RaInv, RaCounted

(* The transaction of acquireLease, up to its count.                       *)
LEMMA RaLock == ASSUME RaInv, NEW c \in RaCaller, Rat!Lock(c) PROVE RaInv'
<1>1. RaTypes' /\ RaExcluded' /\ RaDistinct'
  BY RaConstants DEF RaInv, RaTypes, RaPlaces, RaHolding, RaExcluded, RaDistinct, Rat!Lock, Rat!Goto
<1>2. RaCounted'
  BY RaCountedKept DEF Rat!Lock, Rat!Goto, RaInv, RaTypes
<1>3. ASSUME NEW d \in RaCaller PROVE RaLeased(d)'
  BY DEF RaInv, RaTypes, RaPlaces, RaLeased, Rat!Lock, Rat!Goto
<1> QED
  BY <1>1, <1>2, <1>3 DEF RaInv

LEMMA RaPrune == ASSUME RaInv, NEW c \in RaCaller, Rat!Prune(c) PROVE RaInv'
<1>1. RaTypes' /\ RaExcluded' /\ RaDistinct'
  BY DEF RaInv, RaTypes, RaPlaces, RaHolding, RaExcluded, RaDistinct, Rat!Prune, Rat!Goto
<1>2. RaCounted'
  BY RaCountedKept DEF Rat!Prune, Rat!Goto, RaInv, RaTypes
<1>3. ASSUME NEW d \in RaCaller PROVE RaLeased(d)'
  BY DEF RaInv, RaTypes, RaPlaces, RaLeased, Rat!Prune, Rat!Goto
<1> QED
  BY <1>1, <1>2, <1>3 DEF RaInv

LEMMA RaCount == ASSUME RaInv, NEW c \in RaCaller, Rat!Count(c) PROVE RaInv'
<1>1. RaTypes' /\ RaDistinct'
  BY DEF RaInv, RaTypes, RaPlaces, RaDistinct, Rat!Count, Rat!Goto
<1>2. RaExcluded'
  BY DEF RaInv, RaTypes, RaHolding, RaExcluded, Rat!Count, Rat!Goto
<1>3. ASSUME NEW d \in RaCaller PROVE RaLeased(d)'
  BY DEF RaInv, RaTypes, RaPlaces, RaLeased, Rat!Count, Rat!Goto
<1>4. RaCounted'
  <2>1. Cardinality(raRows) \in Nat /\ raRows' = raRows
    BY FS_CardinalityType DEF RaInv, RaCounted, Rat!Count
  <2>2. \A d \in RaCaller : raPc'[d] = "counted" => raPc[d] = "counted" \/ Cardinality(raRows) < RaCap
    BY <2>1, RaConstants, RaCardinality DEF Rat!Count, Rat!Goto, RaInv, RaTypes
  <2> QED
    BY <2>1, <2>2 DEF RaInv, RaCounted
<1> QED
  BY <1>1, <1>2, <1>3, <1>4 DEF RaInv

(* The insert: nobody else is in the transaction, so that nobody inserted  *)
(* since the count.                                                        *)
LEMMA RaInsert == ASSUME RaInv, NEW c \in RaCaller, Rat!Insert(c) PROVE RaInv'
<1>1. PICK id \in RaId \ raRows :
        /\ \A d \in RaCaller : raLease[d] # id
        /\ raRows' = raRows \cup {id}
        /\ raLease' = [raLease EXCEPT ![c] = id]
  BY DEF Rat!Insert
<1>2. raPc[c] = "counted" /\ raPc' = [raPc EXCEPT ![c] = "calling"]
  BY DEF Rat!Insert, Rat!Goto
<1>3. RaTypes'
  BY <1>1, <1>2 DEF RaInv, RaTypes, RaPlaces, Rat!Insert
<1>4. \A d \in RaCaller : raPc'[d] \notin RaHolding
  BY <1>2 DEF RaInv, RaTypes, RaExcluded, RaHolding
<1>5. RaExcluded'
  BY <1>4 DEF RaExcluded
<1>6. RaCounted'
  <2>1. Cardinality(raRows) < RaCap /\ IsFiniteSet(raRows)
    BY <1>2 DEF RaInv, RaCounted
  <2>2. Cardinality(raRows) \in Nat
    BY <2>1, FS_CardinalityType
  <2>3. IsFiniteSet(raRows') /\ Cardinality(raRows') = Cardinality(raRows) + 1
    BY <1>1, <2>1, FS_AddElement
  <2>4. \A d \in RaCaller : raPc'[d] # "counted"
    BY <1>4 DEF RaHolding
  <2> QED
    BY <2>1, <2>2, <2>3, <2>4, RaConstants DEF RaCounted
<1>7. ASSUME NEW d \in RaCaller PROVE RaLeased(d)'
  BY <1>1, <1>2, RaConstants DEF RaInv, RaTypes, RaPlaces, RaLeased, Rat!Insert
<1>8. RaDistinct'
  BY <1>1 DEF RaInv, RaTypes, RaDistinct
<1> QED
  BY <1>3, <1>5, <1>6, <1>7, <1>8 DEF RaInv

(* The end of a call, and that of a worker.                                *)
LEMMA RaEnd ==
  ASSUME RaInv, NEW c \in RaCaller, Rat!Release(c) \/ Rat!Crash(c) \/ Rat!Restart(c)
  PROVE  RaInv'
<1>1. raRows' \subseteq raRows /\ (\A d \in RaCaller : raPc'[d] = "counted" => raPc[d] = "counted")
  BY DEF Rat!Release, Rat!Crash, Rat!Restart, Rat!Goto, RaInv, RaTypes
<1>2. RaCounted'
  BY <1>1, RaCountedKept
<1>3. RaTypes'
  BY DEF RaInv, RaTypes, RaPlaces, Rat!Release, Rat!Crash, Rat!Restart, Rat!Goto
<1>4. RaDistinct'
  BY DEF RaInv, RaTypes, RaDistinct, Rat!Release, Rat!Crash, Rat!Restart
<1>5. RaExcluded'
  BY DEF RaInv, RaTypes, RaHolding, RaExcluded, Rat!Release, Rat!Crash, Rat!Restart, Rat!Goto
<1>6. ASSUME NEW d \in RaCaller PROVE RaLeased(d)'
  <2>1. CASE Rat!Release(c)
    BY <2>1 DEF RaInv, RaTypes, RaPlaces, RaLeased, RaDistinct, Rat!Release, Rat!Goto
  <2>2. CASE Rat!Crash(c)
    BY <2>2 DEF RaInv, RaTypes, RaPlaces, RaLeased, Rat!Crash, Rat!Goto
  <2>3. CASE Rat!Restart(c)
    BY <2>3 DEF RaInv, RaTypes, RaPlaces, RaLeased, Rat!Restart, Rat!Goto
  <2> QED
    BY <2>1, <2>2, <2>3
<1> QED
  BY <1>2, <1>3, <1>4, <1>5, <1>6 DEF RaInv

(* Rows expire and go: their leases are overdue.                           *)
LEMMA RaRow ==
  ASSUME RaInv, NEW id \in RaId, Rat!Expire(id) \/ Rat!Cascade(id) PROVE RaInv'
<1>1. raRows' \subseteq raRows /\ raPc' = raPc /\ raLease' = raLease /\ raLock' = raLock
  BY DEF Rat!Expire, Rat!Cascade
<1>2. RaCounted'
  BY <1>1, RaCountedKept
<1>3. RaTypes' /\ RaExcluded' /\ RaDistinct'
  BY <1>1 DEF RaInv, RaTypes, RaExcluded, RaDistinct, Rat!Expire, Rat!Cascade
<1>4. ASSUME NEW d \in RaCaller PROVE RaLeased(d)'
  BY DEF RaInv, RaTypes, RaLeased, Rat!Expire, Rat!Cascade, Rat!Holders
<1> QED
  BY <1>2, <1>3, <1>4 DEF RaInv

(* Every step preserves the invariant.                                     *)
LEMMA RaNext == RaInv /\ [Rat!Next]_Rat!vars => RaInv'
<1> SUFFICES ASSUME RaInv, [Rat!Next]_Rat!vars PROVE RaInv'
  OBVIOUS
<1>1. CASE UNCHANGED Rat!vars
  BY <1>1 DEF Rat!vars, RaInv, RaTypes, RaExcluded, RaCounted, RaLeased, RaDistinct
<1> QED
  BY <1>1, RaLock, RaPrune, RaCount, RaInsert, RaEnd, RaRow DEF Rat!Next, Rat!Acquire

(* The calls with a valid lease are no more than the rows.                 *)
RaCounting == {c \in RaCaller : raPc[c] = "calling" /\ c \notin raOverdue}

LEMMA RaCallsHaveRows ==
  ASSUME RaInv
  PROVE  /\ Cardinality(RaCounting) \in Nat /\ Cardinality(raRows) \in Nat
         /\ Cardinality(RaCounting) <= Cardinality(raRows) /\ Cardinality(raRows) <= RaCap
<1> DEFINE S == RaCounting
           f == [c \in S |-> raLease[c]]
<1> USE DEF RaCounting
<1>1. f \in Injection(S, raRows)
  <2>1. f \in [S -> raRows]
    BY DEF RaInv, RaLeased
  <2>2. \A c, d \in S : f[c] = f[d] => c = d
    BY DEF RaInv, RaLeased, RaDistinct
  <2> QED
    BY <2>1, <2>2 DEF Injection, IsInjective
<1>2. IsFiniteSet(raRows) /\ Cardinality(raRows) <= RaCap
  BY DEF RaInv, RaCounted
<1>3. IsFiniteSet(S) /\ Cardinality(S) <= Cardinality(raRows)
  BY <1>1, <1>2, FS_Injection
<1>4. Cardinality(S) \in Nat /\ Cardinality(raRows) \in Nat
  BY <1>2, <1>3, FS_CardinalityType
<1> QED
  BY <1>2, <1>3, <1>4

LEMMA RaCapHolds == RaInv => CapHolds
<1> SUFFICES ASSUME RaInv PROVE CapHolds
  OBVIOUS
<1>1. Cardinality(RaCounting) <= RaCap
  BY RaCallsHaveRows, RaConstants
<1> QED
  BY <1>1, RaCardinality DEF CapHolds, Rat!CapHolds, RaCounting

(* No more calls with a valid lease are under way than maxConcurrent, for  *)
(* any number of workers, whatever crashes, releases fail or leases expire.*)
THEOREM CapHoldsThere == LocksSpec => []CapHolds
<1> QED
  BY RaInit, RaNext, RaCapHolds, Projection, PTL DEF Rat!Spec

(* Only a call under way is overdue.                                       *)
RaOnlyCalls == raOverdue \subseteq RaIn

LEMMA RaOverdueCalls ==
  /\ Rat!Init => RaOnlyCalls
  /\ RaInv /\ RaOnlyCalls /\ [Rat!Next]_Rat!vars => RaOnlyCalls'
<1> USE DEF RaOnlyCalls, RaIn
<1>1. Rat!Init => RaOnlyCalls
  BY DEF Rat!Init
<1> SUFFICES ASSUME RaInv, RaOnlyCalls, [Rat!Next]_Rat!vars PROVE RaOnlyCalls'
  BY <1>1
<1>2. CASE UNCHANGED Rat!vars
  BY <1>2 DEF Rat!vars
<1>3. ASSUME NEW c \in RaCaller,
             Rat!Lock(c) \/ Rat!Prune(c) \/ Rat!Count(c) \/ Rat!Insert(c) \/ Rat!Restart(c)
      PROVE  RaOnlyCalls'
  BY <1>3 DEF RaInv, RaTypes, Rat!Lock, Rat!Prune, Rat!Count, Rat!Insert, Rat!Restart, Rat!Goto
<1>4. ASSUME NEW c \in RaCaller, Rat!Release(c) \/ Rat!Crash(c) PROVE RaOnlyCalls'
  BY <1>4 DEF RaInv, RaTypes, Rat!Release, Rat!Crash, Rat!Goto
<1>5. ASSUME NEW id \in RaId, Rat!Expire(id) \/ Rat!Cascade(id) PROVE RaOnlyCalls'
  <2>1. \A c \in Rat!Holders(id) : c \in RaIn
    BY RaConstants DEF RaInv, RaLeased, Rat!Holders
  <2> QED
    BY <1>5, <2>1 DEF Rat!Expire, Rat!Cascade
<1> QED
  BY <1>2, <1>3, <1>4, <1>5 DEF Rat!Next, Rat!Acquire

(* The count of the rows lets a call in only beside fewer than Cap calls   *)
(* with a valid lease.                                                     *)
LEMMA RaImplements ==
  RaInv /\ RaOnlyCalls /\ [Rat!Next]_Rat!vars => [RaCalls!Next]_RaCalls!vars
<1> SUFFICES ASSUME RaInv, RaOnlyCalls, [Rat!Next]_Rat!vars PROVE [RaCalls!Next]_RaCalls!vars
  OBVIOUS
<1>1. RaIn \cap raOverdue = raOverdue /\ raPc \in [RaCaller -> RaPlaces]
  BY DEF RaOnlyCalls, RaInv, RaTypes
<1>2. CASE UNCHANGED Rat!vars
  BY <1>2 DEF Rat!vars, RaIn, RaCalls!vars
<1>3. ASSUME NEW c \in RaCaller, Rat!Insert(c) PROVE RaCalls!Next
  <2>1. c \notin RaIn /\ RaIn' = RaIn \cup {c} /\ raOverdue' = raOverdue
    BY <1>1, <1>3 DEF Rat!Insert, Rat!Goto, RaIn
  <2>2. RaCalls!Cardinality(RaIn \ (RaIn \cap raOverdue)) < RaCap
    <3>1. RaIn \ (RaIn \cap raOverdue) = RaCounting
      BY DEF RaIn, RaCounting
    <3>2. Cardinality(raRows) < RaCap
      BY <1>3 DEF Rat!Insert, RaInv, RaCounted
    <3>3. Cardinality(RaCounting) < RaCap
      BY <3>2, RaCallsHaveRows, RaConstants
    <3> QED
      BY <3>1, <3>3 DEF RaCalls!Cardinality, Cardinality
  <2>3. (RaIn \cap raOverdue)' = RaIn \cap raOverdue
    BY <1>1, <2>1 DEF RaOnlyCalls
  <2> QED
    BY <2>1, <2>2, <2>3 DEF RaCalls!Next, RaCalls!Enter
<1>4. ASSUME NEW c \in RaCaller,
             Rat!Lock(c) \/ Rat!Prune(c) \/ Rat!Count(c) \/ Rat!Restart(c)
      PROVE  RaCalls!Next
  <2>1. RaIn' = RaIn /\ raOverdue' = raOverdue
    BY <1>1, <1>4 DEF Rat!Lock, Rat!Prune, Rat!Count, Rat!Restart, Rat!Goto, RaIn
  <2> QED
    BY <2>1 DEF RaCalls!Next, RaCalls!Leave
<1>5. ASSUME NEW c \in RaCaller, Rat!Release(c) \/ Rat!Crash(c) PROVE RaCalls!Next
  <2>1. raOverdue' = raOverdue \ {c} /\ c \notin RaIn'
        /\ \A d \in RaCaller \ {c} : d \in RaIn' <=> d \in RaIn
    BY <1>1, <1>5 DEF Rat!Release, Rat!Crash, Rat!Goto, RaIn
  <2>2. RaIn \subseteq RaCaller /\ RaIn' \subseteq RaCaller
    BY DEF RaIn
  <2> QED
    BY <2>1, <2>2 DEF RaCalls!Next, RaCalls!Leave
<1>6. ASSUME NEW id \in RaId, Rat!Expire(id) \/ Rat!Cascade(id) PROVE RaCalls!Next
  <2>1. RaIn' = RaIn /\ raOverdue \subseteq raOverdue'
    BY <1>6 DEF Rat!Expire, Rat!Cascade, RaIn
  <2> QED
    BY <2>1 DEF RaCalls!Next, RaCalls!Overstay
<1> QED
  BY <1>2, <1>3, <1>4, <1>5, <1>6 DEF Rat!Next, Rat!Acquire

-----------------------------------------------------------------------------
(* The supervisors of a queue.  The PID files play no part: one that runs  *)
(* has the row, and the row is no older than the refreshes that failed and *)
(* the one that is due, of which there are too few for it to expire.       *)
SuPlaces ==
  {"off", "create", "write", "look", "unlink", "recreate", "lock", "up", "stop", "exit", "clean"}

SuTypes ==
  /\ suPc \in [SuSup -> SuPlaces]
  /\ suQuiet \in Nat
  /\ suFailures \in [SuSup -> Nat]

(* What a supervisor that runs can rely on.                                *)
SuHolds(s) ==
  suPc[s] = "up" =>
    /\ suRow = s
    /\ suFailures[s] < MaxFailures
    /\ suQuiet <= suFailures[s] + 1
    /\ s \notin suDue => suQuiet <= suFailures[s]

SuInv == SuTypes /\ \A s \in SuSup : SuHolds(s)

(* A step of s that does not start to serve, and takes the row from nobody *)
(* else.                                                                   *)
SuAside(s, where) ==
  /\ where \in SuPlaces /\ where # "up"
  /\ Spv!Goto(s, where)
  /\ \A t \in SuSup \ {s} : suRow = t => suRow' = t
  /\ \A t \in SuSup \ {s} : t \in suDue' <=> t \in suDue
  /\ suFailures' = suFailures \/ suFailures' = [suFailures EXCEPT ![s] = 0]
  /\ UNCHANGED suQuiet

(* Nobody runs at first.                                                   *)
LEMMA SuInit == Spv!Init => SuInv
BY DEF Spv!Init, SuInv, SuTypes, SuPlaces, SuHolds

(* Such a step concerns only s, which does not serve after it.             *)
LEMMA SuAsideInv ==
  ASSUME SuInv, NEW s \in SuSup, NEW where, SuAside(s, where) PROVE SuInv'
<1>1. SuTypes'
  BY DEF SuInv, SuTypes, SuAside, Spv!Goto
<1>2. ASSUME NEW t \in SuSup PROVE SuHolds(t)'
  <2>1. CASE t = s
    BY <2>1 DEF SuInv, SuTypes, SuHolds, SuAside, Spv!Goto
  <2>2. CASE t # s
    <3>1. suPc'[t] = suPc[t] /\ suFailures'[t] = suFailures[t]
      BY <2>2 DEF SuInv, SuTypes, SuAside, Spv!Goto
    <3>2. t \in suDue' <=> t \in suDue
      BY <2>2 DEF SuAside
    <3>3. suRow = t => suRow' = t
      BY <2>2 DEF SuAside
    <3> QED
      BY <3>1, <3>2, <3>3 DEF SuInv, SuHolds, SuAside
  <2> QED
    BY <2>1, <2>2
<1> QED
  BY <1>1, <1>2 DEF SuInv

(* A process that ends leaves the row of another alone.                    *)
LEMMA SuGone ==
  ASSUME NEW s \in SuSup, NEW files, Spv!Gone(s, files), suQuiet' = suQuiet
  PROVE  SuAside(s, "off")
BY DEF Spv!Gone, SuAside, SuPlaces

(* While somebody runs, the row has not expired.                           *)
LEMMA SuRowIsFresh ==
  ASSUME SuInv, NEW s \in SuSup, suPc[s] = "up" PROVE suRow = s /\ ~Spv!Expired
BY LocksAssumption DEF Spv!SupervisorConstants, SuInv, SuTypes, SuHolds, Spv!Expired

(* Who takes the row finds nobody that runs.                               *)
LEMMA SuLock ==
  ASSUME SuInv, NEW s \in SuSup, Spv!Lock(s) PROVE SuInv'
<1>1. CASE /\ suRow \in {None, Dead} \/ Spv!Expired
           /\ suRow' = s /\ suQuiet' = 0
           /\ suFailures' = [suFailures EXCEPT ![s] = 0]
           /\ Spv!Goto(s, "up")
  <2>1. \A t \in SuSup : suPc[t] # "up"
    BY LocksAssumption, <1>1, SuRowIsFresh DEF Spv!SupervisorConstants
  <2>2. SuTypes'
    BY <1>1 DEF SuInv, SuTypes, SuPlaces, Spv!Goto
  <2>3. ASSUME NEW t \in SuSup PROVE SuHolds(t)'
    <3>1. CASE t = s
      <4>1. suFailures'[s] = 0 /\ suQuiet' = 0 /\ suRow' = s
        BY <1>1 DEF SuInv, SuTypes
      <4> QED
        BY LocksAssumption, <3>1, <4>1 DEF SuHolds, Spv!SupervisorConstants
    <3>2. CASE t # s
      BY <1>1, <2>1, <3>2 DEF SuInv, SuTypes, SuHolds, Spv!Goto
    <3> QED
      BY <3>1, <3>2
  <2> QED
    BY <2>2, <2>3 DEF SuInv
<1>2. CASE Spv!Goto(s, "exit") /\ UNCHANGED <<suRow, suQuiet, suFailures, suDue>>
  BY <1>2, SuAsideInv DEF SuAside, SuPlaces
<1> QED
  BY <1>1, <1>2 DEF Spv!Lock

(* A refresh makes the row fresh or counts, and nobody else runs.          *)
LEMMA SuRefresh ==
  ASSUME SuInv, NEW s \in SuSup, Spv!Refresh(s) \/ Spv!RefreshFails(s) PROVE SuInv'
<1>1. suRow = s /\ suFailures[s] \in Nat /\ suQuiet \in Nat /\ suQuiet <= suFailures[s] + 1
  BY SuRowIsFresh DEF Spv!Refresh, Spv!RefreshFails, SuInv, SuTypes, SuHolds
<1>2. \A t \in SuSup : suPc[t] = "up" => t = s
  BY <1>1, SuRowIsFresh
<1>3. CASE Spv!Refresh(s)
  <2>1. suFailures'[s] = 0 /\ suQuiet' = 0 /\ suRow' = s /\ suPc' = suPc
    BY <1>1, <1>3 DEF Spv!Refresh, SuInv, SuTypes
  <2>2. SuTypes'
    BY <1>1, <1>3 DEF Spv!Refresh, SuInv, SuTypes
  <2>3. ASSUME NEW t \in SuSup PROVE SuHolds(t)'
    BY LocksAssumption, <1>2, <2>1 DEF SuHolds, Spv!SupervisorConstants
  <2> QED
    BY <2>2, <2>3 DEF SuInv
<1>4. CASE Spv!RefreshFails(s)
  <2>1. suFailures'[s] = suFailures[s] + 1 /\ suQuiet' <= suFailures[s] + 1 /\ suRow' = s
    BY <1>1, <1>4 DEF Spv!RefreshFails, SuInv, SuTypes
  <2>2. SuTypes'
    BY <1>1, <1>4 DEF Spv!RefreshFails, SuInv, SuTypes, SuPlaces, Spv!Goto
  <2>3. \A t \in SuSup \ {s} : suPc'[t] = suPc[t]
    BY <1>4 DEF Spv!RefreshFails, SuInv, SuTypes, SuPlaces, Spv!Goto
  <2>4. suPc'[s] = "up" => suFailures'[s] < MaxFailures
    BY LocksAssumption, <1>1, <1>4, <2>1
       DEF Spv!RefreshFails, SuInv, SuTypes, SuPlaces, Spv!Goto, Spv!SupervisorConstants
  <2>5. ASSUME NEW t \in SuSup PROVE SuHolds(t)'
    <3>1. CASE t = s
      <4>1. suQuiet' \in Nat
        BY <2>2 DEF SuTypes
      <4> QED
        BY <3>1, <4>1, <2>1, <2>4, <1>1 DEF SuHolds
    <3>2. CASE t # s
      BY <3>2, <1>2, <2>3 DEF SuHolds
    <3> QED
      BY <3>1, <3>2
  <2> QED
    BY <2>2, <2>5 DEF SuInv
<1> QED
  BY <1>3, <1>4

(* The clock goes on only when nothing is due: a supervisor that runs had  *)
(* counted every failure.                                                  *)
LEMMA SuTick == ASSUME SuInv, Spv!Tick PROVE SuInv'
<1>1. suQuiet' \in Nat /\ suQuiet' <= suQuiet + 1
  BY DEF Spv!Tick, SuInv, SuTypes
<1>2. SuTypes'
  BY <1>1 DEF Spv!Tick, SuInv, SuTypes
<1>3. ASSUME NEW t \in SuSup PROVE SuHolds(t)'
  <2>1. SUFFICES ASSUME suPc[t] = "up" PROVE SuHolds(t)'
    BY DEF Spv!Tick, SuHolds
  <2>2. suQuiet <= suFailures[t]
    BY LocksAssumption, <2>1 DEF Spv!Tick, SuInv, SuHolds, Spv!SupervisorConstants
  <2>3. t \in suDue'
    BY <2>1 DEF Spv!Tick
  <2>4. suFailures[t] \in Nat /\ suQuiet \in Nat
    BY DEF SuInv, SuTypes
  <2> QED
    BY <2>1, <2>2, <2>3, <2>4, <1>1 DEF Spv!Tick, SuInv, SuHolds
<1> QED
  BY <1>2, <1>3 DEF SuInv

(* Every step of a supervisor and of the clock preserves the invariant.    *)
LEMMA SuNext == SuInv /\ [Spv!Next]_Spv!vars => SuInv'
<1> SUFFICES ASSUME SuInv, [Spv!Next]_Spv!vars PROVE SuInv'
  OBVIOUS
<1>1. ASSUME NEW s \in SuSup, Spv!Start(s) PROVE SuInv'
  <2>1. SuAside(s, "create")
    BY <1>1 DEF Spv!Start, SuAside, SuPlaces
  <2> QED
    BY <2>1, SuAsideInv
<1>2. ASSUME NEW s \in SuSup, Spv!Create(s) \/ Spv!Write(s) \/ Spv!Unlink(s) PROVE SuInv'
  <2>1. \E where \in {"write", "look", "lock", "recreate"} : SuAside(s, where)
    BY <1>2 DEF Spv!Create, Spv!Write, Spv!Unlink, SuAside, SuPlaces
  <2> QED
    BY <2>1, SuAsideInv
<1>3. ASSUME NEW s \in SuSup, Spv!Look(s) \/ Spv!Recreate(s) PROVE SuInv'
  <2>1. CASE Spv!Gone(s, suFile)
    BY <1>3, <2>1, SuGone, SuAsideInv DEF Spv!Look, Spv!Recreate
  <2>2. CASE ~Spv!Gone(s, suFile)
    <3>1. \E where \in {"unlink", "write"} : SuAside(s, where)
      BY <1>3, <2>2 DEF Spv!Look, Spv!Recreate, SuAside, SuPlaces
    <3> QED
      BY <3>1, SuAsideInv
  <2> QED
    BY <2>1, <2>2
<1>4. ASSUME NEW s \in SuSup, Spv!Stop(s) \/ Spv!Release(s) PROVE SuInv'
  <2>1. \E where \in {"stop", "exit"} : SuAside(s, where)
    BY <1>4 DEF Spv!Stop, Spv!Release, SuAside, SuPlaces
  <2> QED
    BY <2>1, SuAsideInv
<1>5. ASSUME NEW s \in SuSup, Spv!Leave(s) PROVE SuInv'
  <2>1. CASE Spv!Gone(s, suFile)
    BY <1>5, <2>1, SuGone, SuAsideInv DEF Spv!Leave
  <2>2. CASE ~Spv!Gone(s, suFile)
    <3>1. SuAside(s, "clean")
      BY <1>5, <2>2 DEF Spv!Leave, SuAside, SuPlaces
    <3> QED
      BY <3>1, SuAsideInv
  <2> QED
    BY <2>1, <2>2
<1>6. ASSUME NEW s \in SuSup, Spv!Clean(s) \/ Spv!Kill(s) PROVE SuInv'
  <2>1. \E files : Spv!Gone(s, files) /\ suQuiet' = suQuiet
    BY <1>6 DEF Spv!Clean, Spv!Kill
  <2> QED
    BY <2>1, SuGone, SuAsideInv
<1>7. CASE UNCHANGED Spv!vars
  BY <1>7 DEF Spv!vars, SuInv, SuTypes, SuHolds
<1> QED
  BY <1>1, <1>2, <1>3, <1>4, <1>5, <1>6, <1>7, SuLock, SuRefresh, SuTick
     DEF Spv!Next, Spv!Starting, Spv!Ending

(* The fail-safe of refreshDbLock works: however PID files are raced for   *)
(* and however refreshes fail, no two supervisors serve the queue, as long *)
(* as the failures allowed fit in the TTL.                                 *)
THEOREM OneSupervisorThere == LocksSpec => []OneSupervisor
<1>1. SuInv => OneSupervisor
    BY DEF SuInv, SuHolds, OneSupervisor, Spv!OneSupervisor
<1> QED
    BY <1>1, SuInit, SuNext, Projection, PTL DEF Spv!Spec

(* The row lets a supervisor in when nobody serves; all other steps let    *)
(* nobody in.                                                              *)
LEMMA SuEnters ==
  ASSUME NEW s \in SuSup, SuIn = {}, SuIn' = {s}
  PROVE  SuQueue!Next
<1>1. SuIn \ {} = {} /\ SuQueue!Cardinality({}) < 1
  BY NobodyCounts DEF SuQueue!Cardinality, Cardinality
<1> QED
  BY <1>1 DEF SuQueue!Next, SuQueue!Enter

LEMMA SuLeaves ==
  ASSUME SuIn' \subseteq SuIn PROVE SuQueue!Next
BY DEF SuQueue!Next, SuQueue!Leave

LEMMA SuImplements == SuInv /\ [Spv!Next]_Spv!vars => [SuQueue!Next]_SuQueue!vars
<1> SUFFICES ASSUME SuInv, [Spv!Next]_Spv!vars PROVE SuQueue!Next
  OBVIOUS
<1>1. suPc \in [SuSup -> SuPlaces]
  BY DEF SuInv, SuTypes
<1>2. CASE UNCHANGED Spv!vars
  BY <1>2, SuLeaves DEF Spv!vars, SuIn
<1>3. CASE Spv!Tick
  BY <1>3, SuLeaves DEF Spv!Tick, SuIn
<1>4. ASSUME NEW s \in SuSup, Spv!Lock(s) PROVE SuQueue!Next
  <2>1. CASE Spv!Goto(s, "up") /\ (suRow \in {None, Dead} \/ Spv!Expired)
    <3>1. \A t \in SuSup : suPc[t] # "up"
      BY LocksAssumption, <2>1, SuRowIsFresh DEF Spv!SupervisorConstants
    <3>2. SuIn = {} /\ SuIn' = {s}
      BY <1>1, <2>1, <3>1 DEF SuIn, Spv!Goto
    <3> QED
      BY <3>2, SuEnters
  <2>2. CASE Spv!Goto(s, "exit")
    BY <1>1, <2>2, SuLeaves DEF SuIn, Spv!Goto
  <2> QED
    BY <1>4, <2>1, <2>2 DEF Spv!Lock
<1>5. ASSUME NEW s \in SuSup,
             \/ Spv!Start(s) \/ Spv!Create(s) \/ Spv!Write(s) \/ Spv!Look(s) \/ Spv!Unlink(s)
             \/ Spv!Recreate(s) \/ Spv!Refresh(s) \/ Spv!RefreshFails(s) \/ Spv!Stop(s)
             \/ Spv!Release(s) \/ Spv!Leave(s) \/ Spv!Clean(s) \/ Spv!Kill(s)
      PROVE  SuQueue!Next
  <2>1. CASE Spv!RefreshFails(s)
    BY <1>1, <2>1, SuLeaves DEF Spv!RefreshFails, Spv!Goto, SuIn
  <2>2. CASE ~Spv!RefreshFails(s)
    <3>1. suPc' = suPc \/ \E where : where # "up" /\ Spv!Goto(s, where)
      BY <1>5, <2>2 DEF Spv!Start, Spv!Create, Spv!Write, Spv!Look, Spv!Unlink, Spv!Recreate,
                        Spv!Refresh, Spv!Stop, Spv!Release, Spv!Leave, Spv!Clean, Spv!Kill,
                        Spv!Gone
    <3>2. \A t \in SuSup : suPc'[t] = suPc[t] \/ suPc'[t] # "up"
      BY <1>1, <3>1 DEF Spv!Goto
    <3> QED
      BY <3>2, SuLeaves DEF SuIn
  <2> QED
    BY <2>1, <2>2
<1> QED
  BY <1>2, <1>3, <1>4, <1>5 DEF Spv!Next, Spv!Starting, Spv!Ending

(* Nobody is in at first.                                                  *)
LEMMA NobodyIn ==
  /\ Pgl!Init => PgLock!Init
  /\ Pag!Init => PaLock!Init
  /\ Dbl!Init => DbRow!Init
  /\ Rat!Init => RaCalls!Init
  /\ Spv!Init => SuQueue!Init
<1>1. Pgl!Init => PgLock!Init
  BY DEF Pgl!Init, PgLock!Init, PgIn, Pgl!Holding
<1>2. Pag!Init => PaLock!Init
  BY DEF Pag!Init, PaLock!Init, PaIn
<1>3. Dbl!Init => DbRow!Init
  BY DEF Dbl!Init, DbRow!Init, DbIn
<1>4. Rat!Init => RaCalls!Init
  BY DEF Rat!Init, RaCalls!Init, RaIn
<1>5. Spv!Init => SuQueue!Init
  BY DEF Spv!Init, SuQueue!Init, SuIn
<1> QED
  BY <1>1, <1>2, <1>3, <1>4, <1>5

(* The directory of pglite-lock.ts, the file of page-lock.ts, the row of   *)
(* db-lock.ts, the leases of rate-leases.ts and the supervisors' row in    *)
(* supervisor.ts keep one promise: nobody is let in beside as many holders *)
(* as may be in and did not lose their lease, and a holder that lost its   *)
(* lease does not get it back before it has left.                          *)
THEOREM LocksAreLeased == LocksSpec => LocksImplementLease
<1>1. Pgl!Spec => PgLock!Spec
  BY NobodyIn, PgInit, PgNext, PgImplements, PTL DEF Pgl!Spec, PgLock!Spec
<1>2. Pag!Spec => PaLock!Spec
  BY NobodyIn, PaInit, PaNext, PaImplements, PTL DEF Pag!Spec, PaLock!Spec
<1>3. Dbl!Spec => DbRow!Spec
  BY NobodyIn, DbInit, DbNext, DbImplements, PTL DEF Dbl!Spec, DbRow!Spec
<1>4. Rat!Spec => RaCalls!Spec
  BY NobodyIn, RaInit, RaNext, RaOverdueCalls, RaImplements, PTL DEF Rat!Spec, RaCalls!Spec
<1>5. Spv!Spec => SuQueue!Spec
  BY NobodyIn, SuInit, SuNext, SuImplements, PTL DEF Spv!Spec, SuQueue!Spec
<1> QED
  BY <1>1, <1>2, <1>3, <1>4, <1>5, Projection, PTL DEF LocksImplementLease
-----------------------------------------------------------------------------
(* The renewal of a job's lock.  The lease runs out before the worker      *)
(* knows.  While it has heard of a renewal less than Deadline ago, the     *)
(* lease trails its clock by at most CallTimeout (Trails), so the overlap  *)
(* is what the clock has gone beyond LockDuration - CallTimeout (Early).   *)
(* Of the claim nothing is known: the overlap may be all of its clock.     *)
(* After the deadline the next failed call ends the handler, and Potential *)
(* bounds the time to it from where the tick is (Overdue).                 *)

(* The longest time until a failed or refused call ends the handler.       *)
Potential ==
  IF phase = "calling" THEN left
  ELSE IF phase = "idle" THEN untilTick + CallTimeout
  ELSE left + Interval + CallTimeout

(* What a granted call that was not answered yet promises of the lease.    *)
Granted ==
  phase = "calling" /\ call = "granted" =>
    row = "ours" /\ lease >= LockDuration - CallTimeout + left

(* The lease of a renewal ends at most CallTimeout before the worker's     *)
(* clock says so.                                                          *)
Trails == heard /\ sinceOk < Deadline => lease >= LockDuration - CallTimeout - sinceOk

(* The overlap before the worker's deadline.                               *)
Early ==
  row = "swept" /\ mode = "running" /\ sinceOk < Deadline =>
    /\ overlap <= sinceOk
    /\ heard => overlap <= sinceOk - (LockDuration - CallTimeout) - 1

(* The overlap from the deadline on.                                       *)
Overdue ==
  row = "swept" /\ mode = "running" /\ sinceOk >= Deadline =>
    overlap + Potential <= Unaware + Interval + 2 * CallTimeout

(* The inductive invariant.                                                *)
LrInv ==
  /\ TypeOK
  /\ mode # "running" => phase = "idle"
  /\ mode = "claiming" => ~heard
  /\ row = "ours" \/ mode = "claiming" => overlap = 0
  /\ Granted
  /\ Trails
  /\ Early
  /\ Overdue
  /\ OverlapBounded
(* What the assumptions say of the knobs, as arithmetic facts.             *)
LEMMA LrKnobs ==
  /\ LockDuration \in Nat /\ LockDuration > 0
  /\ Interval \in Nat /\ Interval > 0
  /\ CallTimeout \in Nat /\ CallTimeout > 0
  /\ SafetyMargin \in Nat /\ SafetyMargin > 0
  /\ SafetyMargin < LockDuration
  /\ CallTimeout <= LockDuration
  /\ MaxLate \in Nat /\ MaxOverlap \in Nat
  /\ Deadline \in Nat /\ Deadline = LockDuration - SafetyMargin
BY KnobsAssumption, CallTimeoutAssumption DEF Deadline

(* Both bounds of Unaware, as arithmetic facts.                            *)
LEMMA LrUnaware ==
  ASSUME heard \in BOOLEAN
  PROVE  /\ Unaware \in Nat
         /\ ~heard => Unaware = Deadline
         /\ heard => Unaware >= CallTimeout - SafetyMargin
BY LrKnobs DEF Unaware, AtLeast

(* The invariant holds when the database has executed the claim.           *)
LEMMA LrInit == Init => LrInv
<1>1. Init => heard \in BOOLEAN
  BY DEF Init
<1> QED
  BY <1>1, LrUnaware, LrKnobs
     DEF Init, LrInv, TypeOK, Granted, Trails, Early, Overdue, OverlapBounded

(* Every step of the worker, the database and the clock preserves it.      *)
LEMMA LrNext == LrInv /\ [Next]_vars => LrInv'
<1> SUFFICES ASSUME LrInv, [Next]_vars PROVE LrInv'
  OBVIOUS
<1>u. heard \in BOOLEAN /\ Unaware \in Nat
  BY LrUnaware DEF LrInv, TypeOK
<1>k. UNCHANGED heard => UNCHANGED Unaware
  BY DEF Unaware
<1>4. CASE Answer
  <2> DEFINE U == Unaware'
  <2>1. U \in Nat
    <3>1. heard' \in BOOLEAN
      BY <1>4 DEF LrInv, TypeOK, Answer
    <3> QED
      BY <3>1, LrKnobs DEF Unaware, AtLeast
  <2>2. CASE call = "granted"
    <3>1. /\ mode = "running" /\ row = "ours" /\ overlap = 0
          /\ left \in Nat /\ lease >= LockDuration - CallTimeout + left
      BY <1>4, <2>2, LrKnobs DEF LrInv, TypeOK, Granted, Answer
    <3>2. /\ mode' = "running" /\ row' = "ours" /\ overlap' = 0 /\ heard' = TRUE
          /\ sinceOk' = 0 /\ lease' = lease /\ phase' = "idle" /\ left' = 0 /\ call' = "sent"
          /\ untilTick' = untilTick /\ late' = late
      BY <1>4, <2>2, <3>1 DEF Answer, Idle
    <3>3. TypeOK'
      BY <3>2, LrKnobs DEF LrInv, TypeOK
    <3>4. OverlapBounded'
      <4>1. 0 <= U + Interval + 2 * CallTimeout
        <5> HIDE DEF U
        <5> QED
          BY <2>1, LrKnobs
      <4> QED
        BY <3>2, <4>1 DEF OverlapBounded
    <3>5. Trails'
      BY <3>1, <3>2, <3>3, LrKnobs DEF TypeOK, Trails
    <3>6. Granted' /\ Early' /\ Overdue'
      BY <3>2 DEF Granted, Early, Overdue
    <3> QED
      BY <3>2, <3>3, <3>4, <3>5, <3>6 DEF LrInv
  <2>3. CASE call # "granted"
    <3>1. UNCHANGED <<heard, sinceOk, lease, row, untilTick, late, overlap>>
      BY <1>4, <2>3 DEF Answer
    <3>2. mode' = "aborted" /\ phase' = "idle" /\ left' = 0 /\ call' = "sent"
      BY <1>4, <2>3 DEF Answer, Idle
    <3> QED
      BY <1>k, <3>1, <3>2, LrKnobs
         DEF LrInv, TypeOK, Granted, Trails, Early, Overdue, OverlapBounded
  <2> QED
    BY <2>2, <2>3
<1> USE <1>u, <1>k, LrUnaware, LrKnobs
<1> USE DEF TypeOK, Granted, Trails, Early, Overdue, OverlapBounded, Potential
<1>1. CASE Pass
  BY <1>1 DEF LrInv, Pass, AtMost, AtLeast
<1>11. CASE LaunchJob
  BY <1>11 DEF LrInv, LaunchJob
<1>2. CASE Tick
  BY <1>2 DEF LrInv, Tick
<1>3. CASE RenewLock
  BY <1>3 DEF LrInv, RenewLock, Renewed
<1>5. CASE Fail
  BY <1>5 DEF LrInv, Fail, Idle, Abandoned, AtMost
<1>6. CASE Reconnected
  BY <1>6 DEF LrInv, Reconnected, Idle
<1>7. CASE LateRenewLock
  BY <1>7 DEF LrInv, LateRenewLock, Renewed, worker
<1>8. CASE HandleStalled
  BY <1>8 DEF LrInv, HandleStalled, worker
<1>9. CASE End
  BY <1>9 DEF LrInv, End, Idle
<1>10. CASE UNCHANGED vars
  BY <1>10 DEF LrInv, vars
<1> QED
  BY <1>1, <1>2, <1>3, <1>4, <1>5, <1>6, <1>7, <1>8, <1>9, <1>10, <1>11 DEF Next

(* The inductive invariant holds in every reachable state.                 *)
THEOREM InvHolds == Spec => []LrInv
<1>1. Init => LrInv
  BY LrInit
<1>2. LrInv /\ [Next]_vars => LrInv'
  BY LrNext
<1> QED
  BY <1>1, <1>2, PTL DEF Spec

(* The worker's clocks stay in range: no renewal pushes lock_until beyond  *)
(* now() + lockDuration, whatever abandoned UPDATEs arrive.                *)
THEOREM TypeCorrect == Spec => []TypeOK
<1>1. LrInv => TypeOK
  BY DEF LrInv
<1> QED
  BY <1>1, InvHolds, PTL

(* runLockRenewalTick: a worker that heard of a renewal, no longer ago     *)
(* than lockDuration - callTimeout and not past the deadline, has the lock *)
(* (the answer of the claim may come too late to say so).                  *)
(* It would have been swept with a lease that Trails does not allow.       *)
THEOREM FreshWorkerKeepsLock == Spec => []FreshWorkerHasLock
<1>1. LrInv => FreshWorkerHasLock
  <2> SUFFICES ASSUME LrInv, mode = "running", heard, sinceOk < Deadline,
                      sinceOk <= LockDuration - CallTimeout, row # "ours"
               PROVE  FALSE
    BY DEF FreshWorkerHasLock
  <2>1. row = "swept" /\ overlap \in Nat /\ sinceOk \in Nat
    BY LrKnobs DEF LrInv, TypeOK
  <2>2. overlap <= sinceOk - (LockDuration - CallTimeout) - 1
    BY <2>1 DEF LrInv, Early
  <2> QED
    BY <2>1, <2>2, LrKnobs
<1> QED
  BY <1>1, InvHolds, PTL

(* launchJob and the stall detector: the handler of a worker that lost its *)
(* row runs on for at most Interval + 2 * CallTimeout, and what it may     *)
(* have run without the row before its deadline: CallTimeout less          *)
(* SafetyMargin after a renewal, up to Deadline before the first.          *)
THEOREM OverlapIsBounded == Spec => []OverlapBounded
<1>1. LrInv => OverlapBounded
  BY DEF LrInv
<1> QED
  BY <1>1, InvHolds, PTL
=============================================================================
