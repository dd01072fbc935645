--------------------------- MODULE ServicesProofs ---------------------------
(***************************************************************************)
(* Proofs about Services, for any sets and limits: what its runs check of  *)
(* the facts queue, of the ledger of a sync and of the supervised worker.  *)
(***************************************************************************)
EXTENDS Services, FiniteSetTheorems, TLAPS

(* Each part of the composition follows its own specification.             *)
LEMMA Projection == ServicesSpec => Spec /\ Cws!Spec /\ Fqu!Spec
<1>1. ServicesInit => Init /\ Cws!Init /\ Fqu!Init
  BY DEF ServicesInit
<1>2. [ServicesNext]_<<focus, vars, cwVars, fqVars>> =>
        [Next]_vars /\ [Cws!Next]_Cws!vars /\ [Fqu!Next]_Fqu!vars
  BY DEF ServicesNext, cwVars, fqVars, Cws!vars, Fqu!vars
<1> QED
  BY <1>1, <1>2, PTL DEF ServicesSpec, Spec, Cws!Spec, Fqu!Spec
-----------------------------------------------------------------------------
(* The facts queue: pending holds a session's jobs from the oldest to the  *)
(* newest, and is empty from the end of the drain or of shutdown on, when  *)
(* only jobs that overran the grace still run.                             *)
FqTypes ==
  /\ fqSent \in [Session -> Nat]
  /\ fqPending \in Seq(Fqu!Job)
  /\ fqInflight \subseteq Fqu!Job

FqOrdered ==
  /\ \A i \in DOMAIN fqPending : fqPending[i][2] <= fqSent[fqPending[i][1]]
  /\ \A i, k \in DOMAIN fqPending :
       i < k /\ fqPending[i][1] = fqPending[k][1] => fqPending[i][2] < fqPending[k][2]

FqQuiet ==
  fqStage \in {"drained", "closed"} => fqPending = <<>> /\ fqInflight \subseteq fqOverran

FqInv == FqTypes /\ FqOrdered /\ FqQuiet

(* A page is written.                                                      *)
LEMMA FqEnqueue == ASSUME FqInv, NEW s \in Session, Fqu!Enqueue(s) PROVE FqInv'
<1> DEFINE kept == IF Len(fqPending) >= Cap THEN Tail(fqPending) ELSE fqPending
<1>1. /\ fqPending \in Seq(Fqu!Job) /\ Len(fqPending) \in Nat
      /\ Cap \in Nat \ {0} /\ MaxJobs \in Nat
  BY ServicesAssumption DEF FqInv, FqTypes, Fqu!QueueConstants
<1>2. /\ kept \in Seq(Fqu!Job)
      /\ \E d \in {0, 1} : /\ Len(kept) = Len(fqPending) - d
                           /\ \A i \in 1 .. Len(kept) : kept[i] = fqPending[i + d]
  <2>1. CASE Len(fqPending) >= Cap
    <3>1. Len(fqPending) # 0 /\ fqPending # <<>>
      BY <1>1, <2>1
    <3>2. /\ Tail(fqPending) \in Seq(Fqu!Job) /\ Len(Tail(fqPending)) = Len(fqPending) - 1
          /\ \A i \in 1 .. Len(Tail(fqPending)) : Tail(fqPending)[i] = fqPending[i + 1]
      BY <1>1, <3>1
    <3> QED
      BY <2>1, <3>2
  <2>2. CASE ~(Len(fqPending) >= Cap)
    BY <1>1, <2>2
  <2> QED
    BY <2>1, <2>2
<1> HIDE DEF kept
<1>3. /\ fqSent' = [fqSent EXCEPT ![s] = fqSent[s] + 1] /\ fqSent[s] < MaxJobs
      /\ fqPending' = Append(kept, <<s, fqSent[s] + 1>>)
      /\ UNCHANGED <<fqInflight, fqStage>> /\ fqStage = "command"
  BY DEF Fqu!Enqueue, kept
<1>4. <<s, fqSent[s] + 1>> \in Fqu!Job
  BY <1>1, <1>3 DEF Fqu!Job, FqInv, FqTypes
<1>5. FqTypes' /\ FqQuiet'
  BY <1>2, <1>3, <1>4 DEF FqInv, FqTypes, FqQuiet
<1>6. FqOrdered'
  <2>1. PICK d \in {0, 1} : /\ Len(kept) = Len(fqPending) - d
                            /\ \A i \in 1 .. Len(kept) : kept[i] = fqPending[i + d]
    BY <1>2
  <2>2. /\ DOMAIN fqPending' = 1 .. Len(kept) + 1
        /\ \A i \in 1 .. Len(kept) : fqPending'[i] = kept[i]
        /\ fqPending'[Len(kept) + 1] = <<s, fqSent[s] + 1>>
    BY <1>2, <1>3, <1>4
  <2>3. \A i \in 1 .. Len(kept) :
          /\ i + d \in DOMAIN fqPending /\ fqPending'[i] = fqPending[i + d]
          /\ fqPending[i + d] \in Fqu!Job
    BY <1>1, <1>2, <2>1, <2>2
  <2>4. \A r \in Session : fqSent[r] \in Nat /\ fqSent'[r] >= fqSent[r]
    BY <1>3 DEF FqInv, FqTypes
  <2>5. fqSent'[s] = fqSent[s] + 1
    BY <1>3 DEF FqInv, FqTypes
  <2>6. \A i \in 1 .. Len(kept) :
          /\ fqPending'[i][1] \in Session /\ fqPending'[i][2] \in Nat
          /\ fqPending'[i][2] <= fqSent[fqPending'[i][1]]
    BY <2>3 DEF FqInv, FqOrdered, Fqu!Job
  <2>7. \A i, k \in 1 .. Len(kept) :
          i < k /\ fqPending'[i][1] = fqPending'[k][1] => fqPending'[i][2] < fqPending'[k][2]
    <3> SUFFICES ASSUME NEW i \in 1 .. Len(kept), NEW k \in 1 .. Len(kept), i < k,
                        fqPending'[i][1] = fqPending'[k][1]
                 PROVE  fqPending'[i][2] < fqPending'[k][2]
      OBVIOUS
    <3>1. i + d < k + d
      BY <1>2
    <3> QED
      BY <2>3, <3>1 DEF FqInv, FqOrdered
  <2>8. ASSUME NEW i \in DOMAIN fqPending' PROVE fqPending'[i][2] <= fqSent'[fqPending'[i][1]]
    <3>1. CASE i \in 1 .. Len(kept)
      <4>1. PICK r \in Session : fqPending'[i][1] = r
        BY <2>6, <3>1
      <4>2. fqPending'[i][2] \in Nat /\ fqPending'[i][2] <= fqSent[r]
        BY <2>6, <3>1, <4>1
      <4>3. fqSent[r] \in Nat /\ fqSent'[r] \in Nat /\ fqSent'[r] >= fqSent[r]
        BY <1>5, <2>4 DEF FqTypes
      <4> QED
        BY <4>1, <4>2, <4>3
    <3>2. CASE i = Len(kept) + 1
      BY <2>2, <2>4, <2>5, <3>2
    <3> QED
      BY <1>2, <2>2, <3>1, <3>2
  <2>9. ASSUME NEW i \in DOMAIN fqPending', NEW k \in DOMAIN fqPending', i < k,
               fqPending'[i][1] = fqPending'[k][1]
        PROVE  fqPending'[i][2] < fqPending'[k][2]
    <3>1. i \in 1 .. Len(kept) /\ (k \in 1 .. Len(kept) \/ k = Len(kept) + 1)
      BY <1>2, <2>2, <2>9
    <3>2. CASE k = Len(kept) + 1
      BY <2>2, <2>4, <2>6, <2>9, <3>1, <3>2
    <3> QED
      BY <2>7, <2>9, <3>1, <3>2
  <2> QED
    BY <2>8, <2>9 DEF FqOrdered
<1> QED
  BY <1>5, <1>6 DEF FqInv

(* A pump leaves the jobs it does not start in their order.                *)
LEMMA FqPump ==
  ASSUME FqInv, Fqu!Pump
  PROVE  /\ FqInv'
         /\ \A i \in DOMAIN fqPending' :
              \E k \in DOMAIN fqPending \ (IF fqShutting THEN {} ELSE Fqu!Startable) :
                fqPending'[i] = fqPending[k]
<1> DEFINE started == IF fqShutting THEN {} ELSE Fqu!Startable
           left == DOMAIN fqPending \ started
<1>1. fqPending \in Seq(Fqu!Job) /\ DOMAIN fqPending = 1 .. Len(fqPending) /\ Len(fqPending) \in Nat
  BY DEF FqInv, FqTypes
<1>2. IsFiniteSet(left) /\ Cardinality(left) \in Nat /\ (fqPending = <<>> => Cardinality(left) = 0)
  <2>1. IsFiniteSet(1 .. Len(fqPending)) /\ left \subseteq 1 .. Len(fqPending)
    BY <1>1, FS_Interval
  <2>2. fqPending = <<>> => left = {}
    BY <1>1
  <2> QED
    BY <2>1, <2>2, FS_EmptySet, FS_Subset, FS_CardinalityType
<1>3. started \subseteq DOMAIN fqPending
  BY DEF Fqu!Startable
<1>4. PICK at \in [1 .. Cardinality(left) -> left] :
        /\ \A k, m \in DOMAIN at : k < m => at[k] < at[m]
        /\ fqPending' = [k \in DOMAIN at |-> fqPending[at[k]]]
  <2>1. Fqu!Cardinality(left) = Cardinality(left)
    BY DEF Fqu!Cardinality, Cardinality
  <2> QED
    BY <2>1 DEF Fqu!Pump
<1>5. /\ fqInflight' = fqInflight \cup {fqPending[i] : i \in started}
      /\ UNCHANGED <<fqSent, fqStage, fqOverran>>
  BY DEF Fqu!Pump
<1>6. left \subseteq DOMAIN fqPending
  OBVIOUS
<1>7. SUFFICES /\ FqInv'
               /\ \A i \in DOMAIN fqPending' : \E k \in left : fqPending'[i] = fqPending[k]
  OBVIOUS
<1> HIDE DEF started, left
<1>8. DOMAIN fqPending' = 1 .. Cardinality(left)
  BY <1>4
<1>9. \A i \in DOMAIN fqPending' : at[i] \in left /\ fqPending'[i] = fqPending[at[i]]
  BY <1>4, <1>8
<1>10. fqPending' \in Seq(Fqu!Job)
  <2>1. \A i \in DOMAIN fqPending' : fqPending'[i] \in Fqu!Job
    BY <1>1, <1>6, <1>9
  <2>2. fqPending' = [i \in 1 .. Cardinality(left) |-> fqPending'[i]]
    BY <1>4, <1>8
  <2> QED
    BY <1>2, <1>8, <2>1, <2>2
<1>11. FqTypes'
  BY <1>1, <1>3, <1>5, <1>10 DEF FqInv, FqTypes
<1>12. FqOrdered'
  BY <1>1, <1>4, <1>5, <1>6, <1>8, <1>9 DEF FqInv, FqOrdered
<1>13. FqQuiet'
  <2>1. fqPending = <<>> => started = {} /\ fqPending' = <<>>
    BY <1>1, <1>2, <1>3, <1>8, <1>10
  <2> QED
    BY <1>5, <2>1 DEF FqInv, FqQuiet
<1> QED
  BY <1>9, <1>11, <1>12, <1>13 DEF FqInv

(* What a pump starts is the first pending job of a session that runs none.*)
LEMMA FqStarts ==
  ASSUME FqInv, Fqu!Pump, NEW j \in fqInflight' \ fqInflight
  PROVE  /\ {k \in fqInflight' : k[1] = j[1]} = {j}
         /\ \A k \in Fqu!Waiting' : k[1] = j[1] => k[2] > j[2]
<1>1. PICK i \in Fqu!Startable : j = fqPending[i] /\ ~fqShutting
  BY DEF Fqu!Pump
<1>2. fqInflight' = fqInflight \cup {fqPending[k] : k \in Fqu!Startable}
  BY <1>1 DEF Fqu!Pump
<1>3. /\ i \in DOMAIN fqPending /\ DOMAIN fqPending = 1 .. Len(fqPending)
      /\ \A k \in DOMAIN fqPending : fqPending[k] \in Session \X Nat
      /\ \A k \in fqInflight : k[1] # j[1]
      /\ \A k \in 1 .. i - 1 : fqPending[k][1] # j[1]
  BY <1>1 DEF FqInv, FqTypes, Fqu!Startable, Fqu!Running, Fqu!Job
<1>4. \A k \in Fqu!Startable : fqPending[k][1] = j[1] => k = i
  <2> SUFFICES ASSUME NEW k \in Fqu!Startable, fqPending[k][1] = j[1] PROVE k = i
    OBVIOUS
  <2>1. k \in 1 .. Len(fqPending) /\ \A m \in 1 .. k - 1 : fqPending[m][1] # j[1]
    BY <1>3 DEF Fqu!Startable
  <2> QED
    BY <1>1, <1>3, <2>1
<1>5. {k \in fqInflight' : k[1] = j[1]} = {j}
  BY <1>1, <1>2, <1>3, <1>4
<1>6. ASSUME NEW k \in Fqu!Waiting', k[1] = j[1] PROVE k[2] > j[2]
  <2>1. PICK m \in DOMAIN fqPending \ Fqu!Startable : k = fqPending[m]
    BY <1>1, <1>6, FqPump DEF Fqu!Waiting
  <2>2. i < m
    BY <1>1, <1>3, <1>6, <2>1
  <2>3. fqPending[i][2] < fqPending[m][2]
    BY <1>1, <1>3, <1>6, <2>1, <2>2 DEF FqInv, FqOrdered
  <2> QED
    BY <1>1, <1>3, <2>1, <2>3
<1> QED
  BY <1>5, <1>6

LEMMA FqStep == FqInv /\ [Fqu!Next]_Fqu!vars => FqInv'
<1> SUFFICES ASSUME FqInv, [Fqu!Next]_Fqu!vars PROVE FqInv'
  OBVIOUS
<1>1. ASSUME NEW j \in Fqu!Job, Fqu!Settle(j) PROVE FqInv'
  BY <1>1 DEF Fqu!Settle, FqInv, FqTypes, FqOrdered, FqQuiet
<1>2. CASE Fqu!Drain \/ Fqu!Drained \/ Fqu!Shutdown \/ Fqu!Disconnect
  BY <1>2 DEF Fqu!Drain, Fqu!Drained, Fqu!Shutdown, Fqu!Disconnect, FqInv, FqTypes, FqOrdered,
              FqQuiet
<1>3. CASE Fqu!Drop
  <2>1. fqPending' = <<>> /\ fqOverran' = fqInflight /\ UNCHANGED <<fqSent, fqInflight>>
    BY <1>3 DEF Fqu!Drop
  <2> QED
    BY <2>1 DEF FqInv, FqTypes, FqOrdered, FqQuiet
<1>4. CASE UNCHANGED Fqu!vars
  BY <1>4 DEF Fqu!vars, FqInv, FqTypes, FqOrdered, FqQuiet
<1> QED
  BY <1>1, <1>2, <1>3, <1>4, FqEnqueue, FqPump DEF Fqu!Next, Fqu!Teardown

LEMMA FqAlways == Fqu!Spec => []FqInv
<1>1. Fqu!Init => FqInv
  BY DEF Fqu!Init, FqInv, FqTypes, FqOrdered, FqQuiet
<1> QED
  BY <1>1, FqStep, PTL DEF Fqu!Spec

(* No sequence of page writes, settled jobs and microtasks, before or in   *)
(* the teardown, leaves a job that starts beside or after a newer one of   *)
(* its session (perSessionInflightCap is 1, and pump takes the first).     *)
THEOREM SessionsInOrderHolds == ServicesSpec => SessionsInOrder
<1>1. FqInv /\ [Fqu!Next]_Fqu!vars =>
        [\A j \in fqInflight' \ fqInflight :
           /\ {k \in fqInflight' : k[1] = j[1]} = {j}
           /\ \A k \in Fqu!Waiting' : k[1] = j[1] => k[2] > j[2]]_Fqu!vars
  <2> SUFFICES ASSUME FqInv, [Fqu!Next]_Fqu!vars,
                      NEW j \in fqInflight' \ fqInflight
               PROVE  /\ {k \in fqInflight' : k[1] = j[1]} = {j}
                      /\ \A k \in Fqu!Waiting' : k[1] = j[1] => k[2] > j[2]
    OBVIOUS
  <2>1. CASE Fqu!Pump
    BY <2>1, FqStarts
  <2>2. CASE ~Fqu!Pump
    <3>1. fqInflight' \subseteq fqInflight
      BY <2>2 DEF Fqu!Next, Fqu!vars, Fqu!Enqueue, Fqu!Settle, Fqu!Teardown, Fqu!Drain,
                  Fqu!Drained, Fqu!Shutdown, Fqu!Drop, Fqu!Disconnect
    <3> QED
      BY <3>1
  <2> QED
    BY <2>1, <2>2
<1> QED
  BY <1>1, FqAlways, Projection, PTL DEF SessionsInOrder, Fqu!SessionsInOrder, Fqu!Spec

(* At disconnect nothing is pending, and nothing runs but what outlasted   *)
(* the grace of shutdown, however the end of the drain falls between the   *)
(* end of a job and the pump that follows it.                              *)
THEOREM TeardownIsQuietHolds == ServicesSpec => []TeardownIsQuiet
<1>1. FqInv => TeardownIsQuiet
  BY DEF FqInv, FqQuiet, TeardownIsQuiet, Fqu!TeardownIsQuiet
<1> QED
  BY <1>1, FqAlways, Projection, PTL
-----------------------------------------------------------------------------
(* The sync: the bookmark is at the pin from the moment it moves until the *)
(* ledger is settled, and by then the rows of what failed carry that pin.  *)
RunType ==
  [pc : {"idle", "drain", "gate", "advance", "clear", "settle", "reconcile"},
   full : BOOLEAN, skip : BOOLEAN, from : Nat, pin : Nat,
   del : SUBSET Path, ren : SUBSET (Path \X Path), imp : SUBSET Path, done : SUBSET Path,
   pending : SUBSET Path, failed : SUBSET Path, ok : SUBSET Path,
   misses : Nat, dead : BOOLEAN]

File == [ver : Nat, of : Path \cup {Sentinel}, good : BOOLEAN]

CommitType == [line : SUBSET Nat, tree : [Path -> File]]

SyGit ==
  /\ commits \in Seq(CommitType)
  /\ head \in DOMAIN commits
  /\ \A c \in DOMAIN commits : c \in commits[c].line /\ commits[c].line \subseteq DOMAIN commits

RowType ==
  [state : {"none", "open", "acknowledged", "auto_skipped"}, tries : Nat, at : Nat]

CkptType == [1 .. MaxCommits -> [target : Nat, paths : SUBSET Path]]

SyMarks ==
  /\ saved \subseteq Path
  /\ anchor \in {0} \cup DOMAIN commits
  /\ Len(commits) <= MaxCommits
  /\ ckpt \in CkptType
  /\ \A c \in 1 .. MaxCommits : ckpt[c].target \in {0} \cup DOMAIN commits
  /\ ledger \in [Path \cup {Sentinel} -> RowType]

SyRun ==
  /\ run \in RunType
  /\ run.pc # "idle" => run.pin \in DOMAIN commits
  /\ run.pc # "idle" /\ ~run.full => run.from \in DOMAIN commits
  /\ run.full => run.del = {} /\ run.ren = {} /\ run.pc # "clear"
  /\ run.pc \in {"clear", "settle"} => anchor = run.pin
  /\ run.pc \in {"advance", "clear", "settle"} => \A p \in run.failed : ledger[p].at = run.pin

SyInv == SyGit /\ SyMarks /\ SyRun

(* The first commit, and no run.                                           *)
LEMMA SyInit == Init => SyInv
<1> SUFFICES ASSUME Init PROVE SyInv
  OBVIOUS
<1>1. MaxCommits \in Nat /\ MaxCommits > 0
  BY SyncConstants
<1>2. commits = <<[line |-> {1}, tree |-> [p \in Path |-> [ver |-> 1, of |-> p, good |-> TRUE]]]>>
  BY DEF Init
<1>3. SyGit
  <2> DEFINE first == [line |-> {1}, tree |-> [p \in Path |-> [ver |-> 1, of |-> p, good |-> TRUE]]]
  <2>1. first \in CommitType /\ first.line = {1}
    BY DEF CommitType, File
  <2> HIDE DEF first
  <2>2. commits = <<first>> /\ head = 1
    BY DEF Init, first
  <2> QED
    BY <2>1, <2>2 DEF SyGit
<1>4. SyMarks
  BY <1>1, <1>2 DEF Init, SyMarks, CkptType, NoCkpt, RowType, NoRow
<1>5. SyRun
  BY DEF Init, SyRun, RunType, Idle
<1> QED
  BY <1>3, <1>4, <1>5 DEF SyInv

(* A commit goes after the others.                                         *)
LEMMA SyCommit ==
  ASSUME SyInv, NEW tree \in [Path -> File], Commit(tree) PROVE SyInv'
<1>1. MaxCommits \in Nat /\ Len(commits) \in Nat /\ Len(commits) < MaxCommits
  BY SyncConstants DEF Commit, SyInv, SyGit
<1>2. PICK new : /\ commits' = Append(commits, new)
                 /\ new = [line |-> commits[head].line \cup {Len(commits) + 1}, tree |-> tree]
  BY DEF Commit
<1>3. new \in CommitType /\ new.line = commits[head].line \cup {Len(commits) + 1}
  BY <1>1, <1>2 DEF SyInv, SyGit, CommitType
<1>4. /\ commits' \in Seq(CommitType)
      /\ DOMAIN commits = 1 .. Len(commits)
      /\ Len(commits') = Len(commits) + 1 /\ DOMAIN commits' = 1 .. Len(commits) + 1
      /\ commits'[Len(commits) + 1] = new
      /\ \A c \in DOMAIN commits : commits'[c] = commits[c]
  BY <1>2, <1>3 DEF SyInv, SyGit
<1>5. head' = Len(commits) + 1 /\ UNCHANGED sync
  BY DEF Commit
<1>6. SyGit'
  <2>1. head' \in DOMAIN commits' /\ DOMAIN commits \subseteq DOMAIN commits'
    BY <1>1, <1>4, <1>5
  <2>2. ASSUME NEW c \in DOMAIN commits'
        PROVE  c \in commits'[c].line /\ commits'[c].line \subseteq DOMAIN commits'
    <3>1. CASE c \in DOMAIN commits
      BY <1>4, <2>1, <3>1 DEF SyInv, SyGit
    <3>2. CASE c = Len(commits) + 1
      BY <1>1, <1>3, <1>4, <2>1, <3>2 DEF SyInv, SyGit
    <3> QED
      BY <1>1, <1>4, <3>1, <3>2
  <2> QED
    BY <1>4, <2>1, <2>2 DEF SyGit
<1>7. /\ Len(commits') <= MaxCommits /\ DOMAIN commits \subseteq DOMAIN commits'
      /\ UNCHANGED <<saved, anchor, ckpt, ledger, run>>
  BY <1>1, <1>4, <1>5 DEF sync
<1>8. SyMarks'
  BY <1>7 DEF SyInv, SyMarks, CkptType
<1>9. SyRun'
  BY <1>7 DEF SyInv, SyRun
<1> QED
  BY <1>6, <1>8, <1>9 DEF SyInv

(* The other processes.                                                    *)
LEMMA SyWorld == ASSUME SyInv, World PROVE SyInv'
<1>1. CASE Reset
  BY <1>1 DEF Reset, SyInv, SyGit, SyMarks, SyRun, sync, CkptType, RunType
<1>2. Live \in [Path -> File] /\ \A c \in DOMAIN commits : Tree(c) \in [Path -> File]
  <2>1. \A c \in DOMAIN commits : commits[c] \in CommitType
    BY DEF SyInv, SyGit
  <2>2. \A c \in DOMAIN commits : commits[c].tree \in [Path -> File]
    BY <2>1 DEF CommitType
  <2> QED
    BY <2>2 DEF SyInv, SyGit, Live, Tree
<1>3. Gone \in File /\ \A p \in Path, good \in BOOLEAN : New(p, good) \in File
  BY DEF SyInv, SyGit, Gone, File, New
<1>4. ASSUME NEW p \in Path, Edit(p) PROVE SyInv'
  BY <1>2, <1>3, <1>4, SyCommit DEF Edit
<1>5. ASSUME NEW p \in Path, Delete(p) PROVE SyInv'
  BY <1>2, <1>3, <1>5, SyCommit DEF Delete
<1>6. ASSUME NEW p \in Path, Revert(p) PROVE SyInv'
  <2>1. PICK c \in DOMAIN commits : Commit([Live EXCEPT ![p] = Tree(c)[p]])
    BY <1>6 DEF Revert
  <2>2. [Live EXCEPT ![p] = Tree(c)[p]] \in [Path -> File]
    BY <1>2
  <2> QED
    BY <2>1, <2>2, SyCommit
<1>7. ASSUME NEW p \in Path, NEW q \in Path, Rename(p, q) PROVE SyInv'
  <2>1. [Live EXCEPT ![p] = Gone, ![q] = Live[p]] \in [Path -> File]
    BY <1>2, <1>3
  <2> QED
    BY <1>7, <2>1, SyCommit DEF Rename
<1> QED
  BY <1>1, <1>4, <1>5, <1>6, <1>7 DEF World

(* Acknowledging keeps rows what they are.                                 *)
LEMMA SyAcked ==
  ASSUME ledger \in [Path \cup {Sentinel} -> RowType]
  PROVE  /\ Acked(ledger) \in [Path \cup {Sentinel} -> RowType]
         /\ \A p \in Path : /\ Acked(ledger)[p].at = ledger[p].at
                            /\ Acked(ledger)[p].state \in {ledger[p].state, "acknowledged"}
BY DEF Acked, RowType

(* What the start of a sync reads in the checkpoint, and what it does then: *)
(* StartSync with a name for each of its local definitions.                *)
Spoilt         == ckpt[anchor].target # 0 /\ ~Reach(ckpt[anchor].target, head)
KeptOn(read)   == IF read = "ok" /\ Spoilt THEN NoCkpt ELSE ckpt[anchor]
Resumes(read)  == read = "ok" /\ KeptOn(read).target # 0
PinOn(read)    == IF Resumes(read) THEN KeptOn(read).target ELSE head
DoneOn(read)   == IF Resumes(read) THEN KeptOn(read).paths ELSE {}
NothingOn(read) ==
  Deleted(anchor, PinOn(read)) \cup Renamed(anchor, PinOn(read)) \cup Changed(anchor, PinOn(read)) = {}
DrainRun(skip, from, pin, done, del, ren, imp) ==
  [Idle EXCEPT !.pc = "drain", !.skip = skip, !.from = from,
               !.pin = pin, !.done = done, !.del = del, !.ren = ren, !.imp = imp]
DrainOn(read, skip) ==
  DrainRun(skip, anchor, PinOn(read), DoneOn(read),
           Deleted(anchor, PinOn(read)) \ DoneOn(read),
           {r \in Renamed(anchor, PinOn(read)) : r[2] \notin DoneOn(read)},
           Changed(anchor, PinOn(read)) \ DoneOn(read))
StartedOn(read, skip) ==
  /\ read = "failed" => "load" \in can /\ ckpt[anchor].target # 0
  /\ \/ /\ anchor = head
        /\ ckpt' = [ckpt EXCEPT ![anchor] = KeptOn(read)]
        /\ UNCHANGED <<anchor, run, faults>>
     \/ /\ anchor # head /\ NothingOn(read)
        /\ anchor' = PinOn(read)
        /\ \/ ckpt' = [ckpt EXCEPT ![anchor] = NoCkpt] /\ UNCHANGED faults
           \/ ckpt' = [ckpt EXCEPT ![anchor] = KeptOn(read)] /\ Fault("kill")
        /\ UNCHANGED run
     \/ /\ anchor # head /\ ~NothingOn(read)
        /\ run' = DrainOn(read, skip)
        /\ ckpt' = [ckpt EXCEPT ![anchor] = [target |-> PinOn(read), paths |-> KeptOn(read).paths]]
        /\ UNCHANGED <<anchor, faults>>
     \/ /\ anchor # head /\ ~NothingOn(read)
        /\ Fault("flush")
        /\ ckpt' = [ckpt EXCEPT ![anchor] = KeptOn(read)]
        /\ UNCHANGED <<anchor, run>>

LEMMA StartSyncReads ==
  ASSUME NEW skip, StartSync(skip)
  PROVE  \E read \in {"ok", "failed"} : StartedOn(read, skip)
BY Zenon DEF StartSync, StartedOn, Spoilt, KeptOn, Resumes, PinOn, DoneOn, NothingOn, DrainOn,
             DrainRun

(* The run that a drain starts with.                                       *)
LEMMA DrainType ==
  ASSUME NEW skip \in BOOLEAN, NEW f \in Nat, NEW p \in Nat, NEW done \in SUBSET Path,
         NEW del \in SUBSET Path, NEW ren \in SUBSET (Path \X Path), NEW imp \in SUBSET Path
  PROVE  /\ DrainRun(skip, f, p, done, del, ren, imp) \in RunType
         /\ DrainRun(skip, f, p, done, del, ren, imp).pc = "drain"
         /\ DrainRun(skip, f, p, done, del, ren, imp).from = f
         /\ DrainRun(skip, f, p, done, del, ren, imp).pin = p
         /\ ~DrainRun(skip, f, p, done, del, ren, imp).full
BY DEF RunType, Idle, DrainRun

(* The beginning of a run.                                                 *)
LEMMA SyStart ==
  ASSUME SyInv, NEW skip \in BOOLEAN, StartFull(skip) \/ StartSync(skip) PROVE SyInv'
<1>1. ledger' \in [Path \cup {Sentinel} -> RowType]
  BY SyAcked DEF StartFull, StartSync, Upfront, SyInv, SyMarks
<1>2. CASE StartFull(skip)
  <2>1. /\ run' \in RunType /\ run'.pc = "drain" /\ run'.full /\ run'.pin = head
        /\ run'.del = {} /\ run'.ren = {}
    <3>1. head \in Nat /\ saved \in SUBSET Path
      BY DEF SyInv, SyGit, SyMarks
    <3>2. {p \in Path : Live[p] # Gone} \ saved \in SUBSET Path
      OBVIOUS
    <3> HIDE DEF Live, Gone
    <3> QED
      BY <1>2, <3>1, <3>2 DEF StartFull, RunType, Idle
  <2> QED
    BY <1>1, <1>2, <2>1 DEF StartFull, git, SyInv, SyGit, SyMarks, SyRun
<1>3. CASE StartSync(skip)
  <2>1. PICK read \in {"ok", "failed"} : StartedOn(read, skip)
    BY <1>3, StartSyncReads
  <2> DEFINE kept == KeptOn(read)
             pin  == PinOn(read)
             done == DoneOn(read)
  <2>2. \/ /\ ckpt' = [ckpt EXCEPT ![anchor] = kept]
           /\ UNCHANGED <<anchor, run>>
        \/ /\ anchor' = pin
           /\ \E new \in {NoCkpt, kept} : ckpt' = [ckpt EXCEPT ![anchor] = new]
           /\ UNCHANGED run
        \/ /\ run' = DrainOn(read, skip)
           /\ ckpt' = [ckpt EXCEPT ![anchor] = [target |-> pin, paths |-> kept.paths]]
           /\ UNCHANGED anchor
    BY <2>1 DEF StartedOn
  <2>3. /\ anchor \in DOMAIN commits /\ anchor \in 1 .. MaxCommits /\ run.pc = "idle"
        /\ UNCHANGED <<git, saved>> /\ anchor \in Nat
    <3>1. anchor # 0 /\ run.pc = "idle" /\ UNCHANGED <<git, saved>>
      BY <1>3 DEF StartSync
    <3>2. DOMAIN commits = 1 .. Len(commits) /\ Len(commits) \in Nat
      BY DEF SyInv, SyGit
    <3> QED
      BY <3>1, <3>2, SyncConstants DEF SyInv, SyMarks
  <2>4. /\ kept \in [target : Nat, paths : SUBSET Path] /\ kept.target \in {0} \cup DOMAIN commits
        /\ pin \in DOMAIN commits /\ pin \in Nat
        /\ NoCkpt \in [target : Nat, paths : SUBSET Path] /\ NoCkpt.target = 0
    <3>1. ckpt[anchor] \in [target : Nat, paths : SUBSET Path]
          /\ ckpt[anchor].target \in {0} \cup DOMAIN commits
          /\ head \in DOMAIN commits /\ DOMAIN commits \subseteq Nat
      BY <2>3 DEF SyInv, SyGit, SyMarks, CkptType
    <3>2. NoCkpt \in [target : Nat, paths : SUBSET Path] /\ NoCkpt.target = 0
      BY DEF NoCkpt
    <3>3. kept \in {NoCkpt, ckpt[anchor]}
      BY DEF KeptOn
    <3>4. pin = head \/ (pin = kept.target /\ kept.target # 0)
      BY DEF PinOn, Resumes
    <3> HIDE DEF kept, pin
    <3> QED
      BY <3>1, <3>2, <3>3, <3>4
  <2>5. /\ Deleted(anchor, pin) \ done \in SUBSET Path /\ Changed(anchor, pin) \ done \in SUBSET Path
        /\ {r \in Renamed(anchor, pin) : r[2] \notin done} \in SUBSET (Path \X Path)
        /\ done \in SUBSET Path
    <3>1. done = {} \/ done = kept.paths
      BY DEF DoneOn
    <3> HIDE DEF kept, pin, done
    <3> QED
      BY <2>4, <3>1 DEF Deleted, Changed, Renamed
  <2>8. DrainOn(read, skip)
          = DrainRun(skip, anchor, pin, done, Deleted(anchor, pin) \ done,
                     {r \in Renamed(anchor, pin) : r[2] \notin done}, Changed(anchor, pin) \ done)
    BY Zenon DEF DrainOn
  <2> HIDE DEF kept, pin, done
  <2>6. /\ ckpt' \in CkptType
        /\ \A c \in 1 .. MaxCommits : ckpt'[c].target \in {0} \cup DOMAIN commits
        /\ anchor' \in DOMAIN commits
    <3>1. PICK new \in [target : Nat, paths : SUBSET Path] :
            ckpt' = [ckpt EXCEPT ![anchor] = new] /\ new.target \in {0} \cup DOMAIN commits
      BY <2>2, <2>4
    <3>2. anchor' \in {anchor, pin}
      BY <2>2
    <3> QED
      BY <2>3, <2>4, <3>1, <3>2 DEF SyInv, SyMarks, CkptType
  <2>7. SyRun'
    <3>1. CASE UNCHANGED run
      BY <2>3, <3>1 DEF SyInv, SyRun
    <3>2. CASE run' = DrainOn(read, skip)
      <4>1. /\ run' \in RunType /\ run'.pc = "drain" /\ run'.from = anchor /\ run'.pin = pin
            /\ ~run'.full
        BY <2>3, <2>4, <2>5, <2>8, <3>2, DrainType
      <4> QED
        BY <2>3, <2>4, <4>1 DEF SyRun, git
    <3> QED
      BY <2>2, <3>1, <3>2
  <2> QED
    BY <1>1, <2>3, <2>6, <2>7 DEF SyInv, SyGit, SyMarks, git
<1> QED
  BY <1>2, <1>3

(* What a flush and a mark leave alone.                                    *)
LEMMA SyFlush ==
  ASSUME SyInv, NEW r \in RunType, r.from \in DOMAIN commits, Flush(r)
  PROVE  /\ run' \in RunType /\ run'.pc = r.pc /\ run'.from = r.from /\ run'.pin = r.pin
         /\ run'.full = r.full /\ run'.failed = r.failed
         /\ ckpt' \in CkptType
         /\ \A c \in 1 .. MaxCommits : ckpt'[c].target = ckpt[c].target
<1>1. r.pending \in SUBSET Path /\ r.misses \in Nat /\ r.dead \in BOOLEAN
  BY DEF RunType
<1>2. r.from \in 1 .. MaxCommits /\ MaxCommits \in Nat
  BY SyncConstants DEF SyInv, SyGit, SyMarks
<1>3. CASE /\ run' = [r EXCEPT !.pending = {}, !.misses = 0]
           /\ ckpt' = [ckpt EXCEPT ![r.from].paths = @ \cup r.pending]
  <2>1. /\ run' \in RunType /\ run'.pc = r.pc /\ run'.from = r.from /\ run'.pin = r.pin
        /\ run'.full = r.full /\ run'.failed = r.failed
    BY <1>3 DEF RunType
  <2>2. ckpt' \in CkptType /\ \A c \in 1 .. MaxCommits : ckpt'[c].target = ckpt[c].target
    BY <1>1, <1>2, <1>3 DEF CkptType, SyInv, SyMarks
  <2> QED
    BY <2>1, <2>2
<1>4. CASE /\ run' = [r EXCEPT !.misses = @ + 1,
                                 !.dead = @ \/ r.misses + 1 >= MaxFlushFailures]
           /\ UNCHANGED ckpt
  <2> DEFINE d == r.dead \/ r.misses + 1 >= MaxFlushFailures
  <2>1. d \in BOOLEAN /\ r.misses + 1 \in Nat
    <3>1. d = TRUE \/ d = FALSE
      OBVIOUS
    <3> QED
      BY <1>1, <3>1
  <2>0. run' = [r EXCEPT !.misses = r.misses + 1, !.dead = d]
    BY <1>4
  <2> HIDE DEF d
  <2>2. /\ run' \in RunType /\ run'.pc = r.pc /\ run'.from = r.from /\ run'.pin = r.pin
        /\ run'.full = r.full /\ run'.failed = r.failed
    BY <2>0, <2>1 DEF RunType
  <2> QED
    BY <1>4, <2>2 DEF SyInv, SyMarks
<1> QED
  BY <1>3, <1>4 DEF Flush

LEMMA SyMark ==
  ASSUME SyInv, NEW p \in Path, NEW r \in RunType, r.from \in DOMAIN commits, Mark(p, r)
  PROVE  /\ run' \in RunType /\ run'.pc = r.pc /\ run'.from = r.from /\ run'.pin = r.pin
         /\ run'.full = r.full /\ run'.failed = r.failed
         /\ ckpt' \in CkptType
         /\ \A c \in 1 .. MaxCommits : ckpt'[c].target = ckpt[c].target
<1> DEFINE marked == [r EXCEPT !.done = @ \cup {p}, !.pending = @ \cup {p}]
<1>1. /\ marked \in RunType /\ marked.pc = r.pc /\ marked.from = r.from /\ marked.pin = r.pin
      /\ marked.full = r.full /\ marked.failed = r.failed
  BY DEF RunType
<1>2. CASE Flush(marked)
  BY <1>1, <1>2, SyFlush
<1>3. CASE run' = marked /\ UNCHANGED ckpt
  BY <1>1, <1>3 DEF SyInv, SyMarks
<1> QED
  BY <1>2, <1>3 DEF Mark

(* The steps of a run that drains.                                         *)
LEMMA SyHandles ==
  ASSUME SyInv, NEW p \in Path, NEW r \in Path \X Path,
         DeleteOne(p) \/ RenameOne(r) \/ ImportOne(p) \/ ImportWalked(p)
  PROVE  SyInv'
<1>1. /\ run \in RunType /\ run.pc = "drain" /\ run.pin \in DOMAIN commits
      /\ ~run.full => run.from \in DOMAIN commits
  BY DEF DeleteOne, RenameOne, ImportOne, ImportWalked, SyInv, SyRun
<1>2. SUFFICES /\ run' \in RunType /\ run'.pc = "drain" /\ run'.pin \in DOMAIN commits
               /\ ~run'.full => run'.from \in DOMAIN commits
               /\ run'.full => run'.del = {} /\ run'.ren = {}
               /\ saved' \subseteq Path
               /\ ckpt' \in CkptType
               /\ \A c \in 1 .. MaxCommits : ckpt'[c].target = ckpt[c].target
  <2>1. UNCHANGED <<git, anchor, ledger>>
    BY DEF DeleteOne, RenameOne, ImportOne, ImportWalked
  <2> QED
    BY <1>2, <2>1 DEF git, SyInv, SyGit, SyMarks, SyRun
<1>3. CASE DeleteOne(p)
  <2> DEFINE rest == [run EXCEPT !.del = @ \ {p}]
  <2>1. /\ rest \in RunType /\ rest.pc = run.pc /\ rest.from = run.from /\ rest.pin = run.pin
        /\ rest.full = run.full
    BY <1>1 DEF RunType
  <2>2. ~run.full /\ saved' = saved
    BY <1>3 DEF DeleteOne, SyInv, SyRun
  <2>3. CASE Mark(p, rest)
    BY <1>1, <2>1, <2>2, <2>3, SyMark DEF SyInv, SyMarks
  <2>4. CASE run' = [rest EXCEPT !.failed = @ \cup {p}] /\ UNCHANGED ckpt
    BY <1>1, <2>1, <2>2, <2>4 DEF RunType, SyInv, SyMarks
  <2> QED
    BY <1>3, <2>3, <2>4 DEF DeleteOne
<1>4. CASE RenameOne(r)
  <2> DEFINE rest == [run EXCEPT !.ren = @ \ {r}]
  <2>1. /\ rest \in RunType /\ rest.pc = run.pc /\ rest.from = run.from /\ rest.pin = run.pin
        /\ rest.full = run.full
    BY <1>1 DEF RunType
  <2>2. ~run.full /\ saved' = saved /\ Mark(r[2], rest) /\ r[2] \in Path
    BY <1>4 DEF RenameOne, SyInv, SyRun
  <2> QED
    BY <1>1, <2>1, <2>2, SyMark DEF SyInv, SyMarks
<1>5. CASE ImportOne(p)
  <2> DEFINE rest == [run EXCEPT !.imp = @ \ {p}]
             good == [rest EXCEPT !.ok = @ \cup {p}]
  <2>1. /\ rest \in RunType /\ rest.pc = run.pc /\ rest.from = run.from
        /\ rest.pin = run.pin /\ rest.full = run.full
    BY <1>1 DEF RunType
  <2>2. /\ good \in RunType /\ good.pc = run.pc /\ good.from = run.from
        /\ good.pin = run.pin /\ good.full = run.full
    BY <1>1 DEF RunType
  <2>3. ~run.full /\ saved' = saved
    BY <1>5 DEF ImportOne
  <2>4. CASE \E x \in {rest, good} : Mark(p, x)
    BY <1>1, <2>1, <2>2, <2>3, <2>4, SyMark DEF SyInv, SyMarks
  <2>5. CASE run' = [rest EXCEPT !.failed = @ \cup {p}] /\ UNCHANGED ckpt
    BY <1>1, <2>1, <2>3, <2>5 DEF RunType, SyInv, SyMarks
  <2> QED
    BY <1>5, <2>4, <2>5 DEF ImportOne
<1>6. CASE ImportWalked(p)
  <2> DEFINE text == Live[p]
             fits == text # Gone /\ text.good
             done == IF fits THEN run.done \cup {p} ELSE run.done
             failed == IF fits THEN run.failed ELSE run.failed \cup {p}
  <2>1. /\ run' = [run EXCEPT !.imp = @ \ {p}, !.done = done, !.failed = failed]
        /\ saved' = done \/ saved' = saved
        /\ UNCHANGED ckpt /\ run.full
    BY <1>1, <1>6 DEF ImportWalked, RunType
  <2>2. done \in SUBSET Path /\ failed \in SUBSET Path /\ run.imp \ {p} \in SUBSET Path
    BY <1>1 DEF RunType
  <2>3. run.del = {} /\ run.ren = {}
    BY <2>1 DEF SyInv, SyRun
  <2> HIDE DEF done, failed
  <2>4. /\ run' \in RunType /\ run'.pc = run.pc /\ run'.pin = run.pin /\ run'.full = run.full
        /\ run'.del = run.del /\ run'.ren = run.ren
    BY <1>1, <2>1, <2>2 DEF RunType
  <2> QED
    BY <1>1, <2>1, <2>2, <2>3, <2>4 DEF SyInv, SyMarks
<1> QED
  BY <1>3, <1>4, <1>5, <1>6

(* The end of the drain.                                                   *)
LEMMA SyDrained == ASSUME SyInv, Drained PROVE SyInv'
<1>1. /\ run \in RunType /\ run.pc = "drain" /\ run.pin \in DOMAIN commits
      /\ ~run.full => run.from \in DOMAIN commits
      /\ UNCHANGED <<git, anchor, ledger>>
  BY DEF Drained, SyInv, SyRun
<1>2. CASE run' = Idle /\ UNCHANGED <<ckpt, saved>>
  BY <1>1, <1>2 DEF git, SyInv, SyGit, SyMarks, SyRun, RunType, Idle
<1> DEFINE gate == [run EXCEPT !.pc = "gate"]
<1>3. /\ gate \in RunType /\ gate.pc = "gate" /\ gate.from = run.from /\ gate.pin = run.pin
      /\ gate.full = run.full /\ gate.del = run.del /\ gate.ren = run.ren
  BY <1>1 DEF RunType
<1>4. CASE ~run.full /\ Flush(gate) /\ UNCHANGED saved
  BY <1>1, <1>3, <1>4, SyFlush DEF git, SyInv, SyGit, SyMarks, SyRun
<1>5. CASE run' = gate /\ UNCHANGED ckpt /\ saved' \in {{}, saved}
  BY <1>1, <1>3, <1>5 DEF git, SyInv, SyGit, SyMarks, SyRun
<1> QED
  BY <1>2, <1>4, <1>5 DEF Drained

(* The gate writes the pin into the row of whatever failed.                *)
LEMMA SyGate == ASSUME SyInv, Gate PROVE SyInv'
<1>1. /\ run \in RunType /\ run.pc = "gate" /\ run.pin \in DOMAIN commits
      /\ ~run.full => run.from \in DOMAIN commits
      /\ UNCHANGED <<git, anchor, ckpt, saved>>
  BY DEF Gate, SyInv, SyRun
<1>2. ledger' \in [Path \cup {Sentinel} -> RowType] /\ \A p \in run.failed : ledger'[p].at = run.pin
  <2>1. PICK failing : run.failed \subseteq failing /\ ledger' = Recorded(failing)
    BY DEF Gate
  <2>2. ASSUME NEW p \in Path \cup {Sentinel} PROVE ledger'[p] \in RowType
    <3>1. ledger[p] \in RowType /\ NoRow \in RowType /\ run.pin \in Nat
      BY <1>1 DEF SyInv, SyMarks, RowType, NoRow, RunType
    <3>2. ledger'[p] \in {ledger[p], NoRow}
          \/ \E n \in Nat : ledger'[p] = [state |-> "open", at |-> run.pin, tries |-> n]
      <4> DEFINE kept == IF p \in Resolved THEN NoRow ELSE ledger[p]
      <4>1. kept \in RowType
        BY <3>1
      <4>2. ledger'[p] = IF p \notin failing THEN kept
                         ELSE [state |-> "open", at |-> run.pin,
                               tries |-> IF kept.state = "open" THEN kept.tries + 1 ELSE 1]
        BY <2>1 DEF Recorded, SyInv, SyMarks
      <4>3. (IF kept.state = "open" THEN kept.tries + 1 ELSE 1) \in Nat
        BY <4>1 DEF RowType
      <4>4. kept \in {ledger[p], NoRow}
        OBVIOUS
      <4> HIDE DEF kept
      <4> QED
        BY <4>2, <4>3, <4>4
    <3>3. \A n \in Nat : [state |-> "open", at |-> run.pin, tries |-> n] \in RowType
      BY <3>1 DEF RowType
    <3> QED
      BY <3>1, <3>2, <3>3
  <2>3. DOMAIN ledger' = Path \cup {Sentinel} /\ ledger' = [p \in DOMAIN ledger' |-> ledger'[p]]
    BY <2>1 DEF Recorded, SyInv, SyMarks
  <2>4. \A p \in run.failed : ledger'[p].at = run.pin
    BY <1>1, <2>1 DEF Recorded, SyInv, SyMarks, RunType
  <2> QED
    BY <2>2, <2>3, <2>4
<1>3. CASE run' = [run EXCEPT !.pc = "advance"]
  BY <1>1, <1>2, <1>3 DEF git, SyInv, SyGit, SyMarks, SyRun, RunType
<1>4. CASE run' = Idle
  BY <1>1, <1>2, <1>4 DEF git, SyInv, SyGit, SyMarks, SyRun, RunType, Idle
<1> QED
  BY <1>3, <1>4 DEF Gate

(* The steps after the gate, and the early end.                            *)
LEMMA SyAfter ==
  ASSUME SyInv, Advance \/ ClearCheckpoint \/ Settle \/ Reconcile \/ Stop PROVE SyInv'
<1>1. CASE Advance
  <2>1. /\ run' \in RunType /\ run'.pin = run.pin /\ run'.failed = run.failed
        /\ run'.full = run.full /\ run'.from = run.from
        /\ run'.del = run.del /\ run'.ren = run.ren
        /\ run'.pc = IF run.full THEN "settle" ELSE "clear"
    BY <1>1 DEF Advance, SyInv, SyRun, RunType
  <2> QED
    BY <1>1, <2>1 DEF Advance, git, SyInv, SyGit, SyMarks, SyRun
<1>2. CASE ClearCheckpoint
  <2>1. /\ run' \in RunType /\ run'.pin = run.pin /\ run'.failed = run.failed
        /\ run'.full = run.full /\ run'.from = run.from /\ run'.pc = "settle"
        /\ run'.del = run.del /\ run'.ren = run.ren
    BY <1>2 DEF ClearCheckpoint, SyInv, SyRun, RunType
  <2>2. ckpt' \in CkptType /\ \A c \in 1 .. MaxCommits : ckpt'[c].target \in {0, ckpt[c].target}
    BY <1>2 DEF ClearCheckpoint, SyInv, SyMarks, CkptType, NoCkpt
  <2> QED
    BY <1>2, <2>1, <2>2 DEF ClearCheckpoint, git, SyInv, SyGit, SyMarks, SyRun
<1>3. CASE Settle
  <2>0. ledger' \in [Path \cup {Sentinel} -> RowType]
    <3>1. ledger \in [Path \cup {Sentinel} -> RowType]
      BY DEF SyInv, SyMarks
    <3>2. ASSUME NEW p \in Path \cup {Sentinel}
          PROVE  [ledger[p] EXCEPT !.state = "auto_skipped"] \in RowType
      BY <3>1 DEF RowType
    <3> QED
      BY <1>3, <3>1, <3>2, SyAcked DEF Settle
  <2>1. CASE run' = Idle
    BY <1>3, <2>0, <2>1 DEF Settle, git, SyInv, SyGit, SyMarks, SyRun, RunType, Idle
  <2>2. CASE run' = [run EXCEPT !.pc = "reconcile"]
    BY <1>3, <2>0, <2>2 DEF Settle, git, SyInv, SyGit, SyMarks, SyRun, RunType
  <2> QED
    BY <1>3, <2>1, <2>2 DEF Settle
<1>4. CASE Reconcile
  BY <1>4 DEF Reconcile, git, SyInv, SyGit, SyMarks, SyRun, RunType, Idle
<1>5. CASE Stop
  <2>1. CASE UNCHANGED ckpt
    BY <1>5, <2>1 DEF Stop, git, SyInv, SyGit, SyMarks, SyRun, RunType, Idle
  <2>2. CASE /\ ~run.full /\ run.pc = "drain"
             /\ ckpt' = [ckpt EXCEPT ![run.from].paths = @ \cup run.pending]
    <3>1. /\ run.from \in 1 .. MaxCommits /\ run.pending \in SUBSET Path
      BY <2>2, SyncConstants DEF SyInv, SyGit, SyMarks, SyRun, RunType
    <3>2. ckpt' \in CkptType /\ \A c \in 1 .. MaxCommits : ckpt'[c].target = ckpt[c].target
      BY <2>2, <3>1 DEF SyInv, SyMarks, CkptType
    <3> QED
      BY <1>5, <3>2 DEF Stop, git, SyInv, SyGit, SyMarks, SyRun, RunType, Idle
  <2> QED
    BY <1>5, <2>1, <2>2 DEF Stop
<1> QED
  BY <1>1, <1>2, <1>3, <1>4, <1>5

LEMMA SyStep == SyInv /\ [Next]_vars => SyInv'
<1> SUFFICES ASSUME SyInv, [Next]_vars PROVE SyInv'
  OBVIOUS
<1>1. CASE UNCHANGED vars
  BY <1>1 DEF vars, git, sync, SyInv, SyGit, SyMarks, SyRun, CkptType, RunType
<1>2. ASSUME NEW p \in Path, DeleteOne(p) \/ ImportOne(p) \/ ImportWalked(p) PROVE SyInv'
  <2>1. <<p, p>> \in Path \X Path
    OBVIOUS
  <2> QED
    BY <1>2, <2>1, SyHandles
<1>3. ASSUME NEW r \in Path \X Path, RenameOne(r) PROVE SyInv'
  <2>1. r[1] \in Path
    OBVIOUS
  <2> QED
    BY <1>3, <2>1, SyHandles
<1> QED
  BY <1>1, <1>2, <1>3, SyWorld, SyStart, SyDrained, SyGate, SyAfter DEF Next, SyncStep

(* However kills, a moving HEAD and a rewritten history fall between the   *)
(* steps of a run, a file is marked auto_skipped only when the bookmark is *)
(* past the commit at which it failed: Settle comes after Advance, and the *)
(* rows it marks carry this run's pin.                                     *)
THEOREM SkipsFollowBookmarkHolds == ServicesSpec => SkipsFollowBookmark
<1>1. SyInv /\ [Next]_vars =>
        [\A p \in Path :
           ledger'[p].state = "auto_skipped" /\ ledger[p].state # "auto_skipped"
             => Reach(ledger'[p].at, anchor)]_vars
  <2> SUFFICES ASSUME SyInv, Next, NEW p \in Path,
                      ledger'[p].state = "auto_skipped", ledger[p].state # "auto_skipped"
               PROVE  Reach(ledger'[p].at, anchor)
    OBVIOUS
  <2>1. CASE Settle
    <3>1. p \in run.failed /\ ledger'[p].at = ledger[p].at /\ run.pc = "settle"
      BY <2>1, SyAcked DEF Settle, RowType, SyInv, SyMarks
    <3> QED
      BY <3>1 DEF SyInv, SyGit, SyRun, Reach
  <2>2. CASE Gate
    BY <2>2 DEF Gate, Recorded, NoRow, SyInv, SyMarks
  <2>3. CASE \E skip \in BOOLEAN : StartFull(skip) \/ StartSync(skip)
    BY <2>3, SyAcked DEF StartFull, StartSync, Upfront, SyInv, SyMarks
  <2>4. CASE World
    BY <2>4 DEF World, Reset, Edit, Delete, Revert, Rename, Commit, sync
  <2> QED
    BY <2>1, <2>2, <2>3, <2>4 DEF Next, SyncStep, DeleteOne, ImportOne, ImportWalked, RenameOne,
       Drained, Advance, ClearCheckpoint, Reconcile, Stop
<1> QED
  BY <1>1, SyInit, SyStep, Projection, PTL DEF Spec, SkipsFollowBookmark

(* What TypeOK says beyond SyInv: rows name commits that exist, contents   *)
(* were written by one, what waits for a flush is done, faults are counted *)
(* to their bound.                                                         *)
Booked  == \A p \in Path \cup {Sentinel} : ledger[p].at \in {0} \cup DOMAIN commits
Written ==
  /\ page \in [Path -> Content]
  /\ \A c \in DOMAIN commits : commits[c].tree \in [Path -> Content]
Banked  == run.pending \subseteq run.done
Counted == faults \in 0 .. MaxFaults

SyShape == Booked /\ Written /\ Banked /\ Counted

LEMMA ShapeInit == Init => SyShape
<1> SUFFICES ASSUME Init PROVE SyShape
  OBVIOUS
<1>1. MaxCommits \in Nat /\ MaxCommits > 0 /\ MaxFaults \in Nat
  BY SyncConstants
<1> DEFINE tree == [p \in Path |-> [ver |-> 1, of |-> p, good |-> TRUE]]
           first == [line |-> {1}, tree |-> tree]
<1>2. tree \in [Path -> Content] /\ Gone \in Content
  BY <1>1 DEF Content, Gone
<1>3. first.tree = tree
  OBVIOUS
<1> HIDE DEF first
<1>4. commits = <<first>>
  BY DEF Init, first
<1> HIDE DEF tree
<1>5. Written
  <2>1. commits[1].tree = tree /\ DOMAIN commits = {1}
    BY <1>3, <1>4
  <2>2. page \in [Path -> Content]
    BY <1>2, <2>1 DEF Init
  <2> QED
    BY <1>2, <2>1, <2>2 DEF Written
<1>6. Booked /\ Banked /\ Counted
  BY <1>1 DEF Init, Booked, Banked, Counted, NoRow, Idle
<1> QED
  BY <1>5, <1>6 DEF SyShape

(* A fault is played only below the bound.                                 *)
LEMMA CountedStep == Counted /\ [Next]_vars => Counted'
<1> SUFFICES ASSUME Counted, [Next]_vars PROVE Counted'
  OBVIOUS
<1>1. MaxFaults \in Nat
  BY SyncConstants
<1>2. faults' = faults \/ \E kind : Fault(kind)
  <2>1. CASE World
    BY <2>1 DEF World, Reset, Edit, Delete, Revert, Rename, Commit
  <2>2. CASE \E skip \in BOOLEAN : StartFull(skip)
    BY <2>2 DEF StartFull
  <2>3. ASSUME NEW skip \in BOOLEAN, StartSync(skip) PROVE faults' = faults \/ \E kind : Fault(kind)
    BY <2>3, StartSyncReads DEF StartedOn
  <2>4. ASSUME NEW r, Flush(r) PROVE faults' = faults \/ \E kind : Fault(kind)
    BY <2>4 DEF Flush
  <2>5. ASSUME NEW p, NEW r, Mark(p, r) PROVE faults' = faults \/ \E kind : Fault(kind)
    BY <2>4, <2>5 DEF Mark
  <2>6. CASE \E p \in Path : DeleteOne(p) \/ ImportOne(p) \/ ImportWalked(p)
    BY <2>5, <2>6 DEF DeleteOne, ImportOne, ImportWalked
  <2>7. CASE \E r \in Path \X Path : RenameOne(r)
    BY <2>5, <2>7 DEF RenameOne
  <2>8. CASE Drained
    BY <2>4, <2>8 DEF Drained
  <2>9. CASE Gate \/ Advance \/ ClearCheckpoint \/ Settle \/ Reconcile \/ Stop
    BY <2>9 DEF Gate, Advance, ClearCheckpoint, Settle, Reconcile, Stop
  <2> QED
    BY <2>1, <2>2, <2>3, <2>6, <2>7, <2>8, <2>9 DEF Next, SyncStep, vars
<1> QED
  BY <1>1, <1>2 DEF Counted, Fault

(* What waits for a flush was marked as done in the same step.             *)
LEMMA BankedFlush ==
  ASSUME NEW r \in RunType, r.pending \subseteq r.done, Flush(r) PROVE Banked'
BY DEF Flush, Banked, RunType

LEMMA BankedMark ==
  ASSUME NEW p \in Path, NEW r \in RunType, r.pending \subseteq r.done, Mark(p, r) PROVE Banked'
<1> DEFINE marked == [r EXCEPT !.done = @ \cup {p}, !.pending = @ \cup {p}]
<1>1. marked \in RunType /\ marked.pending \subseteq marked.done
  BY DEF RunType
<1>2. CASE Flush(marked)
  BY <1>1, <1>2, BankedFlush
<1>3. CASE run' = marked
  BY <1>1, <1>3 DEF Banked
<1> QED
  BY <1>2, <1>3 DEF Mark

LEMMA BankedStep == SyInv /\ Banked /\ [Next]_vars => Banked'
<1> SUFFICES ASSUME SyInv, Banked, [Next]_vars PROVE Banked'
  OBVIOUS
<1>1. run \in RunType /\ run.pending \subseteq run.done
  BY DEF SyInv, SyRun, Banked
<1>2. ASSUME run' = run \/ run' = Idle
             \/ \E pc : run' = [run EXCEPT !.pc = pc]
      PROVE  Banked'
  BY <1>1, <1>2 DEF Banked, Idle, RunType
<1>3. CASE World \/ UNCHANGED vars
  BY <1>2, <1>3 DEF World, Reset, Edit, Delete, Revert, Rename, Commit, sync, vars
<1>4. ASSUME NEW skip \in BOOLEAN, StartFull(skip) PROVE Banked'
  BY <1>4 DEF StartFull, Banked, Idle
<1>5. ASSUME NEW skip \in BOOLEAN, StartSync(skip) PROVE Banked'
  <2>1. run' = run \/ run'.pending = {}
    BY <1>5, StartSyncReads DEF StartedOn, DrainOn, DrainRun, Idle
  <2> QED
    BY <1>1, <2>1 DEF Banked
<1>6. ASSUME NEW p \in Path, DeleteOne(p) PROVE Banked'
  <2> DEFINE rest == [run EXCEPT !.del = @ \ {p}]
  <2>1. rest \in RunType /\ rest.pending \subseteq rest.done
    BY <1>1 DEF RunType
  <2>2. CASE Mark(p, rest)
    BY <2>1, <2>2, BankedMark
  <2>3. CASE run' = [rest EXCEPT !.failed = @ \cup {p}]
    BY <1>1, <2>3 DEF Banked, RunType
  <2> QED
    BY <1>6, <2>2, <2>3 DEF DeleteOne
<1>7. ASSUME NEW p \in Path, ImportOne(p) PROVE Banked'
  <2> DEFINE rest == [run EXCEPT !.imp = @ \ {p}]
             good == [rest EXCEPT !.ok = @ \cup {p}]
  <2>1. /\ rest \in RunType /\ rest.pending \subseteq rest.done
        /\ good \in RunType /\ good.pending \subseteq good.done
    BY <1>1 DEF RunType
  <2>2. CASE \E x \in {rest, good} : Mark(p, x)
    BY <2>1, <2>2, BankedMark
  <2>3. CASE run' = [rest EXCEPT !.failed = @ \cup {p}]
    BY <1>1, <2>3 DEF Banked, RunType
  <2> QED
    BY <1>7, <2>2, <2>3 DEF ImportOne
<1>8. ASSUME NEW p \in Path, ImportWalked(p) PROVE Banked'
  <2>1. run'.pending = run.pending /\ run.done \subseteq run'.done
    BY <1>1, <1>8 DEF ImportWalked, RunType
  <2> QED
    BY <1>1, <2>1 DEF Banked
<1>9. ASSUME NEW r \in Path \X Path, RenameOne(r) PROVE Banked'
  <2> DEFINE rest == [run EXCEPT !.ren = @ \ {r}]
  <2>1. rest \in RunType /\ rest.pending \subseteq rest.done /\ r[2] \in Path
    BY <1>1 DEF RunType
  <2> QED
    BY <1>9, <2>1, BankedMark DEF RenameOne
<1>10. CASE Drained
  <2> DEFINE gate == [run EXCEPT !.pc = "gate"]
  <2>1. gate \in RunType /\ gate.pending \subseteq gate.done
    BY <1>1 DEF RunType
  <2>2. CASE Flush(gate)
    BY <2>1, <2>2, BankedFlush
  <2> QED
    BY <1>2, <1>10, <2>2 DEF Drained
<1>11. CASE Gate \/ Advance \/ ClearCheckpoint \/ Settle \/ Reconcile \/ Stop
  BY <1>2, <1>11 DEF Gate, Advance, ClearCheckpoint, Settle, Reconcile, Stop
<1> QED
  BY <1>3, <1>4, <1>5, <1>6, <1>7, <1>8, <1>9, <1>10, <1>11 DEF Next, SyncStep

(* Rows get the pin of a run, which exists.                                *)
LEMMA BookedStep == SyInv /\ Booked /\ [Next]_vars => Booked'
<1> SUFFICES ASSUME SyInv, Booked, [Next]_vars PROVE Booked'
  OBVIOUS
<1>1. DOMAIN commits \subseteq DOMAIN commits'
  <2>1. CASE UNCHANGED commits
    BY <2>1
  <2>2. CASE \E tree : Commit(tree)
    BY <2>2 DEF Commit, SyInv, SyGit
  <2> QED
    BY <2>1, <2>2 DEF Next, World, Reset, Edit, Delete, Revert, Rename, SyncStep, StartFull, StartSync,
       DeleteOne, ImportOne, ImportWalked, RenameOne, Drained, Gate, Advance, ClearCheckpoint,
       Settle, Reconcile, Stop, vars, git
<1>2. SUFFICES \A p \in Path \cup {Sentinel} :
                 ledger'[p].at \in {0, ledger[p].at} \/ (run.pc = "gate" /\ ledger'[p].at = run.pin)
  <2>1. run.pc = "gate" => run.pin \in DOMAIN commits
    BY DEF SyInv, SyRun
  <2> QED
    BY <1>1, <1>2, <2>1 DEF Booked
<1>3. ledger \in [Path \cup {Sentinel} -> RowType]
  BY DEF SyInv, SyMarks
<1>4. \A p \in Path \cup {Sentinel} : Acked(ledger)[p].at = ledger[p].at
  BY <1>3 DEF Acked, RowType
<1>5. CASE UNCHANGED ledger
  BY <1>5
<1>6. CASE \E skip \in BOOLEAN : StartFull(skip) \/ StartSync(skip)
  BY <1>4, <1>6 DEF StartFull, StartSync, Upfront
<1>7. CASE Gate
  <2>1. PICK failing : ledger' = Recorded(failing)
    BY <1>7 DEF Gate
  <2>2. ASSUME NEW p \in Path \cup {Sentinel} PROVE ledger'[p].at \in {0, ledger[p].at, run.pin}
    <3> DEFINE kept == IF p \in Resolved THEN NoRow ELSE ledger[p]
               n == IF kept.state = "open" THEN kept.tries + 1 ELSE 1
    <3>1. ledger'[p] = IF p \notin failing THEN kept
                       ELSE [state |-> "open", at |-> run.pin, tries |-> n]
      BY <1>3, <2>1 DEF Recorded
    <3>2. kept.at \in {0, ledger[p].at}
      BY DEF NoRow
    <3> HIDE DEF kept, n
    <3> QED
      BY <3>1, <3>2
  <2> QED
    BY <1>7, <2>2 DEF Gate
<1>8. CASE Settle
  BY <1>3, <1>4, <1>8 DEF Settle, RowType
<1> QED
  BY <1>5, <1>6, <1>7, <1>8
     DEF Next, World, Reset, Edit, Delete, Revert, Rename, Commit, SyncStep, DeleteOne, ImportOne,
         ImportWalked, RenameOne, Drained, Advance, ClearCheckpoint, Reconcile, Stop, sync, vars

(* The trees of new commits, and pages, are made of contents there are.    *)
LEMMA WrittenCommit ==
  ASSUME SyInv, Written, NEW tree \in [Path -> Content], Commit(tree) PROVE Written'
<1>1. PICK new : /\ commits' = Append(commits, new)
                 /\ new = [line |-> commits[head].line \cup {Len(commits) + 1}, tree |-> tree]
  BY DEF Commit
<1>2. new.tree = tree
  BY <1>1
<1>3. /\ DOMAIN commits' = DOMAIN commits \cup {Len(commits) + 1}
      /\ commits'[Len(commits) + 1] = new
      /\ \A c \in DOMAIN commits : commits'[c] = commits[c]
  BY <1>1 DEF SyInv, SyGit
<1>4. UNCHANGED page
  BY DEF Commit, sync
<1> QED
  BY <1>2, <1>3, <1>4 DEF Written

LEMMA WrittenWorld == ASSUME SyInv, Written, World PROVE Written'
<1>1. CASE Reset
  BY <1>1 DEF Reset, Written, sync
<1>2. Live \in [Path -> Content] /\ \A c \in DOMAIN commits : Tree(c) \in [Path -> Content]
  BY DEF Written, SyInv, SyGit, Live, Tree
<1>3. Gone \in Content
  BY SyncConstants DEF Gone, Content
<1>4. ASSUME NEW p \in Path, Edit(p) PROVE Written'
  <2>1. PICK good \in BOOLEAN : Commit([Live EXCEPT ![p] = New(p, good)])
    BY <1>4 DEF Edit
  <2>2. New(p, good) \in Content
    BY <2>1, SyncConstants DEF New, Content, Commit, SyInv, SyGit
  <2>3. [Live EXCEPT ![p] = New(p, good)] \in [Path -> Content]
    BY <1>2, <2>2
  <2> QED
    BY <2>1, <2>3, WrittenCommit
<1>5. ASSUME NEW p \in Path, Delete(p) PROVE Written'
  <2>1. [Live EXCEPT ![p] = Gone] \in [Path -> Content]
    BY <1>2, <1>3
  <2> QED
    BY <1>5, <2>1, WrittenCommit DEF Delete
<1>6. ASSUME NEW p \in Path, Revert(p) PROVE Written'
  <2>1. PICK c \in DOMAIN commits : Commit([Live EXCEPT ![p] = Tree(c)[p]])
    BY <1>6 DEF Revert
  <2>2. [Live EXCEPT ![p] = Tree(c)[p]] \in [Path -> Content]
    BY <1>2
  <2> QED
    BY <2>1, <2>2, WrittenCommit
<1>7. ASSUME NEW p \in Path, NEW q \in Path, Rename(p, q) PROVE Written'
  <2>1. [Live EXCEPT ![p] = Gone, ![q] = Live[p]] \in [Path -> Content]
    BY <1>2, <1>3
  <2> QED
    BY <1>7, <2>1, WrittenCommit DEF Rename
<1> QED
  BY <1>1, <1>4, <1>5, <1>6, <1>7 DEF World

LEMMA WrittenStep == SyInv /\ Written /\ [Next]_vars => Written'
<1> SUFFICES ASSUME SyInv, Written, [Next]_vars PROVE Written'
  OBVIOUS
<1>1. Live \in [Path -> Content] /\ Gone \in Content /\ page \in [Path -> Content]
  BY SyncConstants DEF Written, SyInv, SyGit, Live, Tree, Gone, Content
<1>2. ASSUME page' \in [Path -> Content], UNCHANGED git PROVE Written'
  BY <1>2 DEF Written, git
<1>3. CASE World
  BY <1>3, WrittenWorld
<1>4. CASE UNCHANGED <<page, git>>
  BY <1>1, <1>2, <1>4
<1>5. ASSUME NEW p \in Path, DeleteOne(p) \/ ImportOne(p) \/ ImportWalked(p) PROVE Written'
  <2>1. page' = page \/ page' = [page EXCEPT ![p] = Gone] \/ page' = [page EXCEPT ![p] = Live[p]]
    BY <1>5 DEF DeleteOne, ImportOne, ImportWalked
  <2>2. UNCHANGED git
    BY <1>5 DEF DeleteOne, ImportOne, ImportWalked
  <2> QED
    BY <1>1, <1>2, <2>1, <2>2
<1>6. ASSUME NEW r \in Path \X Path, RenameOne(r) PROVE Written'
  <2>1. Moved(r) \in [Path -> Content] /\ r[2] \in Path
    BY <1>1 DEF Moved
  <2>2. page' = Moved(r) \/ page' = [Moved(r) EXCEPT ![r[2]] = Live[r[2]]]
    BY <1>6 DEF RenameOne
  <2>3. UNCHANGED git
    BY <1>6 DEF RenameOne
  <2> QED
    BY <1>1, <1>2, <2>1, <2>2, <2>3
<1>7. CASE Reconcile
  BY <1>1, <1>2, <1>7 DEF Reconcile
<1>8. CASE Stop
  <2>1. UNCHANGED git /\ (page' = page \/ \E r \in run.ren : page' = Moved(r))
    BY <1>8 DEF Stop
  <2>2. run.ren \subseteq Path \X Path
    BY DEF SyInv, SyRun, RunType
  <2>3. ASSUME NEW r \in Path \X Path PROVE Moved(r) \in [Path -> Content]
    BY <1>1 DEF Moved
  <2> QED
    BY <1>1, <1>2, <2>1, <2>2, <2>3
<1> QED
  BY <1>3, <1>4, <1>5, <1>6, <1>7, <1>8
     DEF Next, SyncStep, StartFull, StartSync, Drained, Gate, Advance, ClearCheckpoint, Settle,
         sync, vars

(* Whatever the world does, bookmarks, checkpoints and rows name commits   *)
(* there are, and a run banks only what it has done.                       *)
THEOREM SyncTypeCorrect == ServicesSpec => []TypeOK
<1>1. SyShape /\ SyInv /\ [Next]_vars => SyShape'
  BY CountedStep, BankedStep, BookedStep, WrittenStep DEF SyShape
<1>2. SyInv /\ SyShape => TypeOK
  <2> SUFFICES ASSUME SyInv, SyShape PROVE TypeOK
    OBVIOUS
  <2>1. ckpt \in [1 .. MaxCommits -> [target : {0} \cup DOMAIN commits, paths : SUBSET Path]]
    BY DEF SyInv, SyMarks, CkptType
  <2>2. ledger \in [Path \cup {Sentinel} ->
                     [state : {"none", "open", "acknowledged", "auto_skipped"},
                      tries : Nat, at : {0} \cup DOMAIN commits]]
    BY DEF SyInv, SyMarks, RowType, SyShape, Booked
  <2>3. /\ run.pc \in {"idle", "drain", "gate", "advance", "clear", "settle", "reconcile"}
        /\ run.del \cup run.imp \cup run.done \cup run.failed \cup run.ok \subseteq Path
    BY DEF SyInv, SyRun, RunType
  <2> QED
    BY <2>1, <2>2, <2>3 DEF TypeOK, SyInv, SyGit, SyMarks, SyShape, Written, Banked, Counted
<1> QED
  BY <1>1, <1>2, ShapeInit, SyInit, SyStep, Projection, PTL DEF Spec
-----------------------------------------------------------------------------
(* The supervised worker.  A signal goes to the worker that runs, a         *)
(* restart that waits is about that one only if it had the SIGTERM, and    *)
(* what was counted as a crash is the end of a worker that got no signal.  *)
CwTypes ==
  /\ cwLoop \in {"spawn", "up", "backoff", "ended", "gaveUp"}
  /\ cwCount \in Nat /\ cwChild \in Nat /\ cwCaptured \in Nat
  /\ cwCrashes \in Nat /\ cwWedges \in Nat /\ cwAgainst \in Nat
  /\ cwIntentional \in BOOLEAN /\ cwStopping \in BOOLEAN

(* The worker that runs is the last one; signals went to no other.         *)
CwCurrent ==
  /\ cwChild <= cwCount /\ cwCaptured <= cwCount
  /\ cwChild # 0 <=> cwLoop = "up"
  /\ cwSignalled \subseteq {cwChild} \ {0}
  /\ cwDoomed \subseteq cwSignalled

(* The restart is about the worker that runs only if it got the SIGTERM.   *)
CwCaptured ==
  cwHealth = "restarting" /\ cwCaptured = cwChild /\ cwChild # 0 => cwChild \in cwSignalled

(* The counter of wedged checks does not run ahead of the checks.          *)
CwJudged == cwWedges <= cwAgainst \/ cwAgainst >= Checks

(* A crash that was counted is one of a worker that crashed by itself: an  *)
(* exit is intentional when the worker had a signal, and only then.        *)
CwCounted ==
  /\ IsFiniteSet(cwFailed)
  /\ cwFailed \subseteq 1 .. cwCount
  /\ cwChild \notin cwFailed
  /\ ~cwStopping => (cwIntentional <=> cwChild # 0 /\ cwChild \in cwSignalled)
  /\ ~cwStopping \/ cwLoop = "gaveUp" => cwCrashes <= Cardinality(cwFailed)
  /\ cwLoop = "gaveUp" => cwStopping /\ cwCrashes >= MaxCrashes

CwInv == CwTypes /\ CwCurrent /\ CwCaptured /\ CwJudged /\ CwCounted
(* No worker ran yet.                                                      *)
LEMMA CwInit == Cws!Init => CwInv
<1> SUFFICES ASSUME Cws!Init PROVE CwInv
  OBVIOUS
<1>1. CwTypes /\ CwJudged
  <2>1. /\ cwLoop = "spawn" /\ cwCount = 0 /\ cwChild = 0 /\ cwCaptured = 0 /\ cwCrashes = 0
        /\ cwWedges = 0 /\ cwAgainst = 0
    BY DEF Cws!Init
  <2>2. cwIntentional \in BOOLEAN /\ cwStopping \in BOOLEAN
    BY DEF Cws!Init
  <2> QED
    BY <2>1, <2>2 DEF CwTypes, CwJudged
<1>2. CwCurrent /\ CwCaptured
  BY DEF Cws!Init, CwCurrent, CwCaptured
<1>3. CwCounted
  <2>1. IsFiniteSet(cwFailed) /\ Cardinality(cwFailed) = 0
    BY FS_EmptySet DEF Cws!Init
  <2>2. cwCrashes = 0 /\ cwFailed = {} /\ cwChild = 0 /\ cwIntentional = FALSE /\ cwLoop = "spawn"
    BY DEF Cws!Init
  <2> QED
    BY <2>1, <2>2 DEF CwCounted
<1> QED
  BY <1>1, <1>2, <1>3 DEF CwInv

(* One more worker crashed.                                                *)
LEMMA OneMore ==
  ASSUME NEW S, IsFiniteSet(S), NEW w, w \notin S
  PROVE  IsFiniteSet(S \cup {w}) /\ Cardinality(S \cup {w}) = Cardinality(S) + 1
BY FS_AddElement

(* Spawning.                                                               *)
LEMMA CwSpawn == ASSUME CwInv, Cws!Spawn PROVE CwInv'
<1>1. CwTypes' /\ CwCaptured' /\ CwJudged'
  BY DEF CwInv, CwTypes, CwCurrent, CwCaptured, CwJudged, Cws!Spawn
<1>2. CwCurrent'
  BY DEF CwInv, CwTypes, CwCurrent, Cws!Spawn
<1>3. CwCounted'
  BY DEF CwInv, CwTypes, CwCurrent, CwCounted, Cws!Spawn
<1> QED
  BY <1>1, <1>2, <1>3 DEF CwInv

(* A spawn that fails is a crash.                                          *)
LEMMA CwSpawnFails == ASSUME MaxCrashes \in Nat, CwInv, Cws!SpawnFails PROVE CwInv'
<1>1. CwTypes'
  BY DEF CwInv, CwTypes, Cws!SpawnFails, Cws!Continue, Cws!watch
<1>2. CwCurrent' /\ CwCaptured' /\ CwJudged'
  BY DEF CwInv, CwTypes, CwCurrent, CwCaptured, CwJudged, Cws!SpawnFails, Cws!Continue, Cws!watch
<1>3. CwCounted'
  <2>1. cwCount + 1 \notin cwFailed
    BY DEF CwInv, CwTypes, CwCounted, Cws!SpawnFails
  <2>2. IsFiniteSet(cwFailed') /\ Cardinality(cwFailed') = Cardinality(cwFailed) + 1
    BY <2>1, OneMore DEF CwInv, CwCounted, Cws!SpawnFails
  <2>3. Cardinality(cwFailed) \in Nat
    BY FS_CardinalityType DEF CwInv, CwCounted
  <2>4. cwCrashes' <= Cardinality(cwFailed')
    BY <2>2, <2>3 DEF CwInv, CwTypes, CwCounted, Cws!SpawnFails
  <2>5. cwChild = 0 /\ cwChild' = cwChild /\ ~cwIntentional'
    BY DEF CwInv, CwTypes, CwCurrent, CwCounted, Cws!SpawnFails
  <2>6. cwFailed' \subseteq 1 .. cwCount' /\ cwChild' \notin cwFailed'
    BY <2>5 DEF CwInv, CwTypes, CwCounted, Cws!SpawnFails
  <2>7. cwLoop' = "gaveUp" => cwStopping' /\ cwCrashes' >= MaxCrashes
    BY DEF Cws!SpawnFails, Cws!Continue
  <2> QED
    BY <2>2, <2>4, <2>5, <2>6, <2>7 DEF CwCounted
<1> QED
  BY <1>1, <1>2, <1>3 DEF CwInv

(* What an exit does to the counts, while the supervisor is not stopping.  *)
LEMMA CwTally ==
  ASSUME CwInv, NEW kind \in {"clean", "short", "long"}, Cws!Exit(kind), ~cwStopping
  PROVE  cwCrashes' <= Cardinality(cwFailed')
<1>1. /\ IsFiniteSet(cwFailed) /\ Cardinality(cwFailed) \in Nat
      /\ cwCrashes \in Nat /\ cwCrashes <= Cardinality(cwFailed)
      /\ cwChild \notin cwFailed
      /\ cwIntentional \in BOOLEAN /\ (cwIntentional <=> cwChild \in cwSignalled)
  BY FS_CardinalityType DEF CwInv, CwTypes, CwCounted, Cws!Exit
<1>2. CASE cwIntentional \/ kind = "clean"
  BY <1>1, <1>2 DEF Cws!Exit, Cws!Tally
<1>3. CASE ~cwIntentional /\ kind = "short"
  <2>1. cwCrashes' = cwCrashes + 1 /\ cwFailed' = cwFailed \cup {cwChild}
    BY <1>1, <1>3 DEF Cws!Exit, Cws!Tally
  <2> QED
    BY <1>1, <2>1, OneMore
<1>4. CASE ~cwIntentional /\ kind = "long"
  <2>1. cwCrashes' = 1 /\ cwFailed' = {cwChild}
    BY <1>1, <1>4 DEF Cws!Exit, Cws!Tally
  <2>2. Cardinality(cwFailed') = 1
    BY <2>1, FS_Singleton
  <2> QED
    BY <2>1, <2>2
<1> QED
  BY <1>1, <1>2, <1>3, <1>4

(* An exit.                                                                *)
LEMMA CwExit ==
  ASSUME MaxCrashes \in Nat, CwInv, NEW kind \in {"clean", "short", "long"}, Cws!Exit(kind)
  PROVE  CwInv'
<1>1. cwCrashes' \in Nat
  BY DEF CwInv, CwTypes, Cws!Exit, Cws!Tally
<1>2. CwTypes'
  BY <1>1 DEF CwInv, CwTypes, Cws!Exit, Cws!Tally, Cws!Continue
<1>3. CwCurrent' /\ CwCaptured' /\ CwJudged'
  BY DEF CwInv, CwTypes, CwCurrent, CwCaptured, CwJudged, Cws!Exit, Cws!Continue
<1>4. CwCounted'
  <2>1. cwChild \in 1 .. cwCount /\ cwChild' = 0 /\ cwCount' = cwCount
    BY DEF CwInv, CwTypes, CwCurrent, Cws!Exit
  <2>2. cwFailed' \in {cwFailed, {cwChild}, cwFailed \cup {cwChild}}
    BY DEF Cws!Exit
  <2>3. IsFiniteSet(cwFailed') /\ cwFailed' \subseteq 1 .. cwCount' /\ cwChild' \notin cwFailed'
    <3>1. IsFiniteSet(cwFailed) /\ cwFailed \subseteq 1 .. cwCount /\ cwChild \notin cwFailed
      BY DEF CwInv, CwCounted
    <3>2. IsFiniteSet(cwFailed')
      <4>1. IsFiniteSet({cwChild}) /\ IsFiniteSet(cwFailed \cup {cwChild})
        BY <3>1, OneMore, FS_Singleton
      <4> QED
        BY <3>1, <4>1, <2>2
    <3>3. cwFailed' \subseteq 1 .. cwCount'
      BY <3>1, <2>1, <2>2
    <3> QED
      BY <2>1, <3>2, <3>3
  <2>4. CASE cwStopping
    BY <2>3, <2>4 DEF CwCounted, Cws!Exit, Cws!Continue
  <2>5. CASE ~cwStopping
    <3>1. ~cwIntentional'
      BY <2>5 DEF Cws!Exit, Cws!Tally
    <3>2. cwLoop' = "gaveUp" => cwStopping' /\ cwCrashes' >= MaxCrashes
      BY DEF Cws!Exit, Cws!Continue
    <3> QED
      BY <2>1, <2>3, <2>5, <3>1, <3>2, CwTally DEF CwCounted
  <2> QED
    BY <2>4, <2>5 DEF CwInv, CwTypes
<1> QED
  BY <1>2, <1>3, <1>4 DEF CwInv

(* A check that finds the worker wedged ...                                *)
LEMMA CwWedged ==
  ASSUME Cws!Conclude, Cws!Wedged
  PROVE  /\ cwAgainst' = IF cwAgainst = Checks THEN Checks ELSE cwAgainst + 1
         /\ cwWedges' = IF cwWedges + 1 >= Checks THEN 0 ELSE cwWedges + 1
BY DEF Cws!Conclude, Cws!Wedged

(* ... and one that finds it well, or does not find out.                   *)
LEMMA CwOther ==
  ASSUME Cws!Conclude, ~Cws!Wedged
  PROVE  /\ UNCHANGED <<cwWedges, cwAgainst>> \/ (cwWedges' = 0 /\ cwAgainst' = 0)
         /\ UNCHANGED <<cwCaptured, cwIntentional, cwSignalled, cwDoomed>>
BY DEF Cws!Conclude

(* The answer to a health check.                                           *)
LEMMA CwConclude == ASSUME Checks \in Nat, CwInv, Cws!Conclude PROVE CwInv'
<1>1. CwTypes' /\ CwJudged'
  <2>1. CASE Cws!Wedged
    <3>1. cwWedges' \in Nat /\ cwAgainst' \in Nat /\ CwJudged'
      BY <2>1, CwWedged DEF CwInv, CwTypes, CwJudged
    <3>2. cwCaptured' \in Nat /\ cwIntentional' \in BOOLEAN
      BY <2>1 DEF CwInv, CwTypes, Cws!Conclude, Cws!Escalate
    <3> QED
      BY <3>1, <3>2 DEF CwInv, CwTypes, Cws!Conclude
  <2>2. CASE ~Cws!Wedged
    BY <2>2, CwOther DEF CwInv, CwTypes, CwJudged, Cws!Conclude
  <2> QED
    BY <2>1, <2>2
<1>2. CwCurrent' /\ CwCaptured'
  BY DEF CwInv, CwTypes, CwCurrent, CwCaptured, Cws!Conclude, Cws!Wedged, Cws!Escalate
<1>3. CwCounted'
  BY DEF CwInv, CwTypes, CwCurrent, CwCounted, Cws!Conclude, Cws!Wedged, Cws!Escalate
<1> QED
  BY <1>1, <1>2, <1>3 DEF CwInv

(* Every step preserves the invariant.                                     *)
LEMMA CwNext ==
  ASSUME MaxCrashes \in Nat, Checks \in Nat PROVE CwInv /\ [Cws!Next]_Cws!vars => CwInv'
<1> SUFFICES ASSUME CwInv, [Cws!Next]_Cws!vars PROVE CwInv'
  OBVIOUS
<1>1. CASE Cws!Wake
  BY <1>1 DEF Cws!Wake, Cws!watch, CwInv, CwTypes, CwCurrent, CwCaptured, CwJudged, CwCounted
<1>2. CASE Cws!Stop
  BY <1>2 DEF Cws!Stop, Cws!watch, CwInv, CwTypes, CwCurrent, CwCaptured, CwJudged, CwCounted
<1>3. CASE Cws!Ask
  BY <1>3 DEF Cws!Ask, CwInv, CwTypes, CwCurrent, CwCaptured, CwJudged, CwCounted
<1>4. CASE Cws!Kill
  <2>1. CwTypes' /\ CwCurrent' /\ CwCaptured' /\ CwJudged'
    BY <1>4 DEF Cws!Kill, CwInv, CwTypes, CwCurrent, CwCaptured, CwJudged
  <2>2. CwCounted'
    BY <1>4 DEF Cws!Kill, CwInv, CwCounted
  <2> QED
    BY <2>1, <2>2 DEF CwInv
<1>5. CASE Cws!Age
  BY <1>5 DEF Cws!Age, Cws!watch, CwInv, CwTypes, CwCurrent, CwCaptured, CwJudged, CwCounted
<1>6. CASE Cws!Forget
  BY <1>6 DEF Cws!Forget, CwInv, CwTypes, CwCurrent, CwCaptured, CwJudged, CwCounted
<1>7. CASE UNCHANGED Cws!vars
  BY <1>7 DEF Cws!vars, CwInv, CwTypes, CwCurrent, CwCaptured, CwJudged, CwCounted
<1> QED
  BY <1>1, <1>2, <1>3, <1>4, <1>5, <1>6, <1>7, CwSpawn, CwSpawnFails, CwExit, CwConclude
     DEF Cws!Next

(* Whoever gets a signal runs, and had been judged.                        *)
LEMMA CwSignal ==
  ASSUME Checks \in Nat, CwInv, [Cws!Next]_Cws!vars
  PROVE  [\A w \in (cwSignalled' \cup cwDoomed') \ (cwSignalled \cup cwDoomed) :
            w = cwChild /\ cwAgainst' >= Checks]_Cws!vars
<1>1. CASE Cws!Conclude
  <2>1. CASE cwSignalled' = cwSignalled
    BY <1>1, <2>1 DEF Cws!Conclude
  <2>2. CASE cwSignalled' # cwSignalled
    <3>1. /\ Cws!Wedged /\ cwWedges + 1 >= Checks
          /\ cwSignalled' = cwSignalled \cup {cwChild} /\ cwDoomed' = cwDoomed
      BY <1>1, <2>2 DEF Cws!Conclude, Cws!Escalate
    <3>2. cwAgainst' >= Checks
      BY <1>1, <3>1, CwWedged DEF CwInv, CwTypes, CwJudged
    <3> QED
      BY <3>1, <3>2
  <2> QED
    BY <2>1, <2>2
<1>2. CASE Cws!Kill
  BY <1>2 DEF Cws!Kill, CwInv, CwTypes, CwCurrent, CwCaptured
<1>3. CASE \E kind \in {"clean", "short", "long"} : Cws!Exit(kind)
  BY <1>3 DEF Cws!Exit
<1>4. CASE Cws!Spawn \/ Cws!SpawnFails \/ Cws!Wake \/ Cws!Stop \/ Cws!Ask \/ Cws!Age \/ Cws!Forget
  BY <1>4 DEF Cws!Spawn, Cws!SpawnFails, Cws!Wake, Cws!Stop, Cws!Ask, Cws!Age, Cws!Forget, Cws!watch
<1> QED
  BY <1>1, <1>2, <1>3, <1>4 DEF Cws!Next

LEMMA CwLimits == MaxCrashes \in Nat /\ Checks \in Nat
BY ServicesAssumption DEF Cws!WorkerConstants

(* However spawns, exits, checks and restarts interleave, a signal of the  *)
(* health check reaches only the worker that was found wedged Checks times *)
(* (restartCurrentChild captures the worker before it awaits).             *)
THEOREM KillsWhatItJudgedHolds == ServicesSpec => KillsWhatItJudged
<1>1. Cws!Init => CwInv
  BY CwInit
<1>2. CwInv /\ [Cws!Next]_Cws!vars => CwInv'
  BY CwLimits, CwNext
<1>3. CwInv /\ [Cws!Next]_Cws!vars =>
        [\A w \in (cwSignalled' \cup cwDoomed') \ (cwSignalled \cup cwDoomed) :
           w = cwChild /\ cwAgainst' >= Checks]_Cws!vars
  BY CwLimits, CwSignal
<1> QED
  BY <1>1, <1>2, <1>3, Projection, PTL DEF Cws!Spec, KillsWhatItJudged, Cws!KillsWhatItJudged

(* The supervisor gives up for crashes of as many workers as MaxCrashes    *)
(* says, with no long run in between, and for nothing the health check did.*)
THEOREM GivesUpOnCrashesOnlyHolds == ServicesSpec => []GivesUpOnCrashesOnly
<1>1. Cws!Init => CwInv
  BY CwInit
<1>2. CwInv /\ [Cws!Next]_Cws!vars => CwInv'
  BY CwLimits, CwNext
<1>3. CwInv => GivesUpOnCrashesOnly
  <2>1. Cws!Cardinality(cwFailed) = Cardinality(cwFailed)
    BY DEF Cws!Cardinality, Cardinality
  <2>2. CwInv /\ cwLoop = "gaveUp" => Cardinality(cwFailed) >= MaxCrashes
    BY CwLimits, FS_CardinalityType DEF CwInv, CwTypes, CwCounted
  <2> QED
    BY <2>1, <2>2 DEF GivesUpOnCrashesOnly, Cws!GivesUpOnCrashesOnly
<1> QED
  BY <1>1, <1>2, <1>3, Projection, PTL DEF Cws!Spec
=============================================================================
