------------------------- MODULE MinionFamilyProofs -------------------------
(***************************************************************************)
(* Proofs about MinionQueue that relate rows to each other, to the claims  *)
(* in the workers, and to what a step makes of them: how a row may move,   *)
(* who is told when a child settles, and when a parent is woken.           *)
(*                                                                         *)
(* Each action is looked at once, in a lemma that says what it does to     *)
(* every row (Moves); the invariants and the lifecycle follow from that.   *)
(***************************************************************************)
EXTENDS MinionQueueProofs, AgentFanOut

(* The columns a step leaves alone, or clears.                             *)
Keeps(o, n) ==
  /\ n.started = o.started
  /\ n.token \in {o.token, NoToken}
  /\ n.parent \in {o.parent, NoJob}

(* A row goes on as it was, opens or closes; nothing is charged to it.     *)
Turns(o, n) ==
  /\ Keeps(o, n) /\ n.made = o.made /\ n.result = o.result
  /\ o.status # "absent"
  /\ \/ n.status = o.status
     \/ IsOpen(o) /\ n.status \in OpenStatus \ {"active"}
     \/ IsOpen(o) /\ n.status \in {"failed", "dead"}
     \/ IsOpen(o) /\ n.status = "cancelled" /\ (n.token = NoToken \/ "fallback" \in Ops)
     \/ o.status \in {"failed", "dead"} /\ n.status \in OpenStatus \ {"active"}
     \/ o.status = "cancelled" /\ o.token # NoToken /\ n.status = "delayed"

(* The attempt of an active row is charged.                                *)
Burns(o, n) ==
  /\ Keeps(o, n) /\ n.made = o.made + 1 /\ n.result = o.result /\ n.token = NoToken
  /\ o.status = "active" /\ n.status \in {"delayed", "dead"}

Finishes(o, n) ==
  /\ Keeps(o, n) /\ n.made = o.made /\ n.result = o.started /\ n.token = NoToken
  /\ o.status = "active" /\ n.status = "completed"

Goes(o, n) == o.status \in Terminal \cup {"active"} /\ n = NoRow

Moves(o, n) == n = o \/ Turns(o, n) \/ Burns(o, n) \/ Finishes(o, n) \/ Goes(o, n)

(* What Resolve and the orphaning of DeleteRows add to a move.             *)
Follows(m, n) ==
  \/ n = m
  \/ /\ Keeps(m, n) /\ n.token = m.token /\ n.made = m.made /\ n.result = m.result
     /\ m.status # "absent"
     /\ n.status = m.status \/ (m.status = "waiting-children" /\ n.status = "waiting")

LEMMA MoveThenFollow ==
  ASSUME NEW o \in SoundRow, NEW m \in SoundRow, NEW n \in SoundRow,
         Moves(o, m), Follows(m, n)
  PROVE  Moves(o, n)
<1>1. CASE n = m
  BY <1>1
<1>2. CASE n # m
  <2>1. m # NoRow
    BY <1>2 DEF Follows, NoRow
  <2> QED
    BY <1>2, <2>1 DEF Moves, Follows, Turns, Burns, Finishes, Goes, Keeps, IsOpen, OpenStatus,
                      NoJob, NoToken
<1> QED
  BY <1>1, <1>2

LEMMA FollowResolve ==
  ASSUME NEW tbl \in [Job -> SoundRow], NEW P, NEW k \in Job
  PROVE  Follows(tbl[k], Resolve(tbl, P)[k])
BY DEF Resolve, Follows, Keeps, SoundRow, Row

LEMMA FollowDelete ==
  ASSUME NEW tbl \in [Job -> SoundRow], NEW S \in SUBSET Job, NEW k \in Job, k \notin S,
         tbl[k].status = "absent" => tbl[k] = NoRow
  PROVE  Follows(tbl[k], DeleteRows(tbl, S)[k])
<1>1. CASE tbl[k].parent \in S
  <2>1. tbl[k].status # "absent" /\ tbl[k] \in Row
    BY <1>1 DEF NoRow, NoJob, Job, SoundRow
  <2> QED
    BY <1>1, <2>1 DEF DeleteRows, Follows, Keeps, Row
<1>2. CASE tbl[k].parent \notin S
  BY <1>2 DEF DeleteRows, Follows
<1> QED
  BY <1>1, <1>2

(* Rows that are not there are blank, ids are drawn in order, and a claim  *)
(* in a worker is no newer than its row's last one; while the row still    *)
(* has the claim's token, no attempt was charged to it since the claim.    *)
Drawn ==
  /\ nextId >= 1
  /\ \A j \in Job :
       /\ j >= nextId \/ jobs[j].status = "absent" => jobs[j] = NoRow
       /\ jobs[j].parent < nextId
       /\ jobs[j].status = "cancelled" /\ jobs[j].token # NoToken => "fallback" \in Ops

Claimed ==
  \A r \in runs :
    /\ r.job < nextId
    /\ jobs[r.job].status # "absent" => r.claim <= jobs[r.job].started
    /\ jobs[r.job].token = r.claim => r.made = jobs[r.job].made

FInv == IInv /\ Drawn /\ Claimed
-----------------------------------------------------------------------------
(* How the statements move a row.                                          *)
LEMMA TurnsUnlocked ==
  ASSUME NEW row \in SoundRow, IsOpen(row),
         NEW st \in (OpenStatus \ {"active"}) \cup {"failed", "dead", "cancelled"}
  PROVE  Turns(row, Unlocked(row, st))
BY DEF Turns, Keeps, Unlocked, SoundRow, Row, IsOpen, OpenStatus

LEMMA TurnsBlamed ==
  ASSUME NEW row \in SoundRow, IsOpen(row) \/ row.status \in {"failed", "dead"},
         NEW st \in {"delayed", "waiting"} \cup {"dead"}, NEW err,
         st = "dead" => IsOpen(row)
  PROVE  Turns(row, Blamed(row, st, err))
BY DEF Turns, Keeps, Unlocked, Blamed, SoundRow, Row, IsOpen, OpenStatus

LEMMA BurnsCharged ==
  ASSUME NEW row \in SoundRow, row.status = "active", NEW st \in {"delayed", "dead"}, NEW err
  PROVE  /\ Burns(row, Charged(Blamed(row, st, err), 1))
         /\ Turns(row, Charged(Blamed(row, st, err), 0))
<1> DEFINE b == Blamed(row, st, err)
<1>1. b = [row EXCEPT !.status = st, !.token = NoToken, !.error = err]
  BY DEF Blamed, Unlocked
<1>2. row.made \in Nat
  BY DEF SoundRow, Row
<1>3. /\ b.status = st /\ b.token = NoToken /\ b.made = row.made /\ b.started = row.started
      /\ b.parent = row.parent /\ b.result = row.result
  BY <1>1 DEF SoundRow, Row
<1> DEFINE c(n) == [b EXCEPT !.made = b.made + n]
<1>4. \A n \in {0, 1} :
        /\ c(n).status = st /\ c(n).token = NoToken /\ c(n).made = row.made + n
        /\ c(n).started = row.started /\ c(n).parent = row.parent /\ c(n).result = row.result
  BY <1>1, <1>3 DEF SoundRow, Row
<1>5. Charged(b, 1) = c(1) /\ Charged(b, 0) = c(0)
  BY DEF Charged
<1> HIDE DEF b, c
<1> QED
  BY <1>2, <1>4, <1>5 DEF Burns, Turns, Keeps, IsOpen, OpenStatus, b

LEMMA FinishesCompleted ==
  ASSUME NEW row \in SoundRow, row.status = "active", NEW n, n = row.started
  PROVE  Finishes(row, Completed(row, n))
BY DEF Finishes, Completed, Unlocked, Keeps, SoundRow, Row

LEMMA StalledMoves ==
  ASSUME NEW row \in SoundRow
  PROVE  \A o : Turns(o, row) \/ Burns(o, row) => Moves(o, Stalled(row))
BY DEF Stalled, Turns, Burns, Moves, Keeps, SoundRow, Row
-----------------------------------------------------------------------------
(* completeJob.                                                            *)
LEMMA CompleteJobMoves ==
  ASSUME FInv, NEW r \in runs, Holds(jobs, r), CompleteJob(r), NEW k \in Job
  PROVE  Moves(jobs[k], jobs'[k])
<1> DEFINE settled == [jobs EXCEPT ![r.job] = Completed(jobs[r.job], r.claim)]
           woken == Resolve(settled, {jobs[r.job].parent})
           gone == IF "complete" \in jobs[r.job].removeOn THEN {r.job} ELSE {}
<1>1. r.job \in Job /\ jobs \in [Job -> SoundRow] /\ jobs[r.job].status = "active"
  BY DEF FInv, IInv, Run, Holds
<1>2. r.claim = jobs[r.job].started /\ r.claim \in Nat
  BY HolderHasLastClaim DEF FInv, IInv, Run
<1>3. settled \in [Job -> SoundRow] /\ Finishes(jobs[r.job], settled[r.job])
  BY <1>1, <1>2, CompletedSound, FinishesCompleted
<1>4. Moves(jobs[k], settled[k])
  BY <1>1, <1>3 DEF Moves
<1>5. settled[k].status = "absent" => settled[k] = NoRow
  BY <1>1, <1>3 DEF FInv, Drawn, Finishes
<1> HIDE DEF settled
<1>6. woken \in [Job -> SoundRow] /\ Follows(settled[k], woken[k])
  BY <1>3, ResolveSound, FollowResolve
<1>7. Moves(jobs[k], woken[k])
  BY <1>1, <1>3, <1>4, <1>6, MoveThenFollow
<1>8. woken[k].status = "absent" => woken[k] = NoRow
  BY <1>5, <1>6 DEF Follows
<1>9. jobs' = DeleteRows(woken, gone) /\ gone \subseteq {r.job}
  BY DEF CompleteJob, settled
<1> HIDE DEF woken, gone
<1>10. CASE k \in gone
  BY <1>1, <1>9, <1>10 DEF DeleteRows, Moves, Goes
<1>11. CASE k \notin gone
  <2>1. Follows(woken[k], jobs'[k])
    BY <1>1, <1>6, <1>8, <1>9, <1>11, FollowDelete
  <2>2. jobs'[k] \in SoundRow
    BY <1>6, <1>9, DeleteRowsSound
  <2> QED
    BY <1>1, <1>6, <1>7, <2>1, <2>2, MoveThenFollow
<1> QED
  BY <1>10, <1>11

(* A policy wakes a parent, fails it, or takes it off its child.           *)
LEMMA PolicyCases ==
  ASSUME NEW tbl \in [Job -> SoundRow], NEW j \in Job
  PROVE  LET p == tbl[j].parent
         IN \/ /\ p = NoJob \/ (p \in Job /\ tbl[p].status # "waiting-children")
               /\ ApplyPolicy(tbl, j) = tbl
            \/ ApplyPolicy(tbl, j) = Resolve([tbl EXCEPT ![j].parent = NoJob], {p})
            \/ ApplyPolicy(tbl, j) = Resolve(tbl, {p})
            \/ /\ p \in Job /\ tbl[p].status = "waiting-children"
               /\ ApplyPolicy(tbl, j)
                    = [tbl EXCEPT ![p].status = "failed", ![p].error = "child"]
<1> DEFINE p == tbl[j].parent
<1>1. p \in Job \cup {NoJob}
  BY DEF SoundRow, Row
<1>2. CASE p = NoJob
  BY <1>2 DEF ApplyPolicy
<1>3. CASE p # NoJob /\ tbl[j].policy = "fail_parent"
  BY <1>1, <1>3 DEF ApplyPolicy
<1>4. CASE p # NoJob /\ tbl[j].policy = "remove_dep"
  BY <1>4 DEF ApplyPolicy
<1>5. CASE p # NoJob /\ tbl[j].policy \notin {"fail_parent", "remove_dep"}
  BY <1>5 DEF ApplyPolicy
<1> QED
  BY <1>2, <1>3, <1>4, <1>5

LEMMA PolicyMoves ==
  ASSUME NEW tbl \in [Job -> SoundRow], NEW j \in Job, tbl[j].status = "dead", NEW k \in Job
  PROVE  /\ ApplyPolicy(tbl, j) \in [Job -> SoundRow]
         /\ \/ Follows(tbl[k], ApplyPolicy(tbl, j)[k])
            \/ k # j /\ Turns(tbl[k], ApplyPolicy(tbl, j)[k])
         /\ ApplyPolicy(tbl, j)[k].status = "absent" => ApplyPolicy(tbl, j)[k] = tbl[k]
<1> DEFINE p == tbl[j].parent
           freed == [tbl EXCEPT ![j].parent = NoJob]
           failed == [tbl EXCEPT ![p].status = "failed", ![p].error = "child"]
<1>1. ApplyPolicy(tbl, j) \in [Job -> SoundRow]
  BY ApplyPolicySound
<1>2. /\ freed \in [Job -> SoundRow]
      /\ Follows(tbl[k], freed[k])
  <2>1. freed \in [Job -> SoundRow]
    BY OrphanSound
  <2> QED
    BY <2>1 DEF Follows, Keeps, SoundRow, Row
<1>3. \A P : /\ Follows(tbl[k], Resolve(tbl, P)[k])
             /\ Follows(freed[k], Resolve(freed, P)[k])
             /\ Resolve(freed, P)[k] \in SoundRow
  BY <1>2, FollowResolve, ResolveSound
<1>4. ASSUME p \in Job, tbl[p].status = "waiting-children", k = p
      PROVE  k # j /\ Turns(tbl[k], failed[k]) /\ failed[k].status = "failed"
  <2>1. tbl[k] \in Row
    BY DEF SoundRow
  <2>2. failed[k] = [tbl[k] EXCEPT !.status = "failed", !.error = "child"]
    BY <1>4, <2>1 DEF Row
  <2> HIDE DEF failed
  <2> QED
    BY <1>4, <2>1, <2>2 DEF Turns, Keeps, Row, IsOpen, OpenStatus
<1>5. ASSUME k # p PROVE failed[k] = tbl[k]
  BY <1>5
<1>6. \/ ApplyPolicy(tbl, j) = tbl
      \/ ApplyPolicy(tbl, j) = Resolve(freed, {p})
      \/ ApplyPolicy(tbl, j) = Resolve(tbl, {p})
      \/ p \in Job /\ tbl[p].status = "waiting-children" /\ ApplyPolicy(tbl, j) = failed
  BY PolicyCases
<1> HIDE DEF freed, failed
<1>7. Follows(tbl[k], tbl[k]) /\ \A P : Follows(tbl[k], Resolve(freed, P)[k])
  BY <1>2, <1>3 DEF Follows, Keeps, NoToken
<1>8. \A n : Follows(tbl[k], n) /\ n.status = "absent" => n = tbl[k]
  BY DEF Follows
<1> QED
  BY <1>1, <1>3, <1>4, <1>5, <1>6, <1>7, <1>8

(* failJob with status dead.                                               *)
LEMMA FailJobMoves ==
  ASSUME FInv, NEW r \in runs, Holds(jobs, r), FailJob(r), NEW k \in Job
  PROVE  Moves(jobs[k], jobs'[k])
<1> DEFINE settled == [jobs EXCEPT ![r.job] = Charged(Blamed(jobs[r.job], "dead", "run"), 1)]
           decided == ApplyPolicy(settled, r.job)
           gone == IF "fail" \in jobs[r.job].removeOn THEN {r.job} ELSE {}
<1>1. r.job \in Job /\ jobs \in [Job -> SoundRow] /\ jobs[r.job].status = "active"
  BY DEF FInv, IInv, Run, Holds
<1>2. settled \in [Job -> SoundRow] /\ Burns(jobs[r.job], settled[r.job])
      /\ settled[r.job].status = "dead"
  BY <1>1, KilledSound, BurnsCharged DEF Errors
<1>3. Moves(jobs[k], settled[k]) /\ (k # r.job => settled[k] = jobs[k])
  BY <1>1, <1>2 DEF Moves
<1>4. settled[k].status = "absent" => settled[k] = NoRow
  BY <1>1, <1>2 DEF FInv, Drawn
<1>5. jobs' = DeleteRows(decided, gone) /\ gone \subseteq {r.job}
  BY DEF FailJob
<1> HIDE DEF settled
<1>6. /\ decided \in [Job -> SoundRow]
      /\ Follows(settled[k], decided[k]) \/ (k # r.job /\ Turns(settled[k], decided[k]))
      /\ decided[k].status = "absent" => decided[k] = settled[k]
  BY <1>1, <1>2, PolicyMoves
<1> HIDE DEF decided, gone
<1>7. Moves(jobs[k], decided[k])
  <2>1. CASE Follows(settled[k], decided[k])
    BY <1>1, <1>2, <1>3, <1>6, <2>1, MoveThenFollow
  <2>2. CASE k # r.job /\ Turns(settled[k], decided[k])
    BY <1>3, <2>2 DEF Moves
  <2> QED
    BY <1>6, <2>1, <2>2
<1>8. CASE k \in gone
  BY <1>1, <1>5, <1>8 DEF DeleteRows, Moves, Goes
<1>9. CASE k \notin gone
  <2>1. Follows(decided[k], jobs'[k])
    BY <1>1, <1>4, <1>5, <1>6, <1>9, FollowDelete
  <2>2. jobs'[k] \in SoundRow
    BY <1>5, <1>6, DeleteRowsSound
  <2> QED
    BY <1>1, <1>6, <1>7, <2>1, <2>2, MoveThenFollow
<1> QED
  BY <1>8, <1>9

(* cancelJob.                                                              *)
LEMMA CancelJobMoves ==
  ASSUME FInv, NEW j \in Job, CancelJob(j), NEW k \in Job
  PROVE  Moves(jobs[k], jobs'[k])
<1> DEFINE S == {i \in Job : i \in Descendants(jobs, j) /\ IsOpen(jobs[i])}
           cancelled == [i \in Job |-> IF i \in S THEN Unlocked(jobs[i], "cancelled")
                                       ELSE jobs[i]]
<1>1. jobs \in [Job -> SoundRow]
  BY DEF FInv, IInv
<1>2. \A i \in S : /\ Unlocked(jobs[i], "cancelled") \in SoundRow
                   /\ Turns(jobs[i], Unlocked(jobs[i], "cancelled"))
  BY <1>1, UnlockedSound, TurnsUnlocked DEF IsOpen, OpenStatus, Status, Terminal
<1>3. cancelled \in [Job -> SoundRow] /\ Moves(jobs[k], cancelled[k])
  BY <1>1, <1>2 DEF Moves
<1>4. jobs' = Resolve(cancelled, ParentsOf(jobs, S))
  BY DEF CancelJob
<1> HIDE DEF cancelled, S
<1> QED
  BY <1>1, <1>3, <1>4, FollowResolve, ResolveSound, MoveThenFollow

(* The timeout sweeps.                                                     *)
LEMMA KillForTimeoutMoves ==
  ASSUME FInv, NEW S \in SUBSET Job, NEW burned \in {0, 1},
         \A j \in S : jobs[j].status = "active", KillForTimeout(S, burned), NEW k \in Job
  PROVE  Moves(jobs[k], jobs'[k])
<1> DEFINE dead == [j \in Job |->
                     IF j \in S THEN Charged(Blamed(jobs[j], "dead", "timeout"), burned)
                     ELSE jobs[j]]
<1>1. jobs \in [Job -> SoundRow]
  BY DEF FInv, IInv
<1>2. \A j \in S : /\ Charged(Blamed(jobs[j], "dead", "timeout"), burned) \in SoundRow
                   /\ Moves(jobs[j], Charged(Blamed(jobs[j], "dead", "timeout"), burned))
  BY <1>1, KilledSound, BurnsCharged DEF Errors, Moves
<1>3. dead \in [Job -> SoundRow] /\ Moves(jobs[k], dead[k])
  BY <1>1, <1>2 DEF Moves
<1>4. jobs' = Resolve(dead, ParentsOf(jobs, S))
  BY DEF KillForTimeout
<1> HIDE DEF dead
<1> QED
  BY <1>1, <1>3, <1>4, FollowResolve, ResolveSound, MoveThenFollow

(* handleStalled.                                                          *)
LEMMA HandleStalledMoves ==
  ASSUME FInv, NEW S \in SUBSET Job, HandleStalled(S), NEW k \in Job
  PROVE  Moves(jobs[k], jobs'[k])
<1>1. jobs[k] \in SoundRow /\ (k \in S => jobs[k].status = "active")
  BY DEF FInv, IInv, HandleStalled
<1>2. CASE k \notin S
  BY <1>2 DEF HandleStalled, Moves
<1>3. CASE k \in S
  <2>1. /\ Turns(jobs[k], Unlocked(jobs[k], "waiting"))
        /\ Unlocked(jobs[k], "waiting") \in SoundRow
    BY <1>1, <1>3, TurnsUnlocked, UnlockedSound DEF IsOpen, OpenStatus, Status
  <2>2. /\ Burns(jobs[k], Charged(Blamed(jobs[k], "dead", "stalled"), 1))
        /\ Charged(Blamed(jobs[k], "dead", "stalled"), 1) \in SoundRow
    BY <1>1, <1>3, BurnsCharged, KilledSound DEF Errors
  <2>3. \/ jobs'[k] = Stalled(Unlocked(jobs[k], "waiting"))
        \/ jobs'[k] = Stalled(Charged(Blamed(jobs[k], "dead", "stalled"), 1))
    BY <1>3 DEF HandleStalled
  <2> QED
    BY <2>1, <2>2, <2>3, StalledMoves
<1> QED
  BY <1>2, <1>3

(* remove and prune: the rows they delete are settled.                     *)
LEMMA DeletedMoves ==
  ASSUME FInv, NEW S \in SUBSET Job, \A j \in S : jobs[j].status \in Terminal,
         jobs' = DeleteRows(jobs, S), NEW k \in Job
  PROVE  Moves(jobs[k], jobs'[k])
<1>1. CASE k \in S
  BY <1>1 DEF DeleteRows, Moves, Goes
<1>2. CASE k \notin S
  <2>1. Follows(jobs[k], jobs'[k])
    BY <1>2, FollowDelete DEF FInv, IInv, Drawn
  <2>2. jobs[k] \in SoundRow /\ jobs'[k] \in SoundRow
    BY DeleteRowsSound DEF FInv, IInv
  <2>3. Moves(jobs[k], jobs[k])
    BY DEF Moves
  <2> QED
    BY <2>1, <2>2, <2>3, MoveThenFollow
<1> QED
  BY <1>1, <1>2

(* The statements that write the one row a worker or an operator names.    *)
LEMMA OneRowMoves ==
  ASSUME FInv, NEW j \in Job, NEW row, jobs' = [jobs EXCEPT ![j] = row],
         Turns(jobs[j], row) \/ Burns(jobs[j], row), NEW k \in Job
  PROVE  Moves(jobs[k], jobs'[k])
BY DEF FInv, IInv, Moves

(* Quiet hours: the defer is fenced by the token alone, so it may find a   *)
(* row that is open or was failed through a child, but no completed one.   *)
LEMMA QuietDeferTurns ==
  ASSUME FInv, NEW r \in runs, jobs[r.job].token = r.claim
  PROVE  Turns(jobs[r.job], Unlocked(jobs[r.job], "delayed"))
<1>1. /\ r.job \in Job /\ r.claim # NoToken
      /\ jobs[r.job] \in SoundRow
      /\ jobs[r.job].status = "absent" => jobs[r.job] = NoRow
  BY DEF FInv, IInv, Run, Drawn
<1>2. jobs[r.job].status \notin {"absent", "completed"}
  BY <1>1 DEF NoRow, SoundRow, Sound
<1> QED
  BY <1>1, <1>2 DEF Turns, Keeps, Unlocked, SoundRow, Row, IsOpen, OpenStatus, Status, Terminal

LEMMA QuietReleaseTurns ==
  ASSUME FInv, NEW r \in runs, jobs[r.job].token = r.claim
  PROVE  Turns(jobs[r.job], [jobs[r.job] EXCEPT !.token = NoToken])
<1>1. /\ r.job \in Job /\ r.claim # NoToken
      /\ jobs[r.job] \in SoundRow
      /\ jobs[r.job].status = "absent" => jobs[r.job] = NoRow
  BY DEF FInv, IInv, Run, Drawn
<1>2. jobs[r.job].status # "absent"
  BY <1>1 DEF NoRow
<1> QED
  BY <1>1, <1>2 DEF Turns, Keeps, SoundRow, Row

LEMMA QuietFallbackTurns ==
  ASSUME NEW row \in SoundRow, "fallback" \in Ops,
         row.status \notin {"completed", "failed", "dead", "absent"}
  PROVE  Turns(row, [row EXCEPT !.status = "cancelled", !.error = "quiet"])
BY DEF Turns, Keeps, SoundRow, Row, IsOpen, OpenStatus, Status, Terminal
-----------------------------------------------------------------------------
(* A step that inserts and claims nothing: every row moves, no id is       *)
(* drawn, and the claims that workers hold are those they held.            *)
Kept ==
  \A r \in runs' : \E s \in runs : s.job = r.job /\ s.claim = r.claim /\ s.made = r.made

Steady == (\A k \in Job : Moves(jobs[k], jobs'[k])) /\ nextId' = nextId /\ Kept

LEMMA KeptFewer ==
  ASSUME runs' \subseteq runs
  PROVE  Kept
BY DEF Kept

LEMMA KeptSetMode ==
  ASSUME runs \subseteq Run, NEW r \in runs, NEW mode, SetMode(r, mode)
  PROVE  Kept
BY DEF Kept, SetMode, Run

LEMMA StandsStill ==
  ASSUME jobs' = jobs, nextId' = nextId, Kept
  PROVE  Steady
BY DEF Steady, Moves

LEMMA WorkerStepSteady ==
  ASSUME FInv, NEW r \in runs, WorkerStep(r)
  PROVE  Steady
<1>1. /\ runs \subseteq Run /\ r.job \in Job /\ jobs \in [Job -> SoundRow]
      /\ jobs[r.job] \in SoundRow
  BY DEF FInv, IInv, Run
<1>2. \A mode : SetMode(r, mode) => Kept
  BY <1>1, KeptSetMode
<1>3. runs' = runs \ {r} => Kept
  BY KeptFewer
<1>4. jobs' = jobs /\ nextId' = nextId /\ Kept => Steady
  BY StandsStill
<1>5. CASE CompleteRun(r)
  <2>1. CASE Holds(jobs, r)
    BY <1>3, <1>5, <2>1, CompleteJobMoves DEF CompleteRun, Steady
  <2>2. CASE ~Holds(jobs, r)
    BY <1>3, <1>4, <1>5, <2>2 DEF CompleteRun
  <2> QED
    BY <2>1, <2>2
<1>6. CASE \E unrecoverable \in BOOLEAN : FailRun(r, unrecoverable)
  <2>1. nextId' = nextId /\ Kept
    BY <1>3, <1>6 DEF FailRun
  <2>2. CASE Holds(jobs, r) /\ FailJob(r)
    BY <2>1, <2>2, FailJobMoves DEF Steady
  <2>3. CASE Holds(jobs, r) /\ RetryLater(r)
    <3>1. /\ jobs[r.job].status = "active"
          /\ jobs' = [jobs EXCEPT ![r.job] = Charged(Blamed(jobs[r.job], "delayed", "run"), 1)]
      BY <2>3 DEF Holds, RetryLater
    <3>2. Burns(jobs[r.job], Charged(Blamed(jobs[r.job], "delayed", "run"), 1))
      BY <1>1, <3>1, BurnsCharged
    <3> QED
      BY <1>1, <2>1, <3>1, <3>2, OneRowMoves DEF Steady
  <2>4. CASE UNCHANGED <<jobs, inbox>>
    BY <1>4, <2>1, <2>4
  <2> QED
    BY <1>6, <2>2, <2>3, <2>4 DEF FailRun
<1>7. CASE DropRun(r)
  BY <1>3, <1>4, <1>7 DEF DropRun
<1>8. CASE ReleaseLeaseFull(r)
  <2>1. nextId' = nextId /\ Kept
    BY <1>3, <1>8 DEF ReleaseLeaseFull
  <2>2. CASE Holds(jobs, r)
    <3>1. /\ IsOpen(jobs[r.job])
          /\ jobs' = [jobs EXCEPT ![r.job] = Blamed(jobs[r.job], "delayed", "run")]
      BY <1>8, <2>2 DEF ReleaseLeaseFull, Holds, IsOpen, OpenStatus
    <3>2. Turns(jobs[r.job], Blamed(jobs[r.job], "delayed", "run"))
      BY <1>1, <3>1, TurnsBlamed
    <3> QED
      BY <1>1, <2>1, <3>1, <3>2, OneRowMoves DEF Steady
  <2>3. CASE ~Holds(jobs, r)
    BY <1>4, <1>8, <2>1, <2>3 DEF ReleaseLeaseFull
  <2> QED
    BY <2>2, <2>3
<1>9. CASE \E mode \in {"aborted", "timedOut"} : AbortRun(r, mode)
  BY <1>2, <1>4, <1>9 DEF AbortRun
<1>10. CASE EvictRun(r)
  <2>1. nextId' = nextId /\ Kept
    BY <1>2, <1>10 DEF EvictRun
  <2>2. CASE Holds(jobs, r) /\ FailJob(r)
    BY <2>1, <2>2, FailJobMoves DEF Steady
  <2>3. CASE UNCHANGED <<jobs, inbox>>
    BY <1>4, <2>1, <2>3
  <2> QED
    BY <1>10, <2>2, <2>3 DEF EvictRun
<1>11. CASE QuietDefer(r)
  <2>1. nextId' = nextId /\ Kept
    BY <1>3, <1>11 DEF QuietDefer
  <2>2. CASE jobs[r.job].token = r.claim
    <3>1. jobs' = [jobs EXCEPT ![r.job] = Unlocked(jobs[r.job], "delayed")]
      BY <1>11, <2>2 DEF QuietDefer
    <3> QED
      BY <1>1, <2>1, <2>2, <3>1, QuietDeferTurns, OneRowMoves DEF Steady
  <2>3. CASE jobs[r.job].token # r.claim
    BY <1>4, <1>11, <2>1, <2>3 DEF QuietDefer
  <2> QED
    BY <2>2, <2>3
<1>12. CASE QuietRelease(r)
  <2>1. nextId' = nextId /\ Kept
    BY <1>2, <1>12 DEF QuietRelease
  <2>2. CASE jobs[r.job].token = r.claim
    <3>1. jobs' = [jobs EXCEPT ![r.job] = [jobs[r.job] EXCEPT !.token = NoToken]]
      BY <1>1, <1>12, <2>2 DEF QuietRelease
    <3> QED
      BY <1>1, <2>1, <2>2, <3>1, QuietReleaseTurns, OneRowMoves DEF Steady
  <2>3. CASE jobs[r.job].token # r.claim
    BY <1>4, <1>12, <2>1, <2>3 DEF QuietRelease
  <2> QED
    BY <2>2, <2>3
<1>13. CASE QuietCancel(r)
  BY <1>1, <1>3, <1>13, CancelJobMoves DEF QuietCancel, Steady
<1>14. CASE "fallback" \in Ops /\ QuietFallback(r)
  <2>1. nextId' = nextId /\ Kept
    BY <1>3, <1>14 DEF QuietFallback
  <2>2. CASE jobs[r.job].status \notin {"completed", "failed", "dead", "absent"}
    <3>1. jobs' = [jobs EXCEPT ![r.job] =
                     [jobs[r.job] EXCEPT !.status = "cancelled", !.error = "quiet"]]
      BY <1>1, <1>14, <2>2 DEF QuietFallback
    <3> QED
      BY <1>1, <1>14, <2>1, <2>2, <3>1, QuietFallbackTurns, OneRowMoves DEF Steady
  <2>3. CASE jobs[r.job].status \in {"completed", "failed", "dead", "absent"}
    BY <1>4, <1>14, <2>1, <2>3 DEF QuietFallback
  <2> QED
    BY <2>2, <2>3
<1> QED
  BY <1>5, <1>6, <1>7, <1>8, <1>9, <1>10, <1>11, <1>12, <1>13, <1>14 DEF WorkerStep

LEMMA SweepSteady ==
  ASSUME FInv, Sweep
  PROVE  Steady
<1>1. PICK S \in SUBSET Job : PromoteDelayed(S) \/ HandleStalled(S) \/ HandleTimeouts(S)
                              \/ HandleWallClockTimeouts(S)
  BY DEF Sweep
<1>2. nextId' = nextId /\ Kept
  BY <1>1, KeptFewer DEF PromoteDelayed, HandleStalled, HandleTimeouts,
                         HandleWallClockTimeouts, KillForTimeout
<1>3. CASE PromoteDelayed(S)
  <2>1. \A j \in S : Turns(jobs[j], Unlocked(jobs[j], "waiting"))
    BY <1>3, TurnsUnlocked DEF PromoteDelayed, FInv, IInv, IsOpen, OpenStatus
  <2> QED
    BY <1>2, <1>3, <2>1 DEF PromoteDelayed, Steady, Moves
<1>4. CASE HandleStalled(S)
  BY <1>2, <1>4, HandleStalledMoves DEF Steady
<1>5. CASE HandleTimeouts(S)
  BY <1>2, <1>5, KillForTimeoutMoves DEF Steady, HandleTimeouts
<1>6. CASE HandleWallClockTimeouts(S)
  BY <1>2, <1>6, KillForTimeoutMoves DEF Steady, HandleWallClockTimeouts
<1> QED
  BY <1>1, <1>3, <1>4, <1>5, <1>6

LEMMA OperateSteady ==
  ASSUME FInv, Operate
  PROVE  Steady
<1>1. jobs \in [Job -> SoundRow]
  BY DEF FInv, IInv
<1>2. nextId' = nextId /\ Kept
  BY KeptFewer DEF Operate, PauseJob, ResumeJob, RetryJob, CancelTree, RemoveJob, Prune
<1>3. ASSUME NEW j \in Job, PauseJob(j) PROVE Steady
  <2>1. Turns(jobs[j], Unlocked(jobs[j], "paused"))
    BY <1>1, <1>3, TurnsUnlocked DEF PauseJob, IsOpen, OpenStatus
  <2> QED
    BY <1>2, <1>3, <2>1, OneRowMoves DEF PauseJob, Steady
<1>4. ASSUME NEW j \in Job, ResumeJob(j) PROVE Steady
  <2>1. Turns(jobs[j], Unlocked(jobs[j], "waiting"))
    BY <1>1, <1>4, TurnsUnlocked DEF ResumeJob, IsOpen, OpenStatus
  <2> QED
    BY <1>2, <1>4, <2>1, OneRowMoves DEF ResumeJob, Steady
<1>5. ASSUME NEW j \in Job, RetryJob(j) PROVE Steady
  <2>1. Turns(jobs[j], Blamed(jobs[j], "waiting", "none"))
    BY <1>1, <1>5, TurnsBlamed DEF RetryJob
  <2> QED
    BY <1>2, <1>5, <2>1, OneRowMoves DEF RetryJob, Steady
<1>6. ASSUME NEW j \in Job, CancelTree(j) PROVE Steady
  BY <1>2, <1>6, CancelJobMoves DEF CancelTree, Steady
<1>7. ASSUME NEW j \in Job, RemoveJob(j) PROVE Steady
  BY <1>2, <1>7, DeletedMoves DEF RemoveJob, Steady
<1>8. ASSUME NEW S \in SUBSET Job, Prune(S) PROVE Steady
  BY <1>2, <1>8, DeletedMoves DEF Prune, Steady, Terminal
<1> QED
  BY <1>3, <1>4, <1>5, <1>6, <1>7, <1>8 DEF Operate
-----------------------------------------------------------------------------
(* Every step of the queue, whoever adds the jobs: the submitters of       *)
(* MinionQueue, or the fan-out command.                                    *)
AddSome ==
  \E p \in Job \cup {NoJob}, st \in {"waiting", "delayed"},
     policy \in {"fail_parent", "remove_dep", "ignore"},
     removeOn \in SUBSET {"complete", "fail"}, deadline \in BOOLEAN :
    Add(p, st, policy, removeOn, deadline)

QueueStep == AddSome \/ ClaimSome \/ (\E r \in runs : WorkerStep(r)) \/ Sweep \/ Operate

LEMMA NextIsQueueStep == Next => QueueStep
<1>1. Submit => AddSome
  BY ChoicesAssumption DEF Submit, AddSome
<1> QED
  BY <1>1 DEF Next, QueueStep

LEMMA FanNextIsQueueStep == [FanNext]_allVars => QueueStep \/ UNCHANGED vars
<1>1. SubmitAggregator \/ SubmitChild => AddSome
  <2>1. Agg \in Job /\ {} \in SUBSET {"complete", "fail"}
    BY BoundsAssumption DEF Agg, Job
  <2>2. SubmitAggregator => AddSome
    BY <2>1 DEF SubmitAggregator, AddSome
  <2>3. ASSUME SubmitChild PROVE AddSome
    <3>1. PICK deadline \in Deadlines : Add(Agg, "waiting", "ignore", {}, deadline)
      BY <2>3 DEF SubmitChild
    <3>2. deadline \in BOOLEAN
      BY ChoicesAssumption
    <3> QED
      BY <2>1, <3>1, <3>2 DEF AddSome
  <2> QED
    BY <2>2, <2>3
<1>2. ClaimAggregator \/ (\E j \in Job \ {Agg} : ClaimChild(j)) => ClaimSome
  BY BoundsAssumption DEF ClaimAggregator, ClaimChild, ClaimSome, Agg, Job
<1>3. ASSUME NEW r \in runs, AggregatorStep(r)
      PROVE  WorkerStep(r) \/ UNCHANGED vars
  BY <1>3 DEF AggregatorStep, CheckToken, MarkRead, Answer, WorkerStep
<1>4. ListChildren \/ CommandDies => UNCHANGED vars
  BY DEF ListChildren, CommandDies
<1>5. FanOut => QueueStep \/ UNCHANGED vars
  BY <1>1, <1>2, <1>3, <1>4 DEF FanOut, QueueStep
<1> QED
  BY <1>5, NextIsQueueStep DEF FanNext, Elsewhere, allVars

(* A parent that starts to wait for its children changes in nothing else.  *)
LEMMA AwaitingFields ==
  ASSUME NEW row \in Row
  PROVE  LET n == [row EXCEPT !.status = "waiting-children"]
         IN  /\ n.status = "waiting-children" /\ n.parent = row.parent
             /\ n.started = row.started /\ n.made = row.made
             /\ n.token = row.token /\ n.result = row.result
BY DEF Row

(* add: the new row takes an id no row or claim has had, and at most the   *)
(* status of the parent changes.                                           *)
LEMMA AddDoes ==
  ASSUME FInv, NEW p \in Job \cup {NoJob}, NEW st, NEW policy, NEW removeOn, NEW deadline,
         Add(p, st, policy, removeOn, deadline)
  PROVE  /\ nextId \in Job /\ nextId' = nextId + 1 /\ runs' = runs /\ inbox' = inbox
         /\ p < nextId /\ (p # NoJob => MayHaveChild(p))
         /\ jobs[nextId] = NoRow
         /\ jobs'[nextId] = NewRow(p, st, policy, removeOn, deadline)
         /\ \A k \in Job \ {nextId} :
              jobs'[k] = IF k = p /\ jobs[k].status \in {"waiting", "active", "delayed"}
                         THEN [jobs[k] EXCEPT !.status = "waiting-children"]
                         ELSE jobs[k]
<1> DEFINE new == NewRow(p, st, policy, removeOn, deadline)
<1>1. nextId \in Job /\ nextId' = nextId + 1 /\ runs' = runs /\ inbox' = inbox
      /\ (p # NoJob => MayHaveChild(p))
      /\ jobs' = AwaitChildren([jobs EXCEPT ![nextId] = new], p)
  BY DEF Add
<1>2. jobs \in [Job -> SoundRow] /\ nextId >= 1 /\ jobs[nextId] = NoRow
  BY <1>1 DEF FInv, IInv, Drawn, Job
<1>3. p < nextId
  <2>1. CASE p = NoJob
    BY <1>1, <2>1 DEF NoJob, Job
  <2>2. CASE p # NoJob
    BY <1>1, <2>2 DEF MayHaveChild, FInv, Drawn, NoRow, Job
  <2> QED
    BY <2>1, <2>2
<1>4. p # nextId
  BY <1>1, <1>3 DEF Job, NoJob
<1> HIDE DEF new
<1>5. /\ jobs'[nextId] = new
      /\ \A k \in Job \ {nextId} :
           jobs'[k] = IF k = p /\ jobs[k].status \in {"waiting", "active", "delayed"}
                      THEN [jobs[k] EXCEPT !.status = "waiting-children"]
                      ELSE jobs[k]
  BY <1>1, <1>2, <1>4 DEF AwaitChildren
<1> QED
  BY <1>1, <1>2, <1>3, <1>5 DEF new

LEMMA NewRowFields ==
  ASSUME NEW p, NEW st, NEW policy, NEW removeOn, NEW deadline
  PROVE  LET row == NewRow(p, st, policy, removeOn, deadline)
         IN /\ row.status = st /\ row.parent = p /\ row.token = NoToken /\ row.started = 0
            /\ row.made = 0 /\ row.result = 0
BY DEF NewRow, NoRow

(* A step that inserts and claims nothing keeps the invariant.             *)
LEMMA SteadyKeeps ==
  ASSUME FInv, Steady
  PROVE  Drawn' /\ Claimed'
<1>1. /\ jobs \in [Job -> SoundRow] /\ runs \subseteq Run /\ nextId \in Nat /\ nextId >= 1
      /\ nextId' = nextId
  BY DEF FInv, IInv, Drawn, Steady
<1>2. ASSUME NEW k \in Job
      PROVE  /\ k >= nextId' \/ jobs'[k].status = "absent" => jobs'[k] = NoRow
             /\ jobs'[k].parent < nextId'
             /\ jobs'[k].status = "cancelled" /\ jobs'[k].token # NoToken => "fallback" \in Ops
  <2> DEFINE o == jobs[k]
             n == jobs'[k]
  <2>1. /\ k >= nextId \/ o.status = "absent" => o = NoRow
        /\ o.parent < nextId
        /\ o.status = "cancelled" /\ o.token # NoToken => "fallback" \in Ops
        /\ Moves(o, n)
    BY DEF FInv, Drawn, Steady
  <2>2. NoRow.status = "absent" /\ NoRow.parent < nextId /\ NoRow.token = NoToken
    BY <1>1 DEF NoRow, NoJob
  <2>3. NoJob < nextId
    BY <1>1 DEF NoJob
  <2> HIDE DEF o, n
  <2>4. CASE n = o \/ n = NoRow
    BY <1>1, <2>1, <2>2, <2>4 DEF o, n
  <2>5. CASE Turns(o, n) \/ Burns(o, n) \/ Finishes(o, n)
    <3>1. Keeps(o, n) /\ o.status # "absent" /\ n.status # "absent"
      BY <2>5 DEF Turns, Burns, Finishes, OpenStatus
    <3>2. n.parent < nextId /\ k < nextId
      BY <1>1, <2>1, <2>2, <2>3, <3>1 DEF Keeps, Job
    <3>3. n.status = "cancelled" /\ n.token # NoToken => "fallback" \in Ops
      BY <2>1, <2>5 DEF Turns, Burns, Finishes, Keeps, OpenStatus
    <3> QED
      BY <1>1, <3>1, <3>2, <3>3 DEF o, n, Job
  <2> QED
    BY <2>1, <2>4, <2>5 DEF Moves, Goes
<1>3. ASSUME NEW r \in runs'
      PROVE  /\ r.job < nextId'
             /\ jobs'[r.job].status # "absent" => r.claim <= jobs'[r.job].started
             /\ jobs'[r.job].token = r.claim => r.made = jobs'[r.job].made
  <2>1. PICK s \in runs : s.job = r.job /\ s.claim = r.claim /\ s.made = r.made
    BY DEF Steady, Kept
  <2>2. /\ r.job \in Job /\ r.job < nextId /\ r.claim # NoToken
        /\ jobs[r.job].status # "absent" => r.claim <= jobs[r.job].started
        /\ jobs[r.job].token = r.claim => r.made = jobs[r.job].made
        /\ Moves(jobs[r.job], jobs'[r.job])
    BY <1>1, <2>1 DEF FInv, Claimed, Steady, Run
  <2> DEFINE o == jobs[r.job]
             n == jobs'[r.job]
  <2>3. /\ o.status # "absent" => r.claim <= o.started
        /\ o.token = r.claim => r.made = o.made
        /\ Moves(o, n)
    BY <2>2
  <2> HIDE DEF o, n
  <2>4. n.status # "absent" => r.claim <= n.started
    BY <2>3 DEF Moves, Turns, Burns, Finishes, Goes, Keeps, NoRow
  <2>5. n.token = r.claim => r.made = n.made
    BY <2>2, <2>3 DEF Moves, Turns, Burns, Finishes, Goes, Keeps, NoRow
  <2> QED
    BY <1>1, <2>2, <2>4, <2>5 DEF o, n
<1> QED
  BY <1>2, <1>3 DEF Drawn, Claimed, FInv, Drawn, Steady

(* claim: the new claim is the newest of its row.                          *)
LEMMA ClaimDoes ==
  ASSUME FInv, NEW j \in Job, NEW mode, Claim(j, mode)
  PROVE  /\ jobs[j].status = "waiting" /\ nextId' = nextId /\ inbox' = inbox
         /\ jobs' = [jobs EXCEPT ![j] = [jobs[j] EXCEPT !.status = "active",
                                           !.token = jobs[j].started + 1,
                                           !.started = jobs[j].started + 1]]
         /\ jobs'[j].status = "active" /\ jobs'[j].started = jobs[j].started + 1
         /\ jobs'[j].token = jobs[j].started + 1 /\ jobs'[j].made = jobs[j].made
         /\ jobs'[j].parent = jobs[j].parent /\ jobs'[j].result = jobs[j].result
         /\ runs' \subseteq runs \cup {[job |-> j, claim |-> jobs[j].started + 1,
                                        made |-> jobs[j].made, mode |-> mode]}
<1>1. jobs[j] \in SoundRow /\ jobs \in [Job -> SoundRow]
  BY DEF FInv, IInv
<1>2. jobs' = [jobs EXCEPT ![j] = [jobs[j] EXCEPT !.status = "active",
                                     !.token = jobs[j].started + 1,
                                     !.started = jobs[j].started + 1]]
  BY <1>1 DEF Claim
<1> QED
  BY <1>1, <1>2 DEF Claim, SoundRow, Row

LEMMA ClaimKeeps ==
  ASSUME FInv, NEW j \in Job, NEW mode, Claim(j, mode)
  PROVE  Drawn' /\ Claimed'
<1> DEFINE new == [job |-> j, claim |-> jobs[j].started + 1, made |-> jobs[j].made,
                   mode |-> mode]
<1>1. /\ jobs \in [Job -> SoundRow] /\ runs \subseteq Run /\ nextId \in Nat /\ nextId >= 1
      /\ jobs[j] \in SoundRow /\ jobs[j].started \in Nat /\ jobs[j].parent < nextId
      /\ jobs[j] # NoRow => j < nextId
  BY DEF FInv, IInv, Drawn, SoundRow, Row, Job
<1>2. /\ jobs[j].status = "waiting" /\ nextId' = nextId
      /\ \A k \in Job \ {j} : jobs'[k] = jobs[k]
      /\ jobs'[j].status = "active" /\ jobs'[j].started = jobs[j].started + 1
      /\ jobs'[j].token = jobs[j].started + 1 /\ jobs'[j].made = jobs[j].made
      /\ jobs'[j].parent = jobs[j].parent
      /\ runs' \subseteq runs \cup {new}
  BY <1>1, ClaimDoes
<1>3. j < nextId
  BY <1>1, <1>2 DEF NoRow
<1>4. Drawn'
  BY <1>1, <1>2, <1>3 DEF FInv, Drawn, Job
<1>5. new.job = j /\ new.claim = jobs[j].started + 1 /\ new.made = jobs[j].made
  OBVIOUS
<1> HIDE DEF new
<1>6. ASSUME NEW r \in runs, r.job = j
      PROVE  r.claim <= jobs[j].started /\ r.claim \in Nat
  BY <1>1, <1>2, <1>6 DEF FInv, Claimed, Run
<1>7. ASSUME NEW r \in runs, r.job # j
      PROVE  jobs'[r.job] = jobs[r.job]
  BY <1>1, <1>2, <1>7 DEF Run
<1>8. \A r \in runs :
        /\ r.job < nextId'
        /\ jobs'[r.job].status # "absent" => r.claim <= jobs'[r.job].started
        /\ jobs'[r.job].token = r.claim => r.made = jobs'[r.job].made
  BY <1>1, <1>2, <1>6, <1>7 DEF FInv, Claimed
<1>9. \A r \in runs' : r \in runs \/ r = new
  BY <1>2
<1> QED
  BY <1>1, <1>2, <1>3, <1>4, <1>5, <1>8, <1>9 DEF Claimed

LEMMA AddKeeps ==
  ASSUME FInv, AddSome
  PROVE  Drawn' /\ Claimed'
<1>1. PICK p \in Job \cup {NoJob}, st \in {"waiting", "delayed"},
           policy \in {"fail_parent", "remove_dep", "ignore"},
           removeOn \in SUBSET {"complete", "fail"}, deadline \in BOOLEAN :
             Add(p, st, policy, removeOn, deadline)
  BY DEF AddSome
<1> DEFINE new == NewRow(p, st, policy, removeOn, deadline)
<1>2. /\ nextId \in Job /\ nextId' = nextId + 1 /\ runs' = runs
      /\ p < nextId /\ jobs'[nextId] = new
      /\ \A k \in Job \ {nextId} :
           jobs'[k] = IF k = p /\ jobs[k].status \in {"waiting", "active", "delayed"}
                      THEN [jobs[k] EXCEPT !.status = "waiting-children"]
                      ELSE jobs[k]
  BY <1>1, AddDoes
<1>3. new.status = st /\ new.parent = p
  BY NewRowFields
<1> HIDE DEF new
<1>4. /\ jobs \in [Job -> SoundRow] /\ runs \subseteq Run /\ nextId \in Nat /\ nextId >= 1
  BY DEF FInv, IInv, Drawn
<1>5. ASSUME NEW k \in Job \ {nextId}
      PROVE  \/ jobs'[k] = jobs[k]
             \/ /\ jobs[k].status \in {"waiting", "active", "delayed"}
                /\ jobs'[k].status = "waiting-children" /\ jobs'[k].parent = jobs[k].parent
                /\ jobs'[k].started = jobs[k].started /\ jobs'[k].made = jobs[k].made
                /\ jobs'[k].token = jobs[k].token
  <2>1. jobs[k] \in Row
    BY <1>4 DEF SoundRow
  <2>2. CASE k = p /\ jobs[k].status \in {"waiting", "active", "delayed"}
    <3>1. jobs'[k] = [jobs[k] EXCEPT !.status = "waiting-children"]
      BY <1>2, <2>2
    <3> QED
      BY <2>1, <2>2, <3>1, AwaitingFields
  <2> QED
    BY <1>2, <2>2
<1>6. ASSUME NEW k \in Job \ {nextId}
      PROVE  /\ k >= nextId' \/ jobs'[k].status = "absent" => jobs'[k] = NoRow
             /\ jobs'[k].parent < nextId'
             /\ jobs'[k].status = "cancelled" /\ jobs'[k].token # NoToken => "fallback" \in Ops
  <2>1. /\ k >= nextId \/ jobs[k].status = "absent" => jobs[k] = NoRow
        /\ jobs[k].parent < nextId /\ jobs[k].parent \in Nat
        /\ jobs[k].status = "cancelled" /\ jobs[k].token # NoToken => "fallback" \in Ops
    BY <1>4 DEF FInv, Drawn, SoundRow, Row, Job, NoJob
  <2>2. k \in Nat /\ (k >= nextId' => k >= nextId)
    BY <1>2, <1>4 DEF Job
  <2>3. CASE jobs'[k] = jobs[k]
    BY <1>2, <1>4, <2>1, <2>2, <2>3
  <2>4. CASE jobs[k].status \in {"waiting", "active", "delayed"}
    BY <1>2, <1>4, <1>5, <2>1, <2>2, <2>4 DEF NoRow
  <2> QED
    BY <1>5, <2>3, <2>4
<1>7. nextId < nextId + 1 /\ p < nextId + 1 /\ st # "absent" /\ st # "cancelled"
  BY <1>2, <1>4 DEF Job, NoJob
<1>8. Drawn'
  BY <1>2, <1>3, <1>4, <1>6, <1>7 DEF Drawn, Job
<1>9. ASSUME NEW r \in runs
      PROVE  r.job \in Job \ {nextId} /\ r.job < nextId'
  BY <1>2, <1>4 DEF FInv, Claimed, Run, Job
<1> QED
  BY <1>2, <1>5, <1>8, <1>9 DEF FInv, Claimed

LEMMA QueueStepSound ==
  ASSUME IInv, QueueStep
  PROVE  IInv'
<1>1. CASE AddSome
  BY <1>1, AddSound DEF AddSome
<1>2. CASE ClaimSome \/ (\E r \in runs : WorkerStep(r)) \/ Sweep \/ Operate
  BY <1>2, NextSound DEF Next
<1> QED
  BY <1>1, <1>2 DEF QueueStep

LEMMA QueueStepKeeps ==
  ASSUME FInv, QueueStep
  PROVE  FInv'
<1>1. IInv'
  BY QueueStepSound DEF FInv
<1>2. CASE AddSome
  BY <1>1, <1>2, AddKeeps DEF FInv
<1>3. CASE ClaimSome
  BY <1>1, <1>3, ClaimKeeps DEF FInv, ClaimSome
<1>4. CASE (\E r \in runs : WorkerStep(r)) \/ Sweep \/ Operate
  BY <1>1, <1>4, WorkerStepSteady, SweepSteady, OperateSteady, SteadyKeeps DEF FInv
<1> QED
  BY <1>2, <1>3, <1>4 DEF QueueStep

LEMMA FInvInit == Init => FInv
<1> SUFFICES ASSUME Init PROVE Drawn /\ Claimed
  BY InitSound DEF FInv
<1> QED
  BY DEF Init, Drawn, Claimed, NoRow, NoJob

LEMMA FInvUnchanged == FInv /\ UNCHANGED vars => FInv'
BY DEF FInv, IInv, Drawn, Claimed, vars

(* Whatever the workers, sweeps and operators do: the rows are sound, ids  *)
(* are drawn once, and what a claim read of its row's attempts is true     *)
(* while the row has its token.                                            *)
THEOREM FamilyInvariant == Spec => []FInv
<1>1. FInv /\ [Next]_vars => FInv'
  BY NextIsQueueStep, QueueStepKeeps, FInvUnchanged
<1> QED
  BY FInvInit, <1>1, PTL DEF Spec

(* The same where the jobs are those of a fan-out: each of its steps is a  *)
(* step of the queue, or leaves the queue's tables alone.                  *)
THEOREM FanFamilyInvariant == FanSpec => []FInv
<1>1. FInv /\ [FanNext]_allVars => FInv'
  BY FanNextIsQueueStep, QueueStepKeeps, FInvUnchanged
<1>2. FanInit => FInv
  BY FInvInit DEF FanInit
<1> QED
  BY <1>1, <1>2, PTL DEF FanSpec

(* The attempts_made a worker decides by, taken from the row its claim     *)
(* returned, is the row's while its fence passes.                          *)
THEOREM AttemptCountCurrent == Spec => []AttemptCountIsCurrent
<1>1. FInv => AttemptCountIsCurrent
  BY DEF FInv, Claimed, AttemptCountIsCurrent, Holds
<1> QED
  BY <1>1, FamilyInvariant, PTL
-----------------------------------------------------------------------------
(* The queue implements the life of a job.  What a step does to a row is   *)
(* one of the lifecycle's moves, or none of its business.                  *)
Life(j) == [phase |-> Phase(j), claims |-> jobs[j].started, made |-> jobs[j].made,
            result |-> jobs[j].result]

PhaseOf(status, drawn) ==
  CASE status = "absent" -> IF drawn THEN "gone" ELSE "unborn"
    [] status = "active" -> "held"
    [] status \in Terminal -> status
    [] OTHER -> "open"

LEMMA PhaseIsPhaseOf ==
  ASSUME NEW j
  PROVE  /\ Phase(j) = PhaseOf(jobs[j].status, j < nextId)
         /\ Phase(j)' = PhaseOf(jobs'[j].status, j < nextId')
BY DEF Phase, PhaseOf

LEMMA PhaseIs ==
  ASSUME NEW status \in Status
  PROVE  /\ \A drawn \in BOOLEAN :
              /\ status \in Terminal => PhaseOf(status, drawn) = status
              /\ status = "active" => PhaseOf(status, drawn) = "held"
              /\ status \in OpenStatus \ {"active"} => PhaseOf(status, drawn) = "open"
         /\ status = "absent" => /\ PhaseOf(status, TRUE) = "gone"
                                 /\ PhaseOf(status, FALSE) = "unborn"
BY DEF Status, PhaseOf, Terminal, OpenStatus

(* A parent that starts to wait for its children was open, or gives back   *)
(* its claim, and is open.                                                 *)
LEMMA AwaitingPhase ==
  ASSUME NEW status \in {"waiting", "active", "delayed"}, NEW drawn
  PROVE  /\ PhaseOf(status, drawn) \in {"open", "held"}
         /\ PhaseOf("waiting-children", drawn) = "open"
BY DEF PhaseOf, Terminal

LEMMA NotActiveIsOpen ==
  ASSUME NEW drawn
  PROVE  /\ \A status \in OpenStatus \ {"active"} : PhaseOf(status, drawn) = "open"
         /\ PhaseOf("active", drawn) = "held"
BY DEF PhaseOf, Terminal, OpenStatus

LEMMA HeldMoves ==
  ASSUME NEW c, NEW m, NEW r
  PROVE  /\ Lifecycle!Acquire([phase |-> "open", claims |-> c, made |-> m, result |-> r],
                              [phase |-> "held", claims |-> c + 1, made |-> m, result |-> r])
         /\ Lifecycle!Complete([phase |-> "held", claims |-> c, made |-> m, result |-> r],
                               [phase |-> "completed", claims |-> c, made |-> m, result |-> c])
<1> DEFINE open     == [phase |-> "open", claims |-> c, made |-> m, result |-> r]
           held     == [phase |-> "held", claims |-> c, made |-> m, result |-> r]
           acquired == [open EXCEPT !.phase = "held", !.claims = c + 1]
           finished == [held EXCEPT !.phase = "completed", !.result = c]
<1>1. /\ open = [phase |-> "open", claims |-> c, made |-> m, result |-> r]
      /\ held = [phase |-> "held", claims |-> c, made |-> m, result |-> r]
      /\ acquired = [open EXCEPT !.phase = "held", !.claims = c + 1]
      /\ finished = [held EXCEPT !.phase = "completed", !.result = c]
  OBVIOUS
<1> HIDE DEF open, held, acquired, finished
<1>2. open.phase = "open" /\ open.claims = c /\ held.phase = "held" /\ held.claims = c
  BY <1>1
<1>3. acquired = [phase |-> "held", claims |-> c + 1, made |-> m, result |-> r]
  BY <1>1
<1>4. finished = [phase |-> "completed", claims |-> c, made |-> m, result |-> c]
  BY <1>1
<1>5. Lifecycle!Acquire(open, acquired)
  BY <1>1, <1>2 DEF Lifecycle!Acquire
<1>6. Lifecycle!Complete(held, finished)
  BY <1>1, <1>2 DEF Lifecycle!Complete
<1> QED
  BY <1>1, <1>3, <1>4, <1>5, <1>6

LEMMA SteadyLives ==
  ASSUME "fallback" \notin Ops, FInv, IInv', Steady, NEW j \in Job
  PROVE  Lifecycle!Move(Life(j), Life(j)') \/ Life(j)' = Life(j)
<1> DEFINE o == jobs[j]
           n == jobs'[j]
           drawn == j < nextId
<1>1. /\ o \in Row /\ n \in Row
      /\ o.status = "absent" => o = NoRow
      /\ o.status = "cancelled" => o.token = NoToken
  BY DEF FInv, IInv, Drawn, SoundRow
<1>2. Moves(o, n) /\ nextId' = nextId
  BY DEF Steady
<1>3. o.status # "absent" => drawn = TRUE
  BY DEF FInv, Drawn, NoRow, IInv, Job
<1>4. /\ drawn \in BOOLEAN
      /\ Life(j) = [phase |-> PhaseOf(o.status, drawn), claims |-> o.started,
                    made |-> o.made, result |-> o.result]
      /\ Life(j)' = [phase |-> PhaseOf(n.status, drawn), claims |-> n.started,
                     made |-> n.made, result |-> n.result]
  BY <1>2, PhaseIsPhaseOf DEF Life
<1> HIDE DEF o, n, drawn
<1>5. o.status \in Status /\ n.status \in Status /\ n.made \in Nat /\ o.made \in Nat
  BY <1>1 DEF Row
<1>6. CASE n = o
  BY <1>4, <1>6
<1>7. CASE Turns(o, n)
  <2>1. n.started = o.started /\ n.made = o.made /\ n.result = o.result
    BY <1>7 DEF Turns, Keeps
  <2>2. CASE n.status = o.status
    BY <1>4, <2>1, <2>2
  <2>3. CASE IsOpen(o) /\ n.status \in OpenStatus \ {"active"}
    <3>1. PhaseOf(n.status, drawn) = "open" /\ PhaseOf(o.status, drawn) \in {"open", "held"}
      BY <1>4, <1>5, <2>3, PhaseIs DEF IsOpen
    <3>2. CASE PhaseOf(o.status, drawn) = "open"
      BY <1>4, <2>1, <3>1, <3>2
    <3>3. CASE PhaseOf(o.status, drawn) = "held"
      BY <1>4, <2>1, <3>1, <3>3 DEF Lifecycle!Move, Lifecycle!GiveBack, Lifecycle!SameClaims
    <3> QED
      BY <3>1, <3>2, <3>3
  <2>4. CASE IsOpen(o) /\ n.status \in {"failed", "dead", "cancelled"}
    <3>1. PhaseOf(n.status, drawn) = n.status /\ PhaseOf(o.status, drawn) \in {"open", "held"}
      BY <1>4, <1>5, <2>4, PhaseIs DEF IsOpen, Terminal
    <3> QED
      BY <1>4, <2>1, <2>4, <3>1
         DEF Lifecycle!Move, Lifecycle!Abandon, Lifecycle!SameClaims, Lifecycle!Reopenable
  <2>5. CASE o.status \in {"failed", "dead"} /\ n.status \in OpenStatus \ {"active"}
    <3>1. PhaseOf(n.status, drawn) = "open" /\ PhaseOf(o.status, drawn) = o.status
      BY <1>4, <1>5, <2>5, PhaseIs DEF Terminal
    <3> QED
      BY <1>4, <2>1, <2>5, <3>1 DEF Lifecycle!Move, Lifecycle!Reopen, Lifecycle!Reopenable
  <2> QED
    BY <1>1, <1>7, <2>2, <2>3, <2>4, <2>5 DEF Turns
<1>8. CASE Burns(o, n)
  <2>1. /\ n.started = o.started /\ n.made = o.made + 1 /\ n.result = o.result
        /\ o.status = "active" /\ n.status \in {"delayed", "dead"}
    BY <1>8 DEF Burns, Keeps
  <2>2. /\ PhaseOf(o.status, drawn) = "held"
        /\ n.status = "delayed" => PhaseOf(n.status, drawn) = "open"
        /\ n.status = "dead" => PhaseOf(n.status, drawn) = "dead"
    BY <1>4, <1>5, <2>1, PhaseIs DEF Terminal, OpenStatus
  <2> QED
    BY <1>4, <2>1, <2>2
       DEF Lifecycle!Move, Lifecycle!GiveBack, Lifecycle!Abandon, Lifecycle!SameClaims,
           Lifecycle!Reopenable
<1>9. CASE Finishes(o, n)
  <2>1. /\ n.started = o.started /\ n.made = o.made /\ n.result = o.started
        /\ o.status = "active" /\ n.status = "completed"
    BY <1>9 DEF Finishes, Keeps
  <2>2. PhaseOf(o.status, drawn) = "held" /\ PhaseOf(n.status, drawn) = "completed"
    BY <1>4, <1>5, <2>1, PhaseIs DEF Terminal
  <2>3. /\ Life(j) = [phase |-> "held", claims |-> o.started, made |-> o.made,
                      result |-> o.result]
        /\ Life(j)' = [phase |-> "completed", claims |-> o.started, made |-> o.made,
                       result |-> o.started]
    BY <1>4, <2>1, <2>2
  <2> QED
    BY <2>3, HeldMoves DEF Lifecycle!Move
<1>10. CASE Goes(o, n)
  <2>1. o.status # "absent" /\ n = NoRow /\ o.status \in Terminal \cup {"active"}
    BY <1>10 DEF Goes, Terminal
  <2>2. n.status = "absent" /\ n.started = 0 /\ n.made = 0 /\ n.result = 0 /\ drawn = TRUE
    BY <1>3, <2>1 DEF NoRow
  <2>3. /\ PhaseOf(n.status, drawn) = "gone"
        /\ PhaseOf(o.status, drawn) \in Terminal \cup {"held"}
    BY <1>4, <1>5, <2>1, <2>2, PhaseIs
  <2>4. Life(j)' = [phase |-> "gone", claims |-> 0, made |-> 0, result |-> 0]
    BY <1>4, <2>2, <2>3
  <2>5. Life(j).phase \in Terminal \cup {"held"}
    BY <1>4, <2>3
  <2> QED
    BY <2>4, <2>5
       DEF Lifecycle!Move, Lifecycle!Remove, Lifecycle!SettleAndRemove, Lifecycle!Unborn,
           Lifecycle!Reopenable, Lifecycle!Final, Terminal
<1> QED
  BY <1>2, <1>6, <1>7, <1>8, <1>9, <1>10 DEF Moves

(* add enqueues the new job; a parent that was held gives itself back.     *)
LEMMA AddLives ==
  ASSUME FInv, IInv', AddSome, NEW j \in Job
  PROVE  Lifecycle!Move(Life(j), Life(j)') \/ Life(j)' = Life(j)
<1>1. PICK p \in Job \cup {NoJob}, st \in {"waiting", "delayed"},
           policy \in {"fail_parent", "remove_dep", "ignore"},
           removeOn \in SUBSET {"complete", "fail"}, deadline \in BOOLEAN :
             Add(p, st, policy, removeOn, deadline)
  BY DEF AddSome
<1> DEFINE new == NewRow(p, st, policy, removeOn, deadline)
<1>2. /\ nextId \in Job /\ nextId' = nextId + 1 /\ jobs[nextId] = NoRow
      /\ jobs'[nextId] = new
      /\ \A k \in Job \ {nextId} :
           jobs'[k] = IF k = p /\ jobs[k].status \in {"waiting", "active", "delayed"}
                      THEN [jobs[k] EXCEPT !.status = "waiting-children"]
                      ELSE jobs[k]
  BY <1>1, AddDoes
<1>3. new.status = st /\ new.started = 0 /\ new.made = 0 /\ new.result = 0
  BY NewRowFields
<1> HIDE DEF new
<1>4. /\ Life(j) = [phase |-> PhaseOf(jobs[j].status, j < nextId), claims |-> jobs[j].started,
                    made |-> jobs[j].made, result |-> jobs[j].result]
      /\ Life(j)' = [phase |-> PhaseOf(jobs'[j].status, j < nextId'),
                     claims |-> jobs'[j].started, made |-> jobs'[j].made,
                     result |-> jobs'[j].result]
  BY PhaseIsPhaseOf DEF Life
<1>5. jobs[j] \in Row /\ jobs[j].status \in Status /\ (j < nextId) \in BOOLEAN
  BY DEF FInv, IInv, SoundRow, Row
<1>6. CASE j = nextId
  <2>1. (j < nextId) = FALSE
    BY <1>2, <1>6 DEF Job
  <2>2. PhaseOf(jobs[j].status, j < nextId) = "unborn"
    <3>1. jobs[j].status = "absent"
      BY <1>2, <1>6 DEF NoRow
    <3> QED
      BY <1>5, <2>1, <3>1, PhaseIs
  <2>3. PhaseOf(st, j < nextId') = "open"
    BY NotActiveIsOpen DEF OpenStatus
  <2>4. Life(j) = [phase |-> "unborn", claims |-> 0, made |-> 0, result |-> 0]
    BY <1>2, <1>4, <1>6, <2>2 DEF NoRow
  <2>5. Life(j)' = [phase |-> "open", claims |-> 0, made |-> 0, result |-> 0]
    BY <1>2, <1>3, <1>4, <1>6, <2>3
  <2> QED
    BY <2>4, <2>5 DEF Lifecycle!Move, Lifecycle!Enqueue, Lifecycle!Unborn
<1>7. CASE j # nextId
  <2>1. (j < nextId') = (j < nextId)
    BY <1>2, <1>7 DEF Job
  <2>2. CASE jobs'[j] = jobs[j]
    BY <1>4, <2>1, <2>2
  <2>3. CASE jobs'[j] # jobs[j]
    <3>1. /\ jobs[j].status \in {"waiting", "active", "delayed"}
          /\ jobs'[j].status = "waiting-children" /\ jobs'[j].started = jobs[j].started
          /\ jobs'[j].made = jobs[j].made /\ jobs'[j].result = jobs[j].result
      <4>1. /\ jobs'[j] = [jobs[j] EXCEPT !.status = "waiting-children"]
            /\ jobs[j].status \in {"waiting", "active", "delayed"}
        BY <1>2, <1>7, <2>3
      <4> QED
        BY <1>5, <4>1, AwaitingFields
    <3>2. /\ PhaseOf(jobs[j].status, j < nextId) \in {"open", "held"}
          /\ PhaseOf("waiting-children", j < nextId) = "open"
      BY <3>1, AwaitingPhase
    <3> QED
      BY <1>4, <2>1, <3>1, <3>2 DEF Lifecycle!Move, Lifecycle!GiveBack, Lifecycle!SameClaims
  <2> QED
    BY <2>2, <2>3
<1> QED
  BY <1>6, <1>7

LEMMA ClaimLives ==
  ASSUME FInv, NEW i \in Job, NEW mode, Claim(i, mode), NEW j \in Job
  PROVE  Lifecycle!Move(Life(j), Life(j)') \/ Life(j)' = Life(j)
<1>1. /\ jobs[i].status = "waiting" /\ nextId' = nextId
      /\ j # i => jobs'[j] = jobs[j]
      /\ jobs'[i].status = "active" /\ jobs'[i].started = jobs[i].started + 1
      /\ jobs'[i].made = jobs[i].made /\ jobs'[i].result = jobs[i].result
  BY ClaimDoes DEF FInv, IInv
<1>2. /\ Life(j) = [phase |-> PhaseOf(jobs[j].status, j < nextId), claims |-> jobs[j].started,
                    made |-> jobs[j].made, result |-> jobs[j].result]
      /\ Life(j)' = [phase |-> PhaseOf(jobs'[j].status, j < nextId'),
                     claims |-> jobs'[j].started, made |-> jobs'[j].made,
                     result |-> jobs'[j].result]
  BY PhaseIsPhaseOf DEF Life
<1>3. PhaseOf("waiting", j < nextId) = "open" /\ PhaseOf("active", j < nextId) = "held"
  BY NotActiveIsOpen DEF OpenStatus
<1>4. CASE j = i
  <2>1. /\ Life(j) = [phase |-> "open", claims |-> jobs[i].started, made |-> jobs[i].made,
                      result |-> jobs[i].result]
        /\ Life(j)' = [phase |-> "held", claims |-> jobs[i].started + 1,
                       made |-> jobs[i].made, result |-> jobs[i].result]
    BY <1>1, <1>2, <1>3, <1>4
  <2> QED
    BY <2>1, HeldMoves DEF Lifecycle!Move
<1>5. CASE j # i
  BY <1>1, <1>2, <1>5
<1> QED
  BY <1>4, <1>5

(* The queue implements JobLifecycle, whatever the other jobs, workers,    *)
(* sweeps and operators do.  Where the fallback of a quiet-hours skip is   *)
(* used a cancelled job may be reopened: see the README.                   *)
THEOREM QueueImplementsLifecycle ==
  ASSUME "fallback" \notin Ops
  PROVE  Spec => ImplementsLifecycle
<1> DEFINE lives == [j \in Job |-> Life(j)]
<1>1. Init => Lifecycle!Init
  <2> SUFFICES ASSUME Init, NEW j \in Job
               PROVE  Life(j) = Lifecycle!Unborn
    BY DEF Lifecycle!Init, Life
  <2>1. jobs[j] = NoRow /\ (j < nextId) = FALSE
    BY DEF Init, Job
  <2>2. PhaseOf("absent", j < nextId) = "unborn"
    BY <2>1, PhaseIs DEF Status
  <2>3. Phase(j) = "unborn"
    BY <2>1, <2>2, PhaseIsPhaseOf DEF NoRow
  <2> QED
    BY <2>1, <2>3 DEF Life, NoRow, Lifecycle!Unborn
<1>2. ASSUME FInv, FInv', [Next]_vars
      PROVE  [Lifecycle!Next]_lives
  <2>1. ASSUME NEW j \in Job, Next
        PROVE  Lifecycle!Move(Life(j), Life(j)') \/ Life(j)' = Life(j)
    <3>1. IInv'
      BY <1>2 DEF FInv
    <3>2. CASE AddSome
      BY <1>2, <3>1, <3>2, AddLives
    <3>3. CASE ClaimSome
      BY <1>2, <3>3, ClaimLives DEF ClaimSome
    <3>4. CASE (\E r \in runs : WorkerStep(r)) \/ Sweep \/ Operate
      BY <1>2, <3>1, <3>4, WorkerStepSteady, SweepSteady, OperateSteady, SteadyLives
    <3> QED
      BY <2>1, <3>2, <3>3, <3>4, NextIsQueueStep DEF QueueStep
  <2>2. CASE Next
    BY <2>1, <2>2 DEF Lifecycle!Next, Life
  <2>3. CASE UNCHANGED vars
    BY <2>3 DEF vars, Life, Phase
  <2> QED
    BY <1>2, <2>2, <2>3
<1>3. [Next]_vars /\ FInv /\ FInv' => [Lifecycle!Next]_lives
  BY <1>2
<1> QED
  BY <1>1, <1>3, FamilyInvariant, PTL DEF Spec, ImplementsLifecycle, Lifecycle!Spec, Life
-----------------------------------------------------------------------------
(* Who is told when a child settles.                                       *)

(* Resolve and DELETE as the children of a row that stays see them: the    *)
(* same rows are open, below the same parent.                              *)
LEMMA ResolveKeepsOpen ==
  ASSUME NEW tbl \in [Job -> SoundRow], NEW P, NEW k \in Job
  PROVE  /\ IsOpen(Resolve(tbl, P)[k]) <=> IsOpen(tbl[k])
         /\ ~IsOpen(tbl[k]) => Resolve(tbl, P)[k] = tbl[k]
         /\ Resolve(tbl, P)[k].parent = tbl[k].parent
         /\ Resolve(tbl, P)[k].error = tbl[k].error
BY DEF Resolve, IsOpen, OpenStatus, SoundRow, Row

LEMMA DeleteKeepsOpen ==
  ASSUME NEW tbl \in [Job -> SoundRow], NEW S, NEW k \in Job
  PROVE  /\ k \in S => DeleteRows(tbl, S)[k] = NoRow /\ ~IsOpen(NoRow)
         /\ k \notin S => /\ DeleteRows(tbl, S)[k].status = tbl[k].status
                          /\ DeleteRows(tbl, S)[k].error = tbl[k].error
                          /\ tbl[k].parent \notin S =>
                               DeleteRows(tbl, S)[k].parent = tbl[k].parent
BY DEF DeleteRows, IsOpen, OpenStatus, NoRow, SoundRow, Row

LEMMA DeliverTells ==
  ASSUME NEW tbl, NEW S, NEW outcome, NEW p \in Job, NEW c \in S,
         tbl[c].parent = p, IsOpen(tbl[p])
  PROVE  \E m \in Deliver(tbl, S, outcome)[p] : m.child = c /\ m.claim = tbl[c].started
<1> DEFINE m == [child |-> c, outcome |-> outcome, claim |-> tbl[c].started]
<1>1. m \in Deliver(tbl, S, outcome)[p] /\ m.child = c /\ m.claim = tbl[c].started
  BY DEF Deliver
<1> QED
  BY <1>1

LEMMA BurnsFields ==
  ASSUME NEW row \in SoundRow, NEW st, NEW err, NEW burned
  PROVE  /\ Charged(Blamed(row, st, err), burned).parent = row.parent
         /\ Charged(Blamed(row, st, err), burned).started = row.started
BY DEF Charged, Blamed, Unlocked, SoundRow, Row

(* A policy closes the parent only, and says so in its error_text.         *)
LEMMA PolicySettles ==
  ASSUME NEW tbl \in [Job -> SoundRow], NEW j \in Job, tbl[j].status = "dead"
  PROVE  /\ ApplyPolicy(tbl, j)[j].status = "dead"
         /\ \A k \in Job : IsOpen(tbl[k]) => \/ IsOpen(ApplyPolicy(tbl, j)[k])
                                            \/ Unreported(ApplyPolicy(tbl, j)[k])
<1> DEFINE p == tbl[j].parent
           freed == [tbl EXCEPT ![j].parent = NoJob]
           failed == [tbl EXCEPT ![p].status = "failed", ![p].error = "child"]
<1>1. p \in Job \cup {NoJob} /\ freed \in [Job -> SoundRow]
  BY OrphanSound DEF SoundRow, Row
<1>2. \A k \in Job : freed[k].status = tbl[k].status
  BY DEF SoundRow, Row
<1>3. ASSUME p \in Job, tbl[p].status = "waiting-children"
      PROVE  /\ \A k \in Job \ {p} : failed[k] = tbl[k]
             /\ p # j /\ failed[p].error = "child"
  BY <1>3 DEF SoundRow, Row
<1>4. \/ ApplyPolicy(tbl, j) = tbl
      \/ ApplyPolicy(tbl, j) = Resolve(freed, {p})
      \/ ApplyPolicy(tbl, j) = Resolve(tbl, {p})
      \/ p \in Job /\ tbl[p].status = "waiting-children" /\ ApplyPolicy(tbl, j) = failed
  BY PolicyCases
<1> HIDE DEF freed, failed
<1>5. CASE ApplyPolicy(tbl, j) = tbl
  BY <1>5
<1>6. CASE ApplyPolicy(tbl, j) = Resolve(freed, {p})
  BY <1>1, <1>2, <1>6, ResolveKeepsOpen DEF IsOpen, OpenStatus
<1>7. CASE ApplyPolicy(tbl, j) = Resolve(tbl, {p})
  BY <1>7, ResolveKeepsOpen DEF IsOpen, OpenStatus
<1>8. CASE p \in Job /\ tbl[p].status = "waiting-children" /\ ApplyPolicy(tbl, j) = failed
  BY <1>3, <1>8 DEF Unreported
<1> QED
  BY <1>4, <1>5, <1>6, <1>7, <1>8

(* What SettledChildReports asks of a step for one child.                  *)
Told(c) ==
  \A p \in {jobs[c].parent} \ {NoJob} :
    /\ Settles(c) /\ IsOpen(jobs[p])
    /\ IsOpen(jobs'[p]) \/ jobs'[p].status = "failed"
    /\ ~Unreported(jobs'[c])
    => \E m \in inbox'[p] : m.child = c /\ m.claim = jobs[c].started

LEMMA CompleteJobTells ==
  ASSUME FInv, NEW r \in runs, Holds(jobs, r), CompleteJob(r), NEW c \in Job
  PROVE  Told(c)
<1> DEFINE settled == [jobs EXCEPT ![r.job] = Completed(jobs[r.job], r.claim)]
           woken == Resolve(settled, {jobs[r.job].parent})
           posted == Deliver(settled, {r.job}, "complete")
           gone == IF "complete" \in jobs[r.job].removeOn THEN {r.job} ELSE {}
<1>1. r.job \in Job /\ jobs \in [Job -> SoundRow] /\ jobs[r.job].status = "active"
  BY DEF FInv, IInv, Run, Holds
<1>2. r.claim = jobs[r.job].started /\ r.claim \in Nat
  BY HolderHasLastClaim DEF FInv, IInv, Run
<1>3. /\ settled \in [Job -> SoundRow] /\ settled[r.job].status = "completed"
      /\ settled[r.job].parent = jobs[r.job].parent
      /\ settled[r.job].started = jobs[r.job].started
      /\ \A k \in Job \ {r.job} : settled[k] = jobs[k]
  <2>1. Completed(jobs[r.job], r.claim) \in SoundRow
    BY <1>1, <1>2, CompletedSound
  <2>2. LET d == Completed(jobs[r.job], r.claim)
        IN d.status = "completed" /\ d.parent = jobs[r.job].parent
           /\ d.started = jobs[r.job].started
    BY <1>1 DEF Completed, Unlocked, SoundRow, Row
  <2> QED
    BY <1>1, <2>1, <2>2
<1>4. jobs' = DeleteRows(woken, gone) /\ inbox' = DeleteInboxes(posted, gone)
      /\ gone \subseteq {r.job}
  BY DEF CompleteJob
<1> HIDE DEF settled, gone
<1>5. /\ woken \in [Job -> SoundRow] /\ woken[r.job].status = "completed"
      /\ \A k \in Job : IsOpen(settled[k]) => IsOpen(woken[k])
  <2>1. woken \in [Job -> SoundRow]
    BY <1>3, ResolveSound
  <2>2. ~IsOpen(settled[r.job])
    BY <1>3 DEF IsOpen, OpenStatus
  <2>3. \A k \in Job : /\ ~IsOpen(settled[k]) => woken[k] = settled[k]
                       /\ IsOpen(settled[k]) => IsOpen(woken[k])
    BY <1>3, ResolveKeepsOpen
  <2> QED
    BY <1>1, <1>3, <2>1, <2>2, <2>3
<1> HIDE DEF woken
<1>6. ASSUME c # r.job, IsOpen(jobs[c]) PROVE IsOpen(jobs'[c])
  BY <1>3, <1>4, <1>5, <1>6, DeleteKeepsOpen DEF IsOpen
<1>7. ~IsOpen(jobs'[r.job]) /\ jobs'[r.job].status # "failed"
  BY <1>1, <1>4, <1>5, DeleteKeepsOpen DEF IsOpen, OpenStatus, NoRow
<1>8. ASSUME NEW p \in {jobs[c].parent} \ {NoJob}, c = r.job, p # r.job, IsOpen(jobs[p])
      PROVE  \E m \in inbox'[p] : m.child = c /\ m.claim = jobs[c].started
  <2>1. p \in Job
    BY DEF FInv, IInv, SoundRow, Row
  <2>2. inbox'[p] = posted[p]
    BY <1>4, <1>8, <2>1 DEF DeleteInboxes
  <2> QED
    BY <1>1, <1>3, <1>8, <2>1, <2>2, DeliverTells
<1> QED
  BY <1>6, <1>7, <1>8 DEF Told, Settles

LEMMA FailJobTells ==
  ASSUME FInv, NEW r \in runs, Holds(jobs, r), FailJob(r), NEW c \in Job
  PROVE  Told(c)
<1> DEFINE settled == [jobs EXCEPT ![r.job] = Charged(Blamed(jobs[r.job], "dead", "run"), 1)]
           decided == ApplyPolicy(settled, r.job)
           posted == Deliver(settled, {r.job}, "dead")
           gone == IF "fail" \in jobs[r.job].removeOn THEN {r.job} ELSE {}
<1>1. r.job \in Job /\ jobs \in [Job -> SoundRow] /\ jobs[r.job].status = "active"
  BY DEF FInv, IInv, Run, Holds
<1>2. /\ settled \in [Job -> SoundRow] /\ settled[r.job].status = "dead"
      /\ \A k \in Job \ {r.job} : settled[k] = jobs[k]
  BY <1>1, KilledSound DEF Errors
<1>3. settled[r.job].parent = jobs[r.job].parent /\ settled[r.job].started = jobs[r.job].started
  BY <1>1, BurnsFields
<1>4. jobs' = DeleteRows(decided, gone) /\ inbox' = DeleteInboxes(posted, gone)
      /\ gone \subseteq {r.job}
  BY DEF FailJob
<1> HIDE DEF settled, gone
<1>5. /\ decided \in [Job -> SoundRow] /\ decided[r.job].status = "dead"
      /\ \A k \in Job : IsOpen(settled[k]) => IsOpen(decided[k]) \/ Unreported(decided[k])
  BY <1>1, <1>2, ApplyPolicySound, PolicySettles
<1> HIDE DEF decided
<1>6. ASSUME c # r.job, IsOpen(jobs[c]) PROVE IsOpen(jobs'[c]) \/ Unreported(jobs'[c])
  BY <1>2, <1>4, <1>5, <1>6, DeleteKeepsOpen DEF IsOpen, Unreported
<1>7. ~IsOpen(jobs'[r.job]) /\ jobs'[r.job].status # "failed"
  BY <1>1, <1>4, <1>5, DeleteKeepsOpen DEF IsOpen, OpenStatus, NoRow
<1>8. ASSUME NEW p \in {jobs[c].parent} \ {NoJob}, c = r.job, p # r.job, IsOpen(jobs[p])
      PROVE  \E m \in inbox'[p] : m.child = c /\ m.claim = jobs[c].started
  <2>1. p \in Job
    BY DEF FInv, IInv, SoundRow, Row
  <2>2. inbox'[p] = posted[p]
    BY <1>4, <1>8, <2>1 DEF DeleteInboxes
  <2> QED
    BY <1>1, <1>2, <1>3, <1>8, <2>1, <2>2, DeliverTells
<1> QED
  BY <1>6, <1>7, <1>8 DEF Told, Settles

(* cancelJob and the timeout sweeps settle a set of rows and tell the      *)
(* parents that are not among them.                                        *)
LEMMA SettledSetTells ==
  ASSUME FInv, NEW S \in SUBSET Job, NEW outcome, NEW tbl \in [Job -> SoundRow], NEW P,
         \A k \in Job \ S : tbl[k] = jobs[k],
         \A k \in S : /\ tbl[k].status \in {"cancelled", "dead"}
                      /\ tbl[k].parent = jobs[k].parent /\ tbl[k].started = jobs[k].started,
         jobs' = Resolve(tbl, P), inbox' = Deliver(tbl, S, outcome), NEW c \in Job
  PROVE  Told(c)
<1>1. ASSUME c \notin S, IsOpen(jobs[c]) PROVE IsOpen(jobs'[c])
  BY <1>1, ResolveKeepsOpen
<1>2. ASSUME NEW p \in S PROVE ~IsOpen(jobs'[p]) /\ jobs'[p].status # "failed"
  BY ResolveKeepsOpen DEF IsOpen, OpenStatus
<1>3. ASSUME NEW p \in {jobs[c].parent} \ {NoJob}, c \in S, p \notin S, IsOpen(jobs[p])
      PROVE  \E m \in inbox'[p] : m.child = c /\ m.claim = jobs[c].started
  <2>1. p \in Job
    BY DEF FInv, IInv, SoundRow, Row
  <2> QED
    BY <1>3, <2>1, DeliverTells
<1> QED
  BY <1>1, <1>2, <1>3 DEF Told, Settles

LEMMA CancelJobTells ==
  ASSUME FInv, NEW j \in Job, CancelJob(j), NEW c \in Job
  PROVE  Told(c)
<1> DEFINE S == {i \in Job : i \in Descendants(jobs, j) /\ IsOpen(jobs[i])}
           cancelled == [i \in Job |-> IF i \in S THEN Unlocked(jobs[i], "cancelled")
                                       ELSE jobs[i]]
<1>1. jobs \in [Job -> SoundRow]
  BY DEF FInv, IInv
<1>2. \A i \in S : /\ Unlocked(jobs[i], "cancelled") \in SoundRow
                   /\ Unlocked(jobs[i], "cancelled").status = "cancelled"
                   /\ Unlocked(jobs[i], "cancelled").parent = jobs[i].parent
                   /\ Unlocked(jobs[i], "cancelled").started = jobs[i].started
  <2>1. \A i \in S : Unlocked(jobs[i], "cancelled") \in SoundRow
    BY <1>1, UnlockedSound DEF IsOpen, OpenStatus, Status, Terminal
  <2> TAKE i \in S
  <2>2. jobs[i] \in Row
    BY <1>1 DEF SoundRow
  <2>3. /\ Unlocked(jobs[i], "cancelled").status = "cancelled"
        /\ Unlocked(jobs[i], "cancelled").parent = jobs[i].parent
        /\ Unlocked(jobs[i], "cancelled").started = jobs[i].started
    BY <2>2 DEF Unlocked, Row
  <2> QED
    BY <2>1, <2>3
<1>3. cancelled \in [Job -> SoundRow]
  BY <1>1, <1>2
<1>4. /\ \A k \in Job \ S : cancelled[k] = jobs[k]
      /\ \A k \in S : cancelled[k] = Unlocked(jobs[k], "cancelled")
  OBVIOUS
<1>5. jobs' = Resolve(cancelled, ParentsOf(jobs, S)) /\ inbox' = Deliver(cancelled, S, "cancelled")
  BY DEF CancelJob
<1>6. S \in SUBSET Job
  OBVIOUS
<1> HIDE DEF cancelled, S
<1> QED
  BY <1>2, <1>3, <1>4, <1>5, <1>6, SettledSetTells

LEMMA KillForTimeoutTells ==
  ASSUME FInv, NEW S \in SUBSET Job, NEW burned \in {0, 1},
         \A j \in S : jobs[j].status = "active", KillForTimeout(S, burned), NEW c \in Job
  PROVE  Told(c)
<1> DEFINE dead == [j \in Job |->
                     IF j \in S THEN Charged(Blamed(jobs[j], "dead", "timeout"), burned)
                     ELSE jobs[j]]
<1>1. jobs \in [Job -> SoundRow]
  BY DEF FInv, IInv
<1>2. \A j \in S : LET d == Charged(Blamed(jobs[j], "dead", "timeout"), burned)
                   IN d \in SoundRow /\ d.status = "dead" /\ d.parent = jobs[j].parent
                      /\ d.started = jobs[j].started
  BY <1>1, KilledSound, BurnsFields DEF Errors
<1>3. dead \in [Job -> SoundRow]
  BY <1>1, <1>2
<1>4. /\ \A k \in Job \ S : dead[k] = jobs[k]
      /\ \A k \in S : dead[k] = Charged(Blamed(jobs[k], "dead", "timeout"), burned)
  OBVIOUS
<1>5. jobs' = Resolve(dead, ParentsOf(jobs, S)) /\ inbox' = Deliver(dead, S, "timeout")
  BY DEF KillForTimeout
<1> HIDE DEF dead
<1> QED
  BY <1>2, <1>3, <1>4, <1>5, SettledSetTells

(* The other steps settle no child, or one whose write is Unreported.      *)
Stays(c) ==
  IsOpen(jobs[c]) =>
    \/ Unreported(jobs'[c])
    \/ /\ IsOpen(jobs'[c])
       /\ \/ jobs'[c].parent = jobs[c].parent
          \/ jobs[c].parent \in Job /\ ~IsOpen(jobs'[jobs[c].parent])

LEMMA OneRowStays ==
  ASSUME FInv, NEW j \in Job, NEW row, jobs' = [jobs EXCEPT ![j] = row],
         IsOpen(jobs[j]) => IsOpen(row) \/ Unreported(row),
         row.parent = jobs[j].parent, NEW c \in Job
  PROVE  Stays(c)
BY DEF FInv, IInv, Stays

LEMMA UnlockedStays ==
  ASSUME NEW row \in SoundRow, NEW st \in OpenStatus, NEW err
  PROVE  /\ IsOpen(Unlocked(row, st)) /\ Unlocked(row, st).parent = row.parent
         /\ IsOpen(Blamed(row, st, err)) /\ Blamed(row, st, err).parent = row.parent
BY DEF Unlocked, Blamed, IsOpen, SoundRow, Row

LEMMA AddStays ==
  ASSUME FInv, AddSome, NEW c \in Job
  PROVE  Stays(c)
<1>1. PICK p \in Job \cup {NoJob}, st \in {"waiting", "delayed"},
           policy \in {"fail_parent", "remove_dep", "ignore"},
           removeOn \in SUBSET {"complete", "fail"}, deadline \in BOOLEAN :
             Add(p, st, policy, removeOn, deadline)
  BY DEF AddSome
<1>2. /\ jobs[nextId] = NoRow
      /\ \A k \in Job \ {nextId} :
           jobs'[k] = IF k = p /\ jobs[k].status \in {"waiting", "active", "delayed"}
                      THEN [jobs[k] EXCEPT !.status = "waiting-children"]
                      ELSE jobs[k]
  BY <1>1, AddDoes
<1>3. CASE c = nextId
  BY <1>2, <1>3 DEF Stays, IsOpen, OpenStatus, NoRow
<1>4. CASE c # nextId
  <2>1. jobs[c] \in Row
    BY DEF FInv, IInv, SoundRow
  <2>2. LET w == [jobs[c] EXCEPT !.status = "waiting-children"]
        IN w.status = "waiting-children" /\ w.parent = jobs[c].parent
    BY <2>1 DEF Row
  <2> QED
    BY <1>2, <1>4, <2>2 DEF Stays, IsOpen, OpenStatus
<1> QED
  BY <1>3, <1>4

LEMMA ClaimStays ==
  ASSUME FInv, NEW j \in Job, NEW mode, Claim(j, mode), NEW c \in Job
  PROVE  Stays(c)
<1>1. /\ jobs' = [jobs EXCEPT ![j] = [jobs[j] EXCEPT !.status = "active",
                                        !.token = jobs[j].started + 1,
                                        !.started = jobs[j].started + 1]]
      /\ jobs'[j].status = "active" /\ jobs'[j].parent = jobs[j].parent
  BY ClaimDoes
<1> QED
  BY <1>1 DEF Stays, IsOpen, OpenStatus, FInv, IInv

LEMMA HandleStalledStays ==
  ASSUME FInv, NEW S \in SUBSET Job, HandleStalled(S), NEW c \in Job
  PROVE  Stays(c)
<1>1. jobs[c] \in SoundRow
  BY DEF FInv, IInv
<1>2. LET w == Stalled(Unlocked(jobs[c], "waiting"))
      IN w.status = "waiting" /\ w.parent = jobs[c].parent
  BY <1>1 DEF Stalled, Unlocked, SoundRow, Row
<1>3. Stalled(Charged(Blamed(jobs[c], "dead", "stalled"), 1)).error = "stalled"
  BY <1>1 DEF Stalled, Charged, Blamed, Unlocked, SoundRow, Row
<1>4. \/ jobs'[c] = jobs[c]
      \/ jobs'[c] = Stalled(Unlocked(jobs[c], "waiting"))
      \/ jobs'[c] = Stalled(Charged(Blamed(jobs[c], "dead", "stalled"), 1))
  BY DEF HandleStalled
<1> QED
  BY <1>2, <1>3, <1>4 DEF Stays, IsOpen, OpenStatus, Unreported

LEMMA DeletedStays ==
  ASSUME FInv, NEW S \in SUBSET Job, \A j \in S : jobs[j].status \in Terminal,
         jobs' = DeleteRows(jobs, S), NEW c \in Job
  PROVE  Stays(c)
<1>1. jobs \in [Job -> SoundRow] /\ (IsOpen(jobs[c]) => c \notin S)
  BY DEF FInv, IInv, IsOpen, OpenStatus, Terminal
<1>2. CASE jobs[c].parent \in S
  <2>1. jobs[c].parent \in Job /\ ~IsOpen(jobs'[jobs[c].parent])
    BY <1>1, <1>2, DeleteKeepsOpen
  <2> QED
    BY <1>1, <2>1, DeleteKeepsOpen DEF Stays, IsOpen
<1>3. CASE jobs[c].parent \notin S
  BY <1>1, <1>3, DeleteKeepsOpen DEF Stays, IsOpen
<1> QED
  BY <1>2, <1>3

(* The four operations that settle children and say so.                    *)
SettleAndTell ==
  \/ \E r \in runs : Holds(jobs, r) /\ (CompleteJob(r) \/ FailJob(r))
  \/ \E j \in Job : CancelJob(j)
  \/ \E S \in SUBSET Job, burned \in {0, 1} :
       (\A j \in S : jobs[j].status = "active") /\ KillForTimeout(S, burned)

LEMMA WorkerStepStays ==
  ASSUME FInv, NEW r \in runs, WorkerStep(r), ~SettleAndTell, NEW c \in Job
  PROVE  Stays(c)
<1>1. /\ r.job \in Job /\ jobs \in [Job -> SoundRow] /\ jobs[r.job] \in SoundRow
  BY DEF FInv, IInv, Run
<1>2. jobs' = jobs => Stays(c)
  BY DEF Stays
<1>3. ~CancelJob(r.job) /\ ~(Holds(jobs, r) /\ (CompleteJob(r) \/ FailJob(r)))
  BY <1>1 DEF SettleAndTell
<1>4. CASE CompleteRun(r) \/ DropRun(r) \/ EvictRun(r)
           \/ (\E mode \in {"aborted", "timedOut"} : AbortRun(r, mode))
  BY <1>2, <1>3, <1>4 DEF CompleteRun, DropRun, EvictRun, AbortRun
<1>5. CASE \E unrecoverable \in BOOLEAN : FailRun(r, unrecoverable)
  <2>1. CASE Holds(jobs, r) /\ RetryLater(r)
    <3> DEFINE d == Charged(Blamed(jobs[r.job], "delayed", "run"), 1)
    <3>1. d.parent = jobs[r.job].parent
      BY <1>1, BurnsFields
    <3>2. IsOpen(d)
      BY <1>1, <2>1, KilledSound DEF Errors, IsOpen, OpenStatus, Holds
    <3>3. jobs' = [jobs EXCEPT ![r.job] = d]
      BY <2>1 DEF RetryLater
    <3> HIDE DEF d
    <3> QED
      BY <1>1, <3>1, <3>2, <3>3, OneRowStays
  <2>2. CASE UNCHANGED <<jobs, inbox>>
    BY <1>2, <2>2
  <2> QED
    BY <1>3, <1>5, <2>1, <2>2 DEF FailRun
<1>6. CASE ReleaseLeaseFull(r)
  <2>1. CASE jobs' = [jobs EXCEPT ![r.job] = Blamed(jobs[r.job], "delayed", "run")]
    BY <1>1, <2>1, UnlockedStays, OneRowStays DEF OpenStatus
  <2> QED
    BY <1>2, <1>6, <2>1 DEF ReleaseLeaseFull
<1>7. CASE QuietDefer(r)
  <2>1. CASE jobs' = [jobs EXCEPT ![r.job] = Unlocked(jobs[r.job], "delayed")]
    BY <1>1, <2>1, UnlockedStays, OneRowStays DEF OpenStatus
  <2> QED
    BY <1>2, <1>7, <2>1 DEF QuietDefer
<1>8. CASE QuietRelease(r)
  <2> DEFINE d == [jobs[r.job] EXCEPT !.token = NoToken]
  <2>1. d.parent = jobs[r.job].parent /\ d.status = jobs[r.job].status
    BY <1>1 DEF SoundRow, Row
  <2>2. jobs' = [jobs EXCEPT ![r.job] = d] \/ jobs' = jobs
    BY <1>1, <1>8 DEF QuietRelease
  <2> HIDE DEF d
  <2>3. IsOpen(jobs[r.job]) => IsOpen(d)
    BY <2>1 DEF IsOpen
  <2> QED
    BY <1>1, <1>2, <2>1, <2>2, <2>3, OneRowStays
<1>9. CASE QuietFallback(r)
  <2> DEFINE d == [jobs[r.job] EXCEPT !.status = "cancelled", !.error = "quiet"]
  <2>1. d.parent = jobs[r.job].parent /\ d.error = "quiet"
    BY <1>1 DEF SoundRow, Row
  <2>2. jobs' = [jobs EXCEPT ![r.job] = d] \/ jobs' = jobs
    BY <1>1, <1>9 DEF QuietFallback
  <2> HIDE DEF d
  <2>3. Unreported(d)
    BY <2>1 DEF Unreported
  <2> QED
    BY <1>1, <1>2, <2>1, <2>2, <2>3, OneRowStays
<1> QED
  BY <1>3, <1>4, <1>5, <1>6, <1>7, <1>8, <1>9 DEF WorkerStep, QuietCancel

LEMMA SweepStays ==
  ASSUME FInv, Sweep, ~SettleAndTell, NEW c \in Job
  PROVE  Stays(c)
<1>1. jobs[c] \in SoundRow
  BY DEF FInv, IInv
<1>2. ASSUME NEW S \in SUBSET Job, PromoteDelayed(S) PROVE Stays(c)
  BY <1>1, <1>2, UnlockedStays DEF PromoteDelayed, Stays, OpenStatus
<1>3. ASSUME NEW S \in SUBSET Job PROVE ~HandleTimeouts(S) /\ ~HandleWallClockTimeouts(S)
  BY DEF SettleAndTell, HandleTimeouts, HandleWallClockTimeouts
<1> QED
  BY <1>2, <1>3, HandleStalledStays DEF Sweep

LEMMA OperateStays ==
  ASSUME FInv, Operate, ~SettleAndTell, NEW c \in Job
  PROVE  Stays(c)
<1>1. jobs \in [Job -> SoundRow]
  BY DEF FInv, IInv
<1>2. ASSUME NEW j \in Job, PauseJob(j) \/ ResumeJob(j) \/ RetryJob(j) PROVE Stays(c)
  <2>1. /\ IsOpen(Unlocked(jobs[j], "paused"))
        /\ Unlocked(jobs[j], "paused").parent = jobs[j].parent
        /\ IsOpen(Unlocked(jobs[j], "waiting"))
        /\ Unlocked(jobs[j], "waiting").parent = jobs[j].parent
        /\ IsOpen(Blamed(jobs[j], "waiting", "none"))
        /\ Blamed(jobs[j], "waiting", "none").parent = jobs[j].parent
    BY <1>1, UnlockedStays DEF OpenStatus
  <2> QED
    BY <1>2, <2>1, OneRowStays DEF PauseJob, ResumeJob, RetryJob
<1>3. ASSUME NEW j \in Job PROVE ~CancelTree(j)
  BY DEF SettleAndTell, CancelTree
<1>4. ASSUME NEW j \in Job, RemoveJob(j) PROVE Stays(c)
  BY <1>4, DeletedStays DEF RemoveJob
<1>5. ASSUME NEW S \in SUBSET Job, Prune(S) PROVE Stays(c)
  BY <1>5, DeletedStays DEF Prune, Terminal
<1> QED
  BY <1>2, <1>3, <1>4, <1>5 DEF Operate

LEMMA OthersStay ==
  ASSUME FInv, QueueStep, ~SettleAndTell, NEW c \in Job
  PROVE  Stays(c)
BY AddStays, ClaimStays, WorkerStepStays, SweepStays, OperateStays DEF QueueStep, ClaimSome

LEMMA QueueStepTells ==
  ASSUME FInv, QueueStep, NEW c \in Job
  PROVE  Told(c)
<1>1. CASE SettleAndTell
  BY <1>1, CompleteJobTells, FailJobTells, CancelJobTells, KillForTimeoutTells DEF SettleAndTell
<1>2. CASE ~SettleAndTell
  BY <1>2, OthersStay DEF Stays, Told, Settles
<1> QED
  BY <1>1, <1>2

(* Whatever settles a child whose parent is open tells the parent in the   *)
(* same step, before the policy fails the parent or the row is deleted;    *)
(* the three writes of Unreported are the only exceptions.                 *)
THEOREM SettledChildrenReport == Spec => SettledChildReports
<1>1. ASSUME FInv, [Next]_vars
      PROVE  [\A c \in Job : Told(c)]_vars
  BY <1>1, NextIsQueueStep, QueueStepTells
<1>2. FInv /\ [Next]_vars => [\A c \in Job : Told(c)]_vars
  BY <1>1
<1> QED
  BY <1>2, FamilyInvariant, PTL DEF Spec, SettledChildReports, Told
-----------------------------------------------------------------------------
(* When a parent is woken.                                                 *)

(* What LastChildWakesParent asks of a step for one parent.                *)
WokenByLast(p) ==
  /\ jobs[p].status = "waiting-children" /\ jobs'[p].status = "waiting-children"
  /\ OpenChildren(jobs, p) # {} /\ OpenChildren(jobs', p) = {}
  => \E c \in OpenChildren(jobs, p) : Unreported(jobs'[c])

LEMMA StaysWakes ==
  ASSUME FInv, \A c \in Job : Stays(c), NEW p \in Job
  PROVE  WokenByLast(p)
<1> SUFFICES ASSUME jobs'[p].status = "waiting-children",
                    NEW c \in OpenChildren(jobs, p), OpenChildren(jobs', p) = {}
             PROVE  Unreported(jobs'[c])
  BY DEF WokenByLast
<1>1. c \in Job /\ jobs[c].parent = p /\ IsOpen(jobs[c]) /\ IsOpen(jobs'[p])
  BY DEF OpenChildren, IsOpen, OpenStatus
<1>2. Stays(c)
  BY <1>1
<1> QED
  BY <1>1, <1>2 DEF Stays, OpenChildren

(* A waiting parent that Resolve looked at and left alone has an open      *)
(* child, also after rows that are not open were deleted.                  *)
LEMMA ResolveLeavesChild ==
  ASSUME NEW tbl \in [Job -> SoundRow], NEW P, NEW S, NEW p \in Job, p \in P,
         \A k \in S : ~IsOpen(tbl[k]),
         DeleteRows(Resolve(tbl, P), S)[p].status = "waiting-children"
  PROVE  OpenChildren(DeleteRows(Resolve(tbl, P), S), p) # {}
<1> DEFINE res == Resolve(tbl, P)
<1>1. /\ res \in [Job -> SoundRow]
      /\ \A k \in Job : /\ IsOpen(res[k]) <=> IsOpen(tbl[k])
                        /\ res[k].parent = tbl[k].parent
  BY ResolveSound, ResolveKeepsOpen
<1>2. res[p].status = "waiting-children" => OpenChildren(tbl, p) # {}
  BY DEF Resolve, SoundRow, Row
<1> HIDE DEF res
<1>3. p \notin S
  BY <1>1, DeleteKeepsOpen DEF NoRow, res
<1>4. res[p].status = "waiting-children"
  BY <1>1, <1>3, DeleteKeepsOpen DEF res
<1>5. PICK d \in Job : tbl[d].parent = p /\ IsOpen(tbl[d])
  BY <1>2, <1>4 DEF OpenChildren
<1>6. d \notin S /\ res[d].parent = p /\ IsOpen(res[d])
  BY <1>1, <1>5
<1>7. DeleteRows(res, S)[d].parent = p /\ IsOpen(DeleteRows(res, S)[d])
  BY <1>1, <1>3, <1>6, DeleteKeepsOpen DEF IsOpen
<1> QED
  BY <1>7 DEF OpenChildren, res

(* Rows are settled, their parents resolved, some of them deleted.         *)
LEMMA SettledSetWakes ==
  ASSUME FInv, NEW S \in SUBSET Job, NEW tbl \in [Job -> SoundRow], NEW P, NEW gone,
         gone \subseteq S,
         \A k \in Job \ S : tbl[k] = jobs[k],
         \A k \in S : ~IsOpen(tbl[k]) /\ jobs[k].parent \in P \cup {NoJob},
         jobs' = DeleteRows(Resolve(tbl, P), gone), NEW p \in Job
  PROVE  WokenByLast(p)
<1> SUFFICES ASSUME jobs'[p].status = "waiting-children",
                    NEW c \in OpenChildren(jobs, p), OpenChildren(jobs', p) = {}
             PROVE  FALSE
  BY DEF WokenByLast
<1>1. c \in Job /\ jobs[c].parent = p /\ IsOpen(jobs[c])
  BY DEF OpenChildren
<1>2. CASE c \in S
  <2>1. p \in P /\ \A k \in gone : ~IsOpen(tbl[k])
    BY <1>1, <1>2 DEF Job, NoJob
  <2> QED
    BY <2>1, ResolveLeavesChild
<1>3. CASE c \notin S
  <2> DEFINE res == Resolve(tbl, P)
  <2>1. res \in [Job -> SoundRow] /\ IsOpen(res[c]) /\ res[c].parent = p
    BY <1>1, <1>3, ResolveSound, ResolveKeepsOpen
  <2>2. jobs' = DeleteRows(res, gone)
    OBVIOUS
  <2> HIDE DEF res
  <2>3. p \notin gone /\ c \notin gone
    BY <1>3, <2>1, <2>2, DeleteKeepsOpen DEF NoRow
  <2>4. jobs'[c].parent = p /\ IsOpen(jobs'[c])
    BY <1>1, <2>1, <2>2, <2>3, DeleteKeepsOpen DEF IsOpen
  <2> QED
    BY <1>1, <2>4 DEF OpenChildren
<1> QED
  BY <1>2, <1>3

LEMMA DeleteNone ==
  ASSUME NEW tbl \in [Job -> SoundRow]
  PROVE  DeleteRows(tbl, {}) = tbl
BY DEF DeleteRows

LEMMA CompleteJobWakes ==
  ASSUME FInv, NEW r \in runs, Holds(jobs, r), CompleteJob(r), NEW p \in Job
  PROVE  WokenByLast(p)
<1> DEFINE settled == [jobs EXCEPT ![r.job] = Completed(jobs[r.job], r.claim)]
           gone == IF "complete" \in jobs[r.job].removeOn THEN {r.job} ELSE {}
           S == {r.job}
           P == {jobs[r.job].parent}
<1>1. r.job \in Job /\ jobs \in [Job -> SoundRow] /\ jobs[r.job].status = "active"
  BY DEF FInv, IInv, Run, Holds
<1>2. r.claim = jobs[r.job].started /\ r.claim \in Nat
  BY HolderHasLastClaim DEF FInv, IInv, Run
<1>3. /\ settled \in [Job -> SoundRow]
      /\ \A k \in Job \ S : settled[k] = jobs[k]
  BY <1>1, <1>2, CompletedSound
<1>4. ~IsOpen(settled[r.job])
  BY <1>1 DEF Completed, Unlocked, SoundRow, Row, IsOpen, OpenStatus
<1>5. jobs' = DeleteRows(Resolve(settled, P), gone)
  BY DEF CompleteJob
<1>6. S \in SUBSET Job /\ gone \subseteq S
  BY <1>1
<1>7. \A k \in S : ~IsOpen(settled[k]) /\ jobs[k].parent \in P \cup {NoJob}
  BY <1>4
<1> HIDE DEF settled, gone, S, P
<1>8. \A Q, G :
        /\ G \subseteq S /\ jobs' = DeleteRows(Resolve(settled, Q), G)
        /\ \A k \in S : ~IsOpen(settled[k]) /\ jobs[k].parent \in Q \cup {NoJob}
        => WokenByLast(p)
  BY <1>3, <1>6, SettledSetWakes
<1> QED
  BY <1>5, <1>6, <1>7, <1>8

LEMMA CancelJobWakes ==
  ASSUME FInv, NEW j \in Job, CancelJob(j), NEW p \in Job
  PROVE  WokenByLast(p)
<1> DEFINE S == {i \in Job : i \in Descendants(jobs, j) /\ IsOpen(jobs[i])}
           cancelled == [i \in Job |-> IF i \in S THEN Unlocked(jobs[i], "cancelled")
                                       ELSE jobs[i]]
           P == ParentsOf(jobs, S)
<1>1. jobs \in [Job -> SoundRow]
  BY DEF FInv, IInv
<1>2. \A i \in S : Unlocked(jobs[i], "cancelled") \in SoundRow
  BY <1>1, UnlockedSound DEF IsOpen, OpenStatus, Status, Terminal
<1>3. \A i \in S : ~IsOpen(Unlocked(jobs[i], "cancelled"))
  BY <1>1 DEF IsOpen, OpenStatus, Unlocked, SoundRow, Row
<1>4. /\ cancelled \in [Job -> SoundRow] /\ S \in SUBSET Job
      /\ \A k \in Job \ S : cancelled[k] = jobs[k]
      /\ \A k \in S : ~IsOpen(cancelled[k]) /\ jobs[k].parent \in P \cup {NoJob}
  BY <1>1, <1>2, <1>3 DEF ParentsOf
<1>5. jobs' = Resolve(cancelled, P)
  BY DEF CancelJob
<1> HIDE DEF cancelled, S, P
<1>6. jobs' = DeleteRows(Resolve(cancelled, P), {}) /\ {} \subseteq S
  BY <1>4, <1>5, DeleteNone, ResolveSound
<1> QED
  BY <1>4, <1>6, SettledSetWakes

LEMMA KillForTimeoutWakes ==
  ASSUME FInv, NEW S \in SUBSET Job, NEW burned \in {0, 1},
         \A j \in S : jobs[j].status = "active", KillForTimeout(S, burned), NEW p \in Job
  PROVE  WokenByLast(p)
<1> DEFINE dead == [j \in Job |->
                     IF j \in S THEN Charged(Blamed(jobs[j], "dead", "timeout"), burned)
                     ELSE jobs[j]]
           P == ParentsOf(jobs, S)
<1>1. jobs \in [Job -> SoundRow]
  BY DEF FInv, IInv
<1>2. \A j \in S : LET d == Charged(Blamed(jobs[j], "dead", "timeout"), burned)
                   IN d \in SoundRow /\ ~IsOpen(d)
  BY <1>1, KilledSound DEF Errors, IsOpen, OpenStatus
<1>3. /\ dead \in [Job -> SoundRow]
      /\ \A k \in Job \ S : dead[k] = jobs[k]
      /\ \A k \in S : ~IsOpen(dead[k]) /\ jobs[k].parent \in P \cup {NoJob}
  BY <1>1, <1>2 DEF ParentsOf
<1>4. jobs' = Resolve(dead, P)
  BY DEF KillForTimeout
<1> HIDE DEF dead, P
<1>5. jobs' = DeleteRows(Resolve(dead, P), {}) /\ {} \subseteq S
  BY <1>3, <1>4, DeleteNone, ResolveSound
<1> QED
  BY <1>3, <1>5, SettledSetWakes

(* failJob: the policy fails the parent, resolves it, or finds it not      *)
(* waiting.                                                                *)
LEMMA FailJobWakes ==
  ASSUME FInv, NEW r \in runs, Holds(jobs, r), FailJob(r), NEW p \in Job
  PROVE  WokenByLast(p)
<1> DEFINE settled == [jobs EXCEPT ![r.job] = Charged(Blamed(jobs[r.job], "dead", "run"), 1)]
           freed == [settled EXCEPT ![r.job].parent = NoJob]
           decided == ApplyPolicy(settled, r.job)
           gone == IF "fail" \in jobs[r.job].removeOn THEN {r.job} ELSE {}
           S == {r.job}
           q == jobs[r.job].parent
           P == {q}
<1>1. r.job \in Job /\ jobs \in [Job -> SoundRow] /\ jobs[r.job].status = "active"
  BY DEF FInv, IInv, Run, Holds
<1>2. /\ settled \in [Job -> SoundRow] /\ settled[r.job].status = "dead"
      /\ \A k \in Job \ {r.job} : settled[k] = jobs[k]
  BY <1>1, KilledSound DEF Errors
<1>3. settled[r.job].parent = q
  BY <1>1, BurnsFields
<1>4. jobs' = DeleteRows(decided, gone)
  BY DEF FailJob
<1>5. S \in SUBSET Job /\ gone \subseteq S
  BY <1>1
<1> HIDE DEF settled, gone
<1>6. freed \in [Job -> SoundRow] /\ freed[r.job].status = "dead"
      /\ \A k \in Job \ {r.job} : freed[k] = jobs[k]
  <2>1. [settled[r.job] EXCEPT !.parent = NoJob] \in SoundRow
    BY <1>1, <1>2, OrphanSound
  <2>2. [settled[r.job] EXCEPT !.parent = NoJob].status = "dead"
    BY <1>1, <1>2 DEF SoundRow, Row
  <2> QED
    BY <1>1, <1>2, <2>1, <2>2
<1>7. /\ \A k \in S : ~IsOpen(settled[k]) /\ jobs[k].parent \in P \cup {NoJob}
      /\ \A k \in S : ~IsOpen(freed[k])
  BY <1>2, <1>6 DEF IsOpen, OpenStatus
<1>8. \/ /\ q = NoJob \/ (q \in Job /\ settled[q].status # "waiting-children")
         /\ decided = settled
      \/ decided = Resolve(freed, P)
      \/ decided = Resolve(settled, P)
      \/ /\ q \in Job /\ settled[q].status = "waiting-children"
         /\ decided = [settled EXCEPT ![q].status = "failed", ![q].error = "child"]
  <2>1. LET f == settled[r.job].parent
        IN \/ /\ f = NoJob \/ (f \in Job /\ settled[f].status # "waiting-children")
              /\ ApplyPolicy(settled, r.job) = settled
           \/ ApplyPolicy(settled, r.job)
                = Resolve([settled EXCEPT ![r.job].parent = NoJob], {f})
           \/ ApplyPolicy(settled, r.job) = Resolve(settled, {f})
           \/ /\ f \in Job /\ settled[f].status = "waiting-children"
              /\ ApplyPolicy(settled, r.job)
                   = [settled EXCEPT ![f].status = "failed", ![f].error = "child"]
    BY <1>1, <1>2, PolicyCases
  <2> QED
    BY <1>3, <2>1
<1> HIDE DEF freed, decided
<1>9. CASE decided = Resolve(settled, P)
  <2> HIDE DEF S, P
  <2> QED
    BY <1>2, <1>4, <1>5, <1>7, <1>9, SettledSetWakes DEF S
<1>10. CASE decided = Resolve(freed, P)
  <2>1. \A k \in Job \ S : freed[k] = jobs[k]
    BY <1>6
  <2> HIDE DEF S, P
  <2> QED
    BY <1>4, <1>5, <1>6, <1>7, <1>10, <2>1, SettledSetWakes
<1>11. ASSUME \/ /\ q = NoJob \/ (q \in Job /\ settled[q].status # "waiting-children")
                 /\ decided = settled
              \/ /\ q \in Job /\ settled[q].status = "waiting-children"
                 /\ decided = [settled EXCEPT ![q].status = "failed", ![q].error = "child"]
       PROVE  WokenByLast(p)
  <2>1. /\ decided \in [Job -> SoundRow]
        /\ \A k \in Job \ {r.job} : decided[k] = jobs[k] \/ Unreported(decided[k])
        /\ q \in Job => decided[q].status # "waiting-children"
    <3>1. CASE /\ q = NoJob \/ (q \in Job /\ settled[q].status # "waiting-children")
               /\ decided = settled
      BY <1>2, <3>1 DEF Job, NoJob
    <3>2. CASE /\ q \in Job /\ settled[q].status = "waiting-children"
               /\ decided = [settled EXCEPT ![q].status = "failed", ![q].error = "child"]
      <4>1. /\ decided[q].status = "failed" /\ decided[q].error = "child"
            /\ \A k \in Job \ {q} : decided[k] = settled[k]
        <5>1. settled \in [Job -> SoundRow] /\ q \in Job
              /\ decided = [settled EXCEPT ![q].status = "failed", ![q].error = "child"]
          BY <1>2, <3>2
        <5>2. settled[q] \in Row
          BY <5>1 DEF SoundRow
        <5> HIDE DEF decided, settled
        <5>3. decided[q] = [settled[q] EXCEPT !.status = "failed", !.error = "child"]
          BY <5>1
        <5>4. \A k \in Job \ {q} : decided[k] = settled[k]
          BY <5>1
        <5> QED
          BY <5>2, <5>3, <5>4 DEF Row
      <4>2. decided \in [Job -> SoundRow]
        BY <1>1, <1>2, ApplyPolicySound DEF decided
      <4> QED
        BY <1>2, <3>2, <4>1, <4>2 DEF Unreported
    <3> QED
      BY <1>11, <3>1, <3>2
  <2> SUFFICES ASSUME jobs'[p].status = "waiting-children",
                      NEW c \in OpenChildren(jobs, p), OpenChildren(jobs', p) = {}
               PROVE  Unreported(jobs'[c])
    BY DEF WokenByLast
  <2>2. c \in Job /\ jobs[c].parent = p /\ IsOpen(jobs[c])
    BY DEF OpenChildren
  <2>3. p \notin gone /\ jobs'[p].status = decided[p].status
    BY <1>4, <2>1, DeleteKeepsOpen DEF NoRow
  <2>4. c # r.job
    BY <2>1, <2>2, <2>3
  <2>5. /\ jobs'[c].status = decided[c].status /\ jobs'[c].error = decided[c].error
        /\ decided[c].parent # p \/ jobs'[c].parent = p
    BY <1>4, <1>5, <2>1, <2>2, <2>3, <2>4, DeleteKeepsOpen
  <2>6. CASE Unreported(decided[c])
    BY <2>5, <2>6 DEF Unreported
  <2>7. CASE decided[c] = jobs[c]
    BY <2>2, <2>5, <2>7 DEF OpenChildren, IsOpen
  <2> QED
    BY <2>1, <2>2, <2>4, <2>6, <2>7
<1> QED
  BY <1>8, <1>9, <1>10, <1>11

LEMMA QueueStepWakes ==
  ASSUME FInv, QueueStep, NEW p \in Job
  PROVE  WokenByLast(p)
<1>1. CASE SettleAndTell
  BY <1>1, CompleteJobWakes, FailJobWakes, CancelJobWakes, KillForTimeoutWakes
     DEF SettleAndTell
<1>2. CASE ~SettleAndTell
  BY <1>2, OthersStay, StaysWakes
<1> QED
  BY <1>1, <1>2

(* The step that settles the last open child of a waiting parent wakes the *)
(* parent (or settles it), unless its write is one of Unreported; also     *)
(* where the jobs are those of a fan-out.                                  *)
THEOREM LastChildWakes ==
  /\ Spec => LastChildWakesParent
  /\ FanSpec => LastChildWakesParent
<1>1. ASSUME FInv, QueueStep \/ UNCHANGED vars
      PROVE  [\A p \in Job : WokenByLast(p)]_vars
  BY <1>1, QueueStepWakes
<1>2. /\ FInv /\ [Next]_vars => [\A p \in Job : WokenByLast(p)]_vars
      /\ FInv /\ [FanNext]_allVars => [\A p \in Job : WokenByLast(p)]_vars
  BY <1>1, NextIsQueueStep, FanNextIsQueueStep
<1>3. Spec => LastChildWakesParent
  BY <1>2, FamilyInvariant, PTL DEF Spec, LastChildWakesParent, WokenByLast
<1>4. FanSpec => LastChildWakesParent
  BY <1>2, FanFamilyInvariant, PTL DEF FanSpec, LastChildWakesParent, WokenByLast
<1> QED
  BY <1>3, <1>4
-----------------------------------------------------------------------------
(* A parent runs only when its children have settled.                      *)
Ready == {"waiting", "active", "delayed"}

Waits(tbl) == \A p \in Job : tbl[p].status \in Ready => OpenChildren(tbl, p) = {}

(* A write that makes no row ready, opens none and moves none below        *)
(* another parent.                                                         *)
LEMMA WaitsOn ==
  ASSUME NEW tbl \in [Job -> SoundRow], NEW new \in [Job -> SoundRow], Waits(tbl),
         \A k \in Job :
           /\ new[k].status \in Ready => tbl[k].status \in Ready
           /\ IsOpen(new[k]) => /\ IsOpen(tbl[k])
                                /\ new[k].parent \in {tbl[k].parent, NoJob}
  PROVE  Waits(new)
<1> SUFFICES ASSUME NEW p \in Job, new[p].status \in Ready, NEW c \in OpenChildren(new, p)
             PROVE  c \in OpenChildren(tbl, p)
  BY DEF Waits
<1> QED
  BY DEF OpenChildren, Job, NoJob

LEMMA WaitsResolve ==
  ASSUME NEW tbl \in [Job -> SoundRow], NEW P, Waits(tbl)
  PROVE  Waits(Resolve(tbl, P))
<1> DEFINE res == Resolve(tbl, P)
<1>1. \A k \in Job : (IsOpen(res[k]) <=> IsOpen(tbl[k])) /\ res[k].parent = tbl[k].parent
  BY ResolveKeepsOpen
<1>2. \A k \in Job : res[k].status = tbl[k].status \/ OpenChildren(tbl, k) = {}
  BY DEF Resolve
<1> HIDE DEF res
<1>3. \A k \in Job : OpenChildren(res, k) = OpenChildren(tbl, k)
  BY <1>1 DEF OpenChildren
<1>4. Waits(res)
  BY <1>2, <1>3 DEF Waits
<1> QED
  BY <1>4 DEF res

LEMMA WaitsDelete ==
  ASSUME NEW tbl \in [Job -> SoundRow], NEW S, Waits(tbl)
  PROVE  Waits(DeleteRows(tbl, S))
<1> DEFINE new == DeleteRows(tbl, S)
<1>1. new \in [Job -> SoundRow]
  BY DeleteRowsSound
<1>2. ASSUME NEW k \in Job
      PROVE  /\ new[k].status \in Ready => tbl[k].status \in Ready
             /\ IsOpen(new[k]) => IsOpen(tbl[k]) /\ new[k].parent \in {tbl[k].parent, NoJob}
  <2>1. CASE k \in S
    BY <2>1, DeleteKeepsOpen DEF Ready, NoRow, IsOpen
  <2>2. CASE k \notin S
    <3>1. new[k].parent \in {tbl[k].parent, NoJob}
      BY <2>2 DEF DeleteRows, SoundRow, Row
    <3> QED
      BY <2>2, <3>1, DeleteKeepsOpen DEF IsOpen
  <2> QED
    BY <2>1, <2>2
<1> HIDE DEF new
<1>3. Waits(new)
  BY <1>1, <1>2, WaitsOn
<1> QED
  BY <1>3 DEF new

(* One row is settled, or goes from ready to ready.                        *)
LEMMA WaitsOne ==
  ASSUME NEW tbl \in [Job -> SoundRow], NEW j \in Job, NEW row \in SoundRow, Waits(tbl),
         row.status \in Ready => tbl[j].status \in Ready,
         IsOpen(row) => IsOpen(tbl[j]) /\ row.parent = tbl[j].parent
  PROVE  Waits([tbl EXCEPT ![j] = row])
<1> DEFINE new == [tbl EXCEPT ![j] = row]
<1>1. /\ new \in [Job -> SoundRow] /\ new[j] = row
      /\ \A k \in Job \ {j} : new[k] = tbl[k]
  OBVIOUS
<1> HIDE DEF new
<1>2. Waits(new)
  BY <1>1, WaitsOn
<1> QED
  BY <1>2 DEF new

LEMMA WaitsPolicy ==
  ASSUME NEW tbl \in [Job -> SoundRow], NEW j \in Job, tbl[j].status = "dead", Waits(tbl)
  PROVE  Waits(ApplyPolicy(tbl, j))
<1> DEFINE p == tbl[j].parent
           freed == [tbl EXCEPT ![j].parent = NoJob]
           failed == [tbl EXCEPT ![p].status = "failed", ![p].error = "child"]
<1>1. freed \in [Job -> SoundRow] /\ Waits(freed)
  <2> DEFINE d == [tbl[j] EXCEPT !.parent = NoJob]
  <2>1. d \in SoundRow /\ d.status = "dead" /\ freed = [tbl EXCEPT ![j] = d]
    BY OrphanSound DEF SoundRow, Row
  <2> HIDE DEF d, freed
  <2>2. Waits([tbl EXCEPT ![j] = d])
    BY <2>1, WaitsOne DEF IsOpen, OpenStatus, Ready
  <2> QED
    BY <2>1, <2>2
<1>2. CASE /\ p \in Job /\ tbl[p].status = "waiting-children"
           /\ ApplyPolicy(tbl, j) = failed
  <2>1. failed \in [Job -> SoundRow]
    BY <1>2, ApplyPolicySound
  <2>2. failed[p].status = "failed" /\ \A k \in Job \ {p} : failed[k] = tbl[k]
    BY <1>2 DEF SoundRow, Row
  <2> HIDE DEF failed
  <2>3. Waits(failed)
    BY <2>1, <2>2, WaitsOn DEF IsOpen, OpenStatus, Ready
  <2> QED
    BY <1>2, <2>3
<1>3. \/ ApplyPolicy(tbl, j) = tbl
      \/ ApplyPolicy(tbl, j) = Resolve(freed, {p})
      \/ ApplyPolicy(tbl, j) = Resolve(tbl, {p})
      \/ p \in Job /\ tbl[p].status = "waiting-children" /\ ApplyPolicy(tbl, j) = failed
  BY PolicyCases
<1>4. Waits(Resolve(freed, {p})) /\ Waits(Resolve(tbl, {p}))
  <2> HIDE DEF freed
  <2> QED
    BY <1>1, WaitsResolve
<1> QED
  BY <1>2, <1>3, <1>4
-----------------------------------------------------------------------------
(* No worker defers or skips a claim in quiet hours.                       *)
Unquiet == \A r \in runs : r.mode \notin {"defer", "skip", "skipping"}

PInv == FInv /\ Unquiet /\ ParentsWaitForChildren

LEMMA SettleWaits ==
  ASSUME FInv, Waits(jobs), SettleAndTell
  PROVE  Waits(jobs')
<1>1. jobs \in [Job -> SoundRow]
  BY DEF FInv, IInv
<1>2. ASSUME NEW r \in runs, Holds(jobs, r), CompleteJob(r) PROVE Waits(jobs')
  <2> DEFINE d == Completed(jobs[r.job], r.claim)
             settled == [jobs EXCEPT ![r.job] = d]
             gone == IF "complete" \in jobs[r.job].removeOn THEN {r.job} ELSE {}
  <2>1. r.job \in Job /\ r.claim = jobs[r.job].started /\ r.claim \in Nat
    BY <1>2, HolderHasLastClaim DEF FInv, IInv, Run
  <2>2. d \in SoundRow
    BY <1>1, <2>1, CompletedSound
  <2>3. d.status = "completed"
    BY <1>1, <2>1 DEF Completed, Unlocked, SoundRow, Row
  <2>4. jobs' = DeleteRows(Resolve(settled, {jobs[r.job].parent}), gone)
    BY <1>2 DEF CompleteJob
  <2> HIDE DEF d, gone
  <2>5. settled \in [Job -> SoundRow] /\ Waits(settled)
    BY <1>1, <2>1, <2>2, <2>3, WaitsOne DEF IsOpen, OpenStatus, Ready
  <2> HIDE DEF settled
  <2> QED
    BY <2>4, <2>5, WaitsResolve, ResolveSound, WaitsDelete
<1>3. ASSUME NEW r \in runs, Holds(jobs, r), FailJob(r) PROVE Waits(jobs')
  <2> DEFINE d == Charged(Blamed(jobs[r.job], "dead", "run"), 1)
             settled == [jobs EXCEPT ![r.job] = d]
             gone == IF "fail" \in jobs[r.job].removeOn THEN {r.job} ELSE {}
  <2>1. r.job \in Job
    BY DEF FInv, IInv, Run
  <2>2. d \in SoundRow /\ d.status = "dead"
    BY <1>1, <1>3, <2>1, KilledSound DEF Errors, Holds
  <2>3. jobs' = DeleteRows(ApplyPolicy(settled, r.job), gone)
    BY <1>3 DEF FailJob
  <2> HIDE DEF d, gone
  <2>4. settled \in [Job -> SoundRow] /\ Waits(settled) /\ settled[r.job].status = "dead"
    BY <1>1, <2>1, <2>2, WaitsOne DEF IsOpen, OpenStatus, Ready
  <2> HIDE DEF settled
  <2>5. ApplyPolicy(settled, r.job) \in [Job -> SoundRow] /\ Waits(ApplyPolicy(settled, r.job))
    BY <2>1, <2>4, WaitsPolicy, ApplyPolicySound
  <2> QED
    BY <2>3, <2>5, WaitsDelete
<1>4. ASSUME NEW j \in Job, CancelJob(j) PROVE Waits(jobs')
  <2> DEFINE S == {i \in Job : i \in Descendants(jobs, j) /\ IsOpen(jobs[i])}
             cancelled == [i \in Job |-> IF i \in S THEN Unlocked(jobs[i], "cancelled")
                                         ELSE jobs[i]]
  <2>1. \A i \in S : Unlocked(jobs[i], "cancelled") \in SoundRow
    BY <1>1, UnlockedSound DEF IsOpen, OpenStatus, Status, Terminal
  <2>2. \A i \in S : Unlocked(jobs[i], "cancelled").status = "cancelled"
    BY <1>1 DEF Unlocked, SoundRow, Row
  <2>3. /\ cancelled \in [Job -> SoundRow]
        /\ \A k \in Job : cancelled[k] = jobs[k] \/ cancelled[k].status = "cancelled"
    BY <1>1, <2>1, <2>2
  <2>4. jobs' = Resolve(cancelled, ParentsOf(jobs, S))
    BY <1>4 DEF CancelJob
  <2> HIDE DEF cancelled, S
  <2>5. Waits(cancelled)
    BY <1>1, <2>3, WaitsOn DEF IsOpen, OpenStatus, Ready
  <2> QED
    BY <2>3, <2>4, <2>5, WaitsResolve
<1>5. ASSUME NEW S \in SUBSET Job, NEW burned \in {0, 1},
             \A j \in S : jobs[j].status = "active", KillForTimeout(S, burned)
      PROVE  Waits(jobs')
  <2> DEFINE dead == [j \in Job |->
                       IF j \in S THEN Charged(Blamed(jobs[j], "dead", "timeout"), burned)
                       ELSE jobs[j]]
  <2>1. \A j \in S : LET d == Charged(Blamed(jobs[j], "dead", "timeout"), burned)
                     IN d \in SoundRow /\ d.status = "dead"
    BY <1>1, <1>5, KilledSound DEF Errors
  <2>2. /\ dead \in [Job -> SoundRow]
        /\ \A k \in Job : dead[k] = jobs[k] \/ dead[k].status = "dead"
    BY <1>1, <2>1
  <2>3. jobs' = Resolve(dead, ParentsOf(jobs, S))
    BY <1>5 DEF KillForTimeout
  <2> HIDE DEF dead
  <2>4. Waits(dead)
    BY <1>1, <2>2, WaitsOn DEF IsOpen, OpenStatus, Ready
  <2> QED
    BY <2>2, <2>3, <2>4, WaitsResolve
<1> QED
  BY <1>2, <1>3, <1>4, <1>5 DEF SettleAndTell

(* add: the new child is below a parent that now waits, the new row is     *)
(* below all of its kind: nothing is below it yet.                         *)
LEMMA AddWaits ==
  ASSUME FInv, Waits(jobs), AddSome
  PROVE  Waits(jobs')
<1>1. PICK p \in Job \cup {NoJob}, st \in {"waiting", "delayed"},
           policy \in {"fail_parent", "remove_dep", "ignore"},
           removeOn \in SUBSET {"complete", "fail"}, deadline \in BOOLEAN :
             Add(p, st, policy, removeOn, deadline)
  BY DEF AddSome
<1> DEFINE new == NewRow(p, st, policy, removeOn, deadline)
<1>2. /\ nextId \in Job /\ p < nextId /\ jobs'[nextId] = new /\ jobs[nextId] = NoRow
      /\ \A k \in Job \ {nextId} :
           jobs'[k] = IF k = p /\ jobs[k].status \in {"waiting", "active", "delayed"}
                      THEN [jobs[k] EXCEPT !.status = "waiting-children"]
                      ELSE jobs[k]
  BY <1>1, AddDoes
<1>3. new.status = st /\ new.parent = p
  BY NewRowFields
<1> HIDE DEF new
<1>4. ASSUME NEW k \in Job \ {nextId}
      PROVE  /\ jobs'[k].parent = jobs[k].parent /\ jobs[k].parent < nextId
             /\ IsOpen(jobs'[k]) => IsOpen(jobs[k])
             /\ jobs'[k].status \in Ready => jobs[k].status \in Ready /\ k # p
  <2>1. jobs[k] \in Row /\ jobs[k].parent < nextId
    BY DEF FInv, IInv, SoundRow, Drawn
  <2>2. CASE k = p /\ jobs[k].status \in {"waiting", "active", "delayed"}
    <3>1. jobs'[k].status = "waiting-children" /\ jobs'[k].parent = jobs[k].parent
      <4>1. jobs'[k] = [jobs[k] EXCEPT !.status = "waiting-children"]
        BY <1>2, <2>2
      <4> QED
        BY <2>1, <4>1, AwaitingFields
    <3> QED
      BY <2>1, <2>2, <3>1 DEF Ready, IsOpen, OpenStatus
  <2>3. CASE ~(k = p /\ jobs[k].status \in {"waiting", "active", "delayed"})
    BY <1>2, <2>1, <2>3 DEF Ready
  <2> QED
    BY <2>2, <2>3
<1> SUFFICES ASSUME NEW q \in Job, jobs'[q].status \in Ready,
                    NEW c \in Job, jobs'[c].parent = q, IsOpen(jobs'[c])
             PROVE  FALSE
  BY DEF Waits, OpenChildren
<1>5. nextId \in Nat /\ q \in Nat /\ p \in Nat
  BY <1>2 DEF Job, NoJob
<1>6. c # nextId
  BY <1>2, <1>3, <1>4, <1>5
<1>7. q # nextId
  BY <1>4, <1>5, <1>6
<1> QED
  BY <1>4, <1>6, <1>7 DEF Waits, OpenChildren

LEMMA ClaimWaits ==
  ASSUME FInv, Waits(jobs), NEW j \in Job, NEW mode, Claim(j, mode), IInv'
  PROVE  Waits(jobs')
<1>1. /\ jobs[j].status = "waiting" /\ jobs'[j].parent = jobs[j].parent
      /\ \A k \in Job \ {j} : jobs'[k] = jobs[k]
  BY ClaimDoes DEF FInv, IInv
<1> QED
  BY <1>1, WaitsOn DEF FInv, IInv, Ready, IsOpen, OpenStatus

(* The other steps of workers, sweeps and operators, without pause, retry  *)
(* and quiet hours.                                                        *)
LEMMA OthersWait ==
  ASSUME PInv, Ops \cap {"pause", "retry", "quiet"} = {}, IInv', ~SettleAndTell,
         (\E r \in runs : WorkerStep(r)) \/ Sweep \/ Operate
  PROVE  Waits(jobs')
<1>1. jobs \in [Job -> SoundRow] /\ jobs' \in [Job -> SoundRow] /\ Waits(jobs)
  BY DEF PInv, FInv, IInv, ParentsWaitForChildren, Waits, Ready
<1>2. ASSUME \A k \in Job :
               /\ jobs'[k].status \in Ready => jobs[k].status \in Ready
               /\ IsOpen(jobs'[k]) => /\ IsOpen(jobs[k])
                                      /\ jobs'[k].parent \in {jobs[k].parent, NoJob}
      PROVE  Waits(jobs')
  BY <1>1, <1>2, WaitsOn
<1>3. ASSUME NEW r \in runs, WorkerStep(r) PROVE Waits(jobs')
  <2>1. r.mode \notin {"defer", "skip", "skipping"} /\ r.job \in Job
    BY DEF PInv, Unquiet, FInv, IInv, Run
  <2>2. ~QuietDefer(r) /\ ~QuietRelease(r) /\ ~QuietCancel(r) /\ ~QuietFallback(r)
    BY <2>1 DEF QuietDefer, QuietRelease, QuietCancel, QuietFallback
  <2>3. ~(Holds(jobs, r) /\ (CompleteJob(r) \/ FailJob(r)))
    BY DEF SettleAndTell
  <2>4. \/ jobs' = jobs
        \/ Holds(jobs, r) /\ RetryLater(r)
        \/ /\ Holds(jobs, r)
           /\ jobs' = [jobs EXCEPT ![r.job] = Blamed(jobs[r.job], "delayed", "run")]
    BY <1>3, <2>2, <2>3
       DEF WorkerStep, CompleteRun, FailRun, DropRun, ReleaseLeaseFull, AbortRun, EvictRun
  <2>5. CASE Holds(jobs, r) /\ RetryLater(r)
    <3> DEFINE d == Charged(Blamed(jobs[r.job], "delayed", "run"), 1)
    <3>1. d \in SoundRow /\ d.parent = jobs[r.job].parent
      BY <1>1, <2>1, <2>5, KilledSound, BurnsFields DEF Errors, Holds
    <3>2. jobs' = [jobs EXCEPT ![r.job] = d]
      BY <2>5 DEF RetryLater
    <3> HIDE DEF d
    <3> QED
      BY <1>1, <2>1, <2>5, <3>1, <3>2, WaitsOne DEF Holds, Ready, IsOpen, OpenStatus
  <2>6. CASE /\ Holds(jobs, r)
             /\ jobs' = [jobs EXCEPT ![r.job] = Blamed(jobs[r.job], "delayed", "run")]
    <3>1. /\ Blamed(jobs[r.job], "delayed", "run") \in SoundRow
          /\ Blamed(jobs[r.job], "delayed", "run").parent = jobs[r.job].parent
      BY <1>1, <2>1, <2>6, BlamedSound, UnlockedStays DEF Errors, Holds, Status, OpenStatus
    <3> QED
      BY <1>1, <2>1, <2>6, <3>1, WaitsOne DEF Holds, Ready, IsOpen, OpenStatus
  <2> QED
    BY <1>1, <2>4, <2>5, <2>6
<1>4. CASE Sweep
  <2>1. ASSUME NEW S \in SUBSET Job, PromoteDelayed(S) PROVE Waits(jobs')
    <3>1. \A k \in Job : \/ jobs'[k] = jobs[k]
                         \/ /\ jobs[k].status = "delayed"
                            /\ jobs'[k] = Unlocked(jobs[k], "waiting")
      BY <2>1 DEF PromoteDelayed
    <3>2. \A k \in Job : Unlocked(jobs[k], "waiting").parent = jobs[k].parent
      BY <1>1, UnlockedStays DEF OpenStatus
    <3> QED
      BY <1>2, <3>1, <3>2 DEF Ready, IsOpen, OpenStatus
  <2>2. ASSUME NEW S \in SUBSET Job, HandleStalled(S) PROVE Waits(jobs')
    <3>1. \A k \in Job : \/ jobs'[k] = jobs[k]
                         \/ /\ jobs[k].status = "active"
                            /\ \/ jobs'[k].parent = jobs[k].parent
                               \/ ~IsOpen(jobs'[k])
                            /\ jobs'[k].status \in Ready \cup {"dead"}
      <4> SUFFICES ASSUME NEW k \in S
                   PROVE  /\ jobs'[k].parent = jobs[k].parent
                          /\ jobs'[k].status \in Ready \cup {"dead"}
        BY <2>2 DEF HandleStalled
      <4>1. jobs[k] \in SoundRow /\ jobs[k].status = "active"
        BY <1>1, <2>2 DEF HandleStalled
      <4>2. LET w == Stalled(Unlocked(jobs[k], "waiting"))
            IN w.status = "waiting" /\ w.parent = jobs[k].parent
        BY <4>1 DEF Stalled, Unlocked, SoundRow, Row
      <4>3. LET w == Charged(Blamed(jobs[k], "dead", "stalled"), 1)
            IN w \in SoundRow /\ w.status = "dead" /\ w.parent = jobs[k].parent
        BY <4>1, KilledSound, BurnsFields DEF Errors
      <4>4. \A w \in SoundRow : Stalled(w).status = w.status /\ Stalled(w).parent = w.parent
        BY DEF Stalled, SoundRow, Row
      <4>5. \/ jobs'[k] = Stalled(Unlocked(jobs[k], "waiting"))
            \/ jobs'[k] = Stalled(Charged(Blamed(jobs[k], "dead", "stalled"), 1))
        BY <2>2 DEF HandleStalled
      <4> QED
        BY <4>2, <4>3, <4>4, <4>5 DEF Ready
    <3> QED
      BY <1>2, <3>1 DEF Ready, IsOpen, OpenStatus
  <2>3. ASSUME NEW S \in SUBSET Job PROVE ~HandleTimeouts(S) /\ ~HandleWallClockTimeouts(S)
    BY DEF SettleAndTell, HandleTimeouts, HandleWallClockTimeouts
  <2> QED
    BY <1>4, <2>1, <2>2, <2>3 DEF Sweep
<1>5. CASE Operate
  <2>1. \/ \E j \in Job : RemoveJob(j)
        \/ \E S \in SUBSET Job : Prune(S)
    BY <1>5 DEF Operate, SettleAndTell, CancelTree
  <2> QED
    BY <1>1, <2>1, WaitsDelete DEF RemoveJob, Prune
<1> QED
  BY <1>3, <1>4, <1>5

LEMMA UnquietKept ==
  ASSUME Unquiet, "quiet" \notin Ops, QueueStep, runs \subseteq Run
  PROVE  Unquiet'
<1>1. CASE AddSome
  BY <1>1 DEF AddSome, Add, Unquiet
<1>2. CASE ClaimSome
  <2>1. PICK j \in Job, mode \in {"running", "lost"} : Claim(j, mode)
    BY <1>2 DEF ClaimSome
  <2>2. \A r \in runs' : r \in runs \/ r.mode = mode
    BY <2>1 DEF Claim
  <2> QED
    BY <2>2 DEF Unquiet
<1>3. CASE \E r \in runs : WorkerStep(r)
  <2>1. PICK r \in runs : WorkerStep(r)
    BY <1>3
  <2>2. r.mode \notin {"defer", "skip", "skipping"} /\ r \in Run
    BY DEF Unquiet
  <2>3. \/ runs' = runs \ {r}
        \/ \E mode \in {"aborted", "timedOut", "evicted"} : SetMode(r, mode)
    BY <2>1, <2>2 DEF WorkerStep, CompleteRun, FailRun, DropRun, ReleaseLeaseFull, AbortRun,
                      EvictRun, QuietDefer, QuietRelease, QuietCancel, QuietFallback
  <2>4. \A mode : [r EXCEPT !.mode = mode].mode = mode
    BY <2>2 DEF Run
  <2> QED
    BY <2>3, <2>4 DEF SetMode, Unquiet
<1>4. CASE Sweep \/ Operate
  BY <1>4 DEF Sweep, Operate, PromoteDelayed, HandleStalled, HandleTimeouts,
              HandleWallClockTimeouts, KillForTimeout, PauseJob, ResumeJob, RetryJob,
              CancelTree, RemoveJob, Prune, Unquiet
<1> QED
  BY <1>1, <1>2, <1>3, <1>4 DEF QueueStep

LEMMA QueueStepWaits ==
  ASSUME PInv, Ops \cap {"pause", "retry", "quiet"} = {}, QueueStep
  PROVE  PInv'
<1>1. FInv /\ FInv' /\ IInv' /\ Unquiet' /\ Waits(jobs)
  BY QueueStepKeeps, UnquietKept
     DEF PInv, FInv, IInv, ParentsWaitForChildren, Waits, Ready
<1>2. Waits(jobs')
  <2>1. CASE SettleAndTell
    BY <1>1, <2>1, SettleWaits
  <2>2. CASE AddSome
    BY <1>1, <2>2, AddWaits
  <2>3. CASE ClaimSome
    BY <1>1, <2>3, ClaimWaits DEF ClaimSome
  <2>4. CASE ~SettleAndTell /\ ((\E r \in runs : WorkerStep(r)) \/ Sweep \/ Operate)
    BY <1>1, <2>4, OthersWait
  <2> QED
    BY <2>1, <2>2, <2>3, <2>4 DEF QueueStep
<1> QED
  BY <1>1, <1>2 DEF PInv, ParentsWaitForChildren, Waits, Ready, OpenChildren

LEMMA InitWaits == Init => PInv
<1>1. Init => Unquiet /\ ParentsWaitForChildren
  BY DEF Init, Unquiet, ParentsWaitForChildren, NoRow
<1> QED
  BY <1>1, FInvInit DEF PInv

LEMMA NextWaits ==
  ASSUME PInv, [Next]_vars \/ [FanNext]_allVars, Ops \cap {"pause", "retry", "quiet"} = {}
  PROVE  PInv'
<1>1. UNCHANGED vars => PInv'
  BY FInvUnchanged DEF PInv, Unquiet, ParentsWaitForChildren, OpenChildren, vars
<1> QED
  BY <1>1, NextIsQueueStep, FanNextIsQueueStep, QueueStepWaits

(* No row with open children is queued, delayed or being worked on: a      *)
(* parent runs again only after all its children settled, also where the   *)
(* jobs are those of a fan-out.  Pausing and resuming a parent, retrying a *)
(* settled child and quiet hours that defer a parent break it.             *)
THEOREM ParentsWait ==
  ASSUME Ops \cap {"pause", "retry", "quiet"} = {}
  PROVE  /\ Spec => []ParentsWaitForChildren
         /\ FanSpec => []ParentsWaitForChildren
<1>1. PInv => ParentsWaitForChildren
  BY DEF PInv
<1>2. PInv /\ [Next]_vars => PInv'
  BY NextWaits
<1>3. PInv /\ [FanNext]_allVars => PInv'
  BY NextWaits
<1>4. FanInit => PInv
  BY InitWaits DEF FanInit
<1>5. Spec => []ParentsWaitForChildren
  BY <1>1, <1>2, InitWaits, PTL DEF Spec
<1>6. FanSpec => []ParentsWaitForChildren
  BY <1>1, <1>3, <1>4, PTL DEF FanSpec
<1> QED
  BY <1>5, <1>6
=============================================================================
