------------------------------ MODULE SyncRun ------------------------------
(***************************************************************************)
(* gbrain sync: the pages of one source follow a git repository that other *)
(* processes keep committing to (commands/sync.ts).  A run reads the       *)
(* bookmark last_commit, pins the HEAD it saw, diffs bookmark..pin, and    *)
(* deletes, renames and imports what differs; imports read the live        *)
(* working tree, which may be past the pin.  What is done is banked in a   *)
(* checkpoint keyed by the bookmark (op-checkpoint.ts), failures go to a   *)
(* ledger (sync-failure-ledger.ts) whose gate decides whether the bookmark *)
(* moves.  Runs may be killed between any two steps.  One run is alive at  *)
(* a time: performSync holds the source's lock (DbLock).                   *)
(*                                                                         *)
(* A commit is its line (the commits reachable from it, itself included)   *)
(* and its tree; a file's content is the commit and the path it was        *)
(* written at, so that no two are alike but by a rename or a revert, and   *)
(* whether it can be imported.  What the world may do in a behaviour is    *)
(* the set "can", drawn from Worlds: "edit", "break", "delete", "rename",  *)
(* "revert" and "rewrite" the repository, call sync with --"full" or       *)
(* --"skip"-failed, "kill" a run, and fail a "flush", a "load" or a page's *)
(* "erase".                                                                *)
(***************************************************************************)
EXTENDS Naturals, FiniteSets, Sequences

CONSTANTS
  Path,             \* syncable files
  Worlds,           \* sets of things that may happen in one behaviour
  Threshold,        \* GBRAIN_SYNC_AUTOSKIP_AFTER; 0 disables the valve
  MaxFlushFailures, \* GBRAIN_SYNC_MAX_CHECKPOINT_FAILURES
  ImportEvery,      \* successes between two saves of the import checkpoint
  MaxCommits,       \* bound: commits ever made
  MaxFaults         \* bound: kills and failed writes

ASSUME SyncConstants ==
  /\ IsFiniteSet(Path)
  /\ {Threshold, MaxFlushFailures, ImportEvery, MaxCommits, MaxFaults} \subseteq Nat
  /\ ImportEvery > 0 /\ MaxCommits > 0
  /\ "<head>" \notin Path

VARIABLES
  can,      \* what this behaviour's world does
  commits,  \* the repository's commits, oldest first
  head,     \* the commit HEAD is at; its tree is the working tree
  page,     \* content indexed for each path
  anchor,   \* sources.last_commit; 0 before the first sync
  ckpt,     \* op_checkpoints rows of each bookmark: pinned target and paths done
  saved,    \* import-checkpoint.json: paths a full import is done with
  ledger,   \* sync-failures.jsonl
  run,      \* the sync run that is alive
  faults    \* kills and failed writes so far

git  == <<commits, head>>
sync == <<page, anchor, ckpt, saved, ledger, run>>
vars == <<can, git, sync, faults>>
-----------------------------------------------------------------------------
Sentinel == "<head>"                      \* the row of a rewritten history
Gone == [ver |-> 0, of |-> Sentinel, good |-> TRUE]
NoCkpt == [target |-> 0, paths |-> {}]
NoRow  == [state |-> "none", tries |-> 0, at |-> 0]

Tree(c)     == commits[c].tree
Live        == Tree(head)
Reach(c, d) == c \in commits[d].line      \* git merge-base --is-ancestor c d

(* git diff --name-status -M: an added path with the content of a deleted  *)
(* one is a rename.                                                        *)
Renamed(a, b) ==
  {r \in Path \X Path : /\ Tree(a)[r[1]] # Gone /\ Tree(b)[r[1]] = Gone
                        /\ Tree(a)[r[2]] = Gone /\ Tree(b)[r[2]] = Tree(a)[r[1]]}
Deleted(a, b) ==
  {p \in Path : Tree(a)[p] # Gone /\ Tree(b)[p] = Gone} \ {r[1] : r \in Renamed(a, b)}
Changed(a, b) ==
  {p \in Path : Tree(b)[p] \notin {Gone, Tree(a)[p]}} \ {r[2] : r \in Renamed(a, b)}

Idle == [pc |-> "idle", full |-> FALSE, skip |-> FALSE, from |-> 0, pin |-> 0,
         del |-> {}, ren |-> {}, imp |-> {}, done |-> {}, pending |-> {},
         failed |-> {}, ok |-> {}, misses |-> 0, dead |-> FALSE]

Init ==
  /\ can \in Worlds
  /\ commits = <<[line |-> {1}, tree |-> [p \in Path |-> [ver |-> 1, of |-> p, good |-> TRUE]]]>>
  /\ head = 1
  /\ anchor = IF "full" \in can THEN 0 ELSE 1
  /\ page = [p \in Path |-> IF "full" \in can THEN Gone ELSE commits[1].tree[p]]
  /\ ckpt = [c \in 1..MaxCommits |-> NoCkpt]
  /\ saved = {}
  /\ ledger = [p \in Path \cup {Sentinel} |-> NoRow]
  /\ run = Idle
  /\ faults = 0
-----------------------------------------------------------------------------
Fault(kind) == kind \in can /\ faults < MaxFaults /\ faults' = faults + 1

(* Other processes work in the repository.                                 *)
Commit(tree) ==
  /\ Len(commits) < MaxCommits
  /\ commits' = Append(commits, [line |-> commits[head].line \cup {Len(commits) + 1},
                                 tree |-> tree])
  /\ head' = Len(commits) + 1
  /\ UNCHANGED <<can, sync, faults>>

New(p, good) == [ver |-> Len(commits) + 1, of |-> p, good |-> good]

Edit(p) ==
  \E good \in {g \in BOOLEAN : IF g THEN "edit" \in can ELSE "break" \in can} :
    Commit([Live EXCEPT ![p] = New(p, good)])

Delete(p) ==
  /\ "delete" \in can
  /\ Live[p] # Gone
  /\ Commit([Live EXCEPT ![p] = Gone])

Revert(p) ==
  /\ "revert" \in can
  /\ \E c \in DOMAIN commits :
       Tree(c)[p] \notin {Live[p], Gone} /\ Commit([Live EXCEPT ![p] = Tree(c)[p]])

Rename(p, q) ==
  /\ "rename" \in can
  /\ Live[p] # Gone /\ Live[q] = Gone
  /\ Commit([Live EXCEPT ![p] = Gone, ![q] = Live[p]])

(* git reset: later commits go on another line.                            *)
Reset ==
  /\ Fault("rewrite")
  /\ head' \in commits[head].line \ {head}
  /\ UNCHANGED <<can, commits, sync>>

World == Reset \/ \E p \in Path : Edit(p) \/ Delete(p) \/ Revert(p) \/ \E q \in Path : Rename(p, q)
-----------------------------------------------------------------------------
(* acknowledgeFailures: every open row but the sentinel's.                 *)
Acked(rows) ==
  [p \in DOMAIN rows |-> IF p # Sentinel /\ rows[p].state = "open"
                         THEN [rows[p] EXCEPT !.state = "acknowledged"] ELSE rows[p]]

(* runSync acknowledges the old failures before a --skip-failed sync.      *)
Upfront(skip) == /\ skip => "skip" \in can
                 /\ ledger' = IF skip THEN Acked(ledger) ELSE ledger

(* performFullSync: on a first sync, with --full, or when the bookmark's   *)
(* object was collected after a rewrite.  runImport walks the working tree *)
(* and leaves out what its own checkpoint file, keyed by the directory     *)
(* alone, has as done.                                                     *)
StartFull(skip) ==
  /\ run.pc = "idle" /\ Upfront(skip)
  /\ anchor = 0 \/ "full" \in can \/ ~Reach(anchor, head)
  /\ run' = [Idle EXCEPT !.pc = "drain", !.full = TRUE, !.skip = skip, !.pin = head,
                         !.done = saved,
                         !.imp = {p \in Path : Live[p] # Gone} \ saved]
  /\ UNCHANGED <<can, git, page, anchor, ckpt, saved, faults>>

(* An incremental sync resolves its pin: the target of a checkpoint of     *)
(* this bookmark while that is reachable from HEAD, and HEAD otherwise (a  *)
(* target that is not reachable is cleared with its paths; a load that     *)
(* fails looks like no checkpoint and clears nothing).  It returns at once *)
(* when HEAD is at the bookmark, moves the bookmark when the diff is     *)
(* empty (and clears the checkpoint, unless it is killed before it can), *)
(* and else persists the pin and starts to drain.                        *)
StartSync(skip) ==
  /\ run.pc = "idle" /\ anchor # 0 /\ Upfront(skip)
  /\ \E read \in {"ok", "failed"} :
       LET stale == ckpt[anchor].target # 0 /\ ~Reach(ckpt[anchor].target, head)
           kept  == IF read = "ok" /\ stale THEN NoCkpt ELSE ckpt[anchor]
           resume == read = "ok" /\ kept.target # 0
           pin   == IF resume THEN kept.target ELSE head
           done  == IF resume THEN kept.paths ELSE {}
           empty == Deleted(anchor, pin) \cup Renamed(anchor, pin) \cup Changed(anchor, pin) = {}
       IN /\ read = "failed" => "load" \in can /\ ckpt[anchor].target # 0
          /\ \/ /\ anchor = head
                /\ ckpt' = [ckpt EXCEPT ![anchor] = kept]
                /\ UNCHANGED <<anchor, run, faults>>
             \/ /\ anchor # head /\ empty
                /\ anchor' = pin
                /\ \/ ckpt' = [ckpt EXCEPT ![anchor] = NoCkpt] /\ UNCHANGED faults
                   \/ ckpt' = [ckpt EXCEPT ![anchor] = kept] /\ Fault("kill")
                /\ UNCHANGED run
             \/ /\ anchor # head /\ ~empty
                /\ run' = [Idle EXCEPT !.pc = "drain", !.skip = skip, !.from = anchor,
                             !.pin = pin, !.done = done,
                             !.del = Deleted(anchor, pin) \ done,
                             !.ren = {r \in Renamed(anchor, pin) : r[2] \notin done},
                             !.imp = Changed(anchor, pin) \ done]
                /\ ckpt' = [ckpt EXCEPT ![anchor] = [target |-> pin, paths |-> kept.paths]]
                /\ UNCHANGED <<anchor, faults>>
             \/ /\ anchor # head /\ ~empty        \* the pin cannot be persisted
                /\ Fault("flush")
                /\ ckpt' = [ckpt EXCEPT ![anchor] = kept]
                /\ UNCHANGED <<anchor, run>>
  /\ UNCHANGED <<can, git, page, saved>>
-----------------------------------------------------------------------------
(* flushCheckpoint: bank what is pending, or keep it and count the miss.   *)
Flush(r) ==
  \/ /\ run' = [r EXCEPT !.pending = {}, !.misses = 0]
     /\ ckpt' = [ckpt EXCEPT ![r.from].paths = @ \cup r.pending]
     /\ UNCHANGED faults
  \/ /\ r.pending # {} /\ Fault("flush")
     /\ run' = [r EXCEPT !.misses = @ + 1, !.dead = @ \/ r.misses + 1 >= MaxFlushFailures]
     /\ UNCHANGED ckpt

(* markCompleted: a flush when one is due by count or time, and always     *)
(* after the first file.                                                   *)
Mark(p, r) ==
  LET marked == [r EXCEPT !.done = @ \cup {p}, !.pending = @ \cup {p}] IN
  \/ Flush(marked)
  \/ /\ marked.done # {p}
     /\ run' = marked
     /\ UNCHANGED <<ckpt, faults>>

DeleteOne(p) ==
  /\ run.pc = "drain" /\ p \in run.del
  /\ LET rest == [run EXCEPT !.del = @ \ {p}] IN
     \/ /\ page' = [page EXCEPT ![p] = Gone]
        /\ Mark(p, rest)
     \/ /\ Fault("erase")
        /\ run' = [rest EXCEPT !.failed = @ \cup {p}]
        /\ UNCHANGED <<page, ckpt>>
  /\ UNCHANGED <<can, git, anchor, saved, ledger>>

(* updateSlug, which fails on a page that is there already.                *)
Moved(r) ==
  IF page[r[2]] = Gone THEN [page EXCEPT ![r[1]] = Gone, ![r[2]] = page[r[1]]] ELSE page

(* The result of the import at the new path is not looked at.              *)
RenameOne(r) ==
  /\ run.pc = "drain" /\ run.del = {} /\ r \in run.ren
  /\ page' = IF Live[r[2]] # Gone /\ Live[r[2]].good
             THEN [Moved(r) EXCEPT ![r[2]] = Live[r[2]]] ELSE Moved(r)
  /\ Mark(r[2], [run EXCEPT !.ren = @ \ {r}])
  /\ UNCHANGED <<can, git, anchor, saved, ledger>>

(* importOnePath: the file of the working tree.  One that is gone is done; *)
(* so is one whose hash is that of its page, which does not count as a     *)
(* success; one that does not parse is left to the next run.               *)
ImportOne(p) ==
  /\ run.pc = "drain" /\ ~run.full /\ run.del = {} /\ run.ren = {} /\ p \in run.imp
  /\ LET rest == [run EXCEPT !.imp = @ \ {p}]
         text == Live[p]
     IN \/ /\ ~text.good
           /\ run' = [rest EXCEPT !.failed = @ \cup {p}]
           /\ UNCHANGED <<page, ckpt, faults>>
        \/ /\ text.good
           /\ page' = IF text = Gone THEN page ELSE [page EXCEPT ![p] = text]
           /\ Mark(p, IF text # Gone /\ text = page[p] THEN rest
                      ELSE [rest EXCEPT !.ok = @ \cup {p}])
  /\ UNCHANGED <<can, git, anchor, saved, ledger>>

(* processFile of a full import; the checkpoint file is written when the   *)
(* number of files done is a multiple of ImportEvery.                      *)
ImportWalked(p) ==
  /\ run.pc = "drain" /\ run.full /\ p \in run.imp
  /\ LET text == Live[p]
         fits == text # Gone /\ text.good
         done == IF fits THEN run.done \cup {p} ELSE run.done
     IN /\ page'  = IF fits THEN [page EXCEPT ![p] = text] ELSE page
        /\ run'   = [run EXCEPT !.imp = @ \ {p}, !.done = done,
                                !.failed = IF fits THEN @ ELSE @ \cup {p}]
        /\ saved' = IF done # {} /\ Cardinality(done) % ImportEvery = 0 THEN done ELSE saved
  /\ UNCHANGED <<can, git, anchor, ckpt, ledger, faults>>

(* All paths are handled, or the workers saw that no flush gets through:   *)
(* then the run ends as a partial one.  Otherwise a last flush, and the    *)
(* gate.  A full import removes its checkpoint file when nothing threw.    *)
Drained ==
  /\ run.pc = "drain"
  /\ \/ /\ run.dead
        /\ run.del = {} /\ run.ren = {}
        /\ run' = Idle
        /\ UNCHANGED <<ckpt, saved, faults>>
     \/ /\ ~run.full /\ ~run.dead /\ run.del = {} /\ run.ren = {} /\ run.imp = {}
        /\ Flush([run EXCEPT !.pc = "gate"])
        /\ UNCHANGED saved
     \/ /\ run.full /\ run.imp = {}
        /\ run' = [run EXCEPT !.pc = "gate"]
        /\ saved' \in IF run.failed = {} THEN {{}} ELSE {{}, saved}
        /\ UNCHANGED <<ckpt, faults>>
  /\ UNCHANGED <<can, git, page, anchor, ledger>>
-----------------------------------------------------------------------------
(* The paths whose rows the gate clears: imported ones and, in a full      *)
(* sync, every one that did not fail; removed ones, also when removing     *)
(* them failed.                                                            *)
Resolved ==
  IF run.full THEN {p \in Path : ledger[p].state # "none"} \ run.failed
  ELSE run.ok \cup Deleted(run.from, run.pin) \cup {r[1] : r \in Renamed(run.from, run.pin)}

(* Mutant: a chronic failure is written down as skipped at once.           *)
RecordedAsSkipped(failing) ==
  [p \in DOMAIN ledger |->
     IF p \in Resolved \ failing THEN NoRow
     ELSE IF p \notin failing THEN ledger[p]
     ELSE [state |-> IF ledger[p].tries + 1 >= Threshold THEN "auto_skipped" ELSE "open",
           at |-> run.pin, tries |-> ledger[p].tries + 1]]

(* Mutant: a path that fails again starts a new row.                        *)
RecordedAfresh(failing) ==
  [p \in DOMAIN ledger |->
     IF p \in failing THEN [state |-> "open", at |-> run.pin, tries |-> 1]
     ELSE IF p \in Resolved THEN NoRow ELSE ledger[p]]

(* _recordAndClear: rows of resolved paths go; then a failing path's open  *)
(* row counts one more, and any other starts at one.                       *)
Recorded(failing) ==
  LET kept == [p \in DOMAIN ledger |-> IF p \in Resolved THEN NoRow ELSE ledger[p]] IN
  [p \in DOMAIN ledger |->
     IF p \notin failing THEN kept[p]
     ELSE [state |-> "open", at |-> run.pin,
           tries |-> IF kept[p].state = "open" THEN kept[p].tries + 1 ELSE 1]]

(* decideGateAction.                                                       *)
MayAdvance(failing, rows) ==
  /\ Sentinel \notin failing
  /\ \/ failing = {}
     \/ run.skip
     \/ Threshold > 0 /\ \A p \in failing : rows[p].tries >= Threshold

(* The pin-reachability gate of an incremental run, then the ledger.  A    *)
(* blocked run leaves the checkpoint in place.                             *)
Gate ==
  /\ run.pc = "gate"
  /\ LET failing == run.failed \cup (IF ~run.full /\ ~Reach(run.pin, head) THEN {Sentinel} ELSE {})
         rows    == Recorded(failing)
     IN /\ ledger' = rows
        /\ run' = IF MayAdvance(failing, rows) THEN [run EXCEPT !.pc = "advance"] ELSE Idle
  /\ UNCHANGED <<can, git, page, anchor, ckpt, saved, faults>>

(* Mutant: the bookmark moves to the live HEAD.                            *)
AdvanceToHead ==
  /\ run.pc = "advance"
  /\ anchor' = head
  /\ run' = [run EXCEPT !.pc = IF run.full THEN "settle" ELSE "clear"]
  /\ UNCHANGED <<can, git, page, ckpt, saved, ledger, faults>>

Advance ==
  /\ run.pc = "advance"
  /\ anchor' = run.pin
  /\ run' = [run EXCEPT !.pc = IF run.full THEN "settle" ELSE "clear"]
  /\ UNCHANGED <<can, git, page, ckpt, saved, ledger, faults>>

ClearCheckpoint ==
  /\ run.pc = "clear"
  /\ ckpt' = [ckpt EXCEPT ![run.from] = NoCkpt]
  /\ run' = [run EXCEPT !.pc = "settle"]
  /\ UNCHANGED <<can, git, page, anchor, saved, ledger, faults>>

(* After the bookmark moved: --skip-failed acknowledges every open row     *)
(* (unless the gate had nothing at all to reconcile), and otherwise the    *)
(* failures, all of them chronic, become auto_skipped.                     *)
Settle ==
  /\ run.pc = "settle"
  /\ ledger' = IF run.skip
               THEN IF run.failed = {} /\ Resolved = {} THEN ledger ELSE Acked(ledger)
               ELSE [p \in DOMAIN ledger |->
                       IF p \in run.failed /\ ledger[p].state = "open"
                       THEN [ledger[p] EXCEPT !.state = "auto_skipped"] ELSE ledger[p]]
  /\ run' = IF run.full THEN [run EXCEPT !.pc = "reconcile"] ELSE Idle
  /\ UNCHANGED <<can, git, page, anchor, ckpt, saved, faults>>

(* A full sync ends with the pages whose file is gone.                     *)
Reconcile ==
  /\ run.pc = "reconcile"
  /\ page' = [p \in Path |-> IF Live[p] = Gone THEN Gone ELSE page[p]]
  /\ run' = Idle
  /\ UNCHANGED <<can, git, anchor, ckpt, saved, ledger, faults>>

(* The run ends early: killed, or by --timeout or SIGTERM, which still     *)
(* bank what is pending while the run drains.  In the middle of a rename   *)
(* it may also end by an importFile that throws, which nothing catches.    *)
Stop ==
  /\ run.pc # "idle" /\ Fault("kill")
  /\ run' = Idle
  /\ \/ UNCHANGED page
     \/ \E r \in run.ren : run.pc = "drain" /\ run.del = {} /\ page' = Moved(r)
  /\ \/ UNCHANGED ckpt
     \/ /\ run.pc = "drain" /\ ~run.full /\ run.pending # {}
        /\ ckpt' = [ckpt EXCEPT ![run.from].paths = @ \cup run.pending]
  /\ UNCHANGED <<can, git, anchor, saved, ledger>>

SyncStep ==
  \/ \E skip \in BOOLEAN : StartFull(skip) \/ StartSync(skip)
  \/ \E p \in Path : DeleteOne(p) \/ ImportOne(p) \/ ImportWalked(p)
  \/ \E r \in Path \X Path : RenameOne(r)
  \/ Drained \/ Gate \/ Advance \/ ClearCheckpoint \/ Settle \/ Reconcile

Next == World \/ SyncStep \/ Stop
Spec == Init /\ [][Next]_vars
-----------------------------------------------------------------------------
Content == [ver : 0..MaxCommits, of : Path \cup {Sentinel}, good : BOOLEAN]

(* Bookmarks, pins and rows name commits that exist, and only paths get    *)
(* into the sets a run keeps and the checkpoints it leaves.                *)
TypeOK ==
  /\ page \in [Path -> Content]
  /\ head \in DOMAIN commits /\ anchor \in {0} \cup DOMAIN commits
  /\ ckpt \in [1..MaxCommits -> [target : {0} \cup DOMAIN commits, paths : SUBSET Path]]
  /\ saved \subseteq Path
  /\ ledger \in [Path \cup {Sentinel} ->
                  [state : {"none", "open", "acknowledged", "auto_skipped"},
                   tries : Nat, at : {0} \cup DOMAIN commits]]
  /\ run.pc \in {"idle", "drain", "gate", "advance", "clear", "settle", "reconcile"}
  /\ run.del \cup run.imp \cup run.done \cup run.failed \cup run.ok \subseteq Path
  /\ run.pending \subseteq run.done
  /\ faults \in 0..MaxFaults

Rewritten == \E c \in DOMAIN commits : ~Reach(c, head)
Restored(p) ==
  \E c, d, e \in DOMAIN commits : c < d /\ d < e /\ Tree(d)[p] # Tree(c)[p] /\ Tree(e)[p] = Tree(c)[p]
Listed(p) == ledger[p].state # "none"
NoneInFlight == run.pc = "idle" /\ anchor # 0 /\ ckpt[anchor].target = 0

(* The worlds in which that can be kept.  In others a page may be passed   *)
(* over: a load of the pin that fails leaves the paths of an older pin in  *)
(* the checkpoint of a newer one; a full import leaves out what its        *)
(* checkpoint file names, changed or not, clears the rows of removed files *)
(* and removes their pages after the bookmark moved; and a rename passes   *)
(* over a file that does not parse, a page that could not be erased, and   *)
(* one whose new name a full import has taken.                             *)
Benign(w) ==
  /\ "load" \notin w
  /\ "full" \in w => /\ {"kill", "erase", "rename"} \cap w = {}
                     /\ \A n \in 1 .. Cardinality(Path) : n % ImportEvery # 0
  /\ "rename" \in w => {"break", "erase", "revert"} \cap w = {}

(* What a later diff will not show is indexed: between runs, when nothing  *)
(* is left to resume, a file that is the same at the bookmark and at HEAD  *)
(* has that content in its page, or a ledger row that names it.  Kills and *)
(* lost flushes, a HEAD that moves while files are imported, deletes and   *)
(* renames on the way do not change that, as long as history is not        *)
(* rewritten and the file does not get back what it was at an earlier      *)
(* commit (absent, for instance).                                          *)
NothingMissed ==
  NoneInFlight /\ ~Rewritten
    => \A p \in Path :
         Tree(anchor)[p] = Live[p] /\ ~Restored(p) /\ ~Listed(p) => page[p] = Live[p]

(* A file is marked auto_skipped only when the bookmark has moved past it: *)
(* a crash in between leaves the row open, never a skipped file in front   *)
(* of a sync that is still wedged (issue 1939, finding 5).                 *)
SkipsFollowBookmark ==
  [][\A p \in Path :
       ledger'[p].state = "auto_skipped" /\ ledger[p].state # "auto_skipped"
         => Reach(ledger'[p].at, anchor)]_vars

(* Nothing wedges the sync for good: neither a file that never parses, nor *)
(* a dead checkpoint table, nor a rewritten history.  When commits and     *)
(* faults stop, the bookmark reaches HEAD and stays there, with every file *)
(* indexed or listed (under the provisos of NothingMissed).                *)
CatchesUp ==
  <>[](/\ anchor = head
       /\ Rewritten \/ \A p \in Path : page[p] = Live[p] \/ Listed(p) \/ Restored(p))
-----------------------------------------------------------------------------
(* Syncs are started by cron, the autopilot or a watcher for ever, and a   *)
(* run that is not killed goes on to its next step.                        *)
FairSpec == Spec /\ WF_vars(SyncStep)
=============================================================================
