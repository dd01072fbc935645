----------------------------- MODULE SyncProofs -----------------------------
(***************************************************************************)
(* NothingMissed, for any set of files, commits, faults and worlds in      *)
(* which the sync keeps it (Benign).                                       *)
(*                                                                         *)
(* While history is not rewritten it is a line, and a file that never got  *)
(* back to an earlier content is the same at two commits only if it is the *)
(* same at all between them.  So a page that was written from the working  *)
(* tree after the pin is right for the pin, as long as anybody can tell:   *)
(* either HEAD still has that content, or a later diff will show the file. *)
(* That is Up; Shown allows for a ledger row instead.  The invariant says  *)
(* of which files a run, a checkpoint and a bookmark may rely on them.     *)
(***************************************************************************)
EXTENDS ServicesProofs
-----------------------------------------------------------------------------
(* Commits come after what they descend from.                              *)
Lineage ==
  \A c \in DOMAIN commits : \A d \in commits[c].line :
    d <= c /\ commits[d].line \subseteq commits[c].line

(* History is a line, with HEAD at its end.                                *)
Straight == head = Len(commits) /\ \A c \in DOMAIN commits : commits[c].line = 1 .. c

(* What the worlds say of the trees: every file can be imported, a file is *)
(* at the path it was written at, no two files of a tree are alike.        *)
Contents ==
  \A c \in DOMAIN commits : \A p \in Path :
    /\ commits[c].tree[p].ver <= c
    /\ "break" \in can \/ commits[c].tree[p].good
    /\ "rename" \in can \/ commits[c].tree[p] = Gone \/ commits[c].tree[p].of = p
    /\ "revert" \in can \/ \A q \in Path :
         q # p /\ commits[c].tree[p] # Gone => commits[c].tree[q] # commits[c].tree[p]

History == Lineage /\ (Rewritten \/ Straight) /\ Contents

(* The repository starts with one commit.                                  *)
LEMMA HistoryInit == Init => History
<1> SUFFICES ASSUME Init PROVE History
  OBVIOUS
<1>1. /\ DOMAIN commits = {1} /\ head = 1 /\ Len(commits) = 1
      /\ commits[1].line = {1}
      /\ commits[1].tree = [p \in Path |-> [ver |-> 1, of |-> p, good |-> TRUE]]
  <2> DEFINE first == [line |-> {1}, tree |-> [p \in Path |-> [ver |-> 1, of |-> p, good |-> TRUE]]]
  <2>1. first.line = {1} /\ first.tree = [p \in Path |-> [ver |-> 1, of |-> p, good |-> TRUE]]
    OBVIOUS
  <2>2. commits = <<first>> /\ head = 1
    BY DEF Init
  <2> HIDE DEF first
  <2> QED
    BY <2>1, <2>2
<1>2. \A p \in Path : /\ commits[1].tree[p].ver = 1 /\ commits[1].tree[p].of = p
                      /\ commits[1].tree[p].good
  BY <1>1
<1>3. Lineage /\ Straight
  BY <1>1 DEF Lineage, Straight
<1>4. Contents
  BY <1>1, <1>2 DEF Contents
<1> QED
  BY <1>3, <1>4 DEF History

(* What a commit adds, and what it leaves.                                 *)
LEMMA CommitAdds ==
  ASSUME SyInv, NEW tree \in [Path -> File], Commit(tree)
  PROVE  /\ Len(commits) \in Nat /\ DOMAIN commits = 1 .. Len(commits)
         /\ DOMAIN commits' = 1 .. Len(commits) + 1 /\ Len(commits') = Len(commits) + 1
         /\ head' = Len(commits) + 1
         /\ commits'[Len(commits) + 1].tree = tree
         /\ commits'[Len(commits) + 1].line = commits[head].line \cup {Len(commits) + 1}
         /\ \A c \in DOMAIN commits : commits'[c] = commits[c]
         /\ UNCHANGED <<can, sync>>
<1>1. PICK new : /\ commits' = Append(commits, new)
                 /\ new = [line |-> commits[head].line \cup {Len(commits) + 1}, tree |-> tree]
  BY DEF Commit
<1>2. new \in CommitType /\ new.tree = tree
      /\ new.line = commits[head].line \cup {Len(commits) + 1}
  BY <1>1 DEF SyInv, SyGit, CommitType
<1>3. commits \in Seq(CommitType)
  BY DEF SyInv, SyGit
<1> QED
  BY <1>1, <1>2, <1>3 DEF Commit

LEMMA CommitHistory ==
  ASSUME SyInv, History, NEW tree \in [Path -> File], Commit(tree),
         \A p \in Path :
           /\ tree[p].ver <= Len(commits) + 1
           /\ "break" \in can \/ tree[p].good
           /\ "rename" \in can \/ tree[p] = Gone \/ tree[p].of = p
           /\ "revert" \in can \/ \A q \in Path :
                q # p /\ tree[p] # Gone => tree[q] # tree[p]
  PROVE  History'
<1> DEFINE n == Len(commits)
<1>1. /\ n \in Nat /\ DOMAIN commits = 1 .. n /\ DOMAIN commits' = 1 .. n + 1 /\ Len(commits') = n + 1
      /\ head' = n + 1
      /\ commits'[n + 1].tree = tree /\ commits'[n + 1].line = commits[head].line \cup {n + 1}
      /\ \A c \in 1 .. n : commits'[c] = commits[c]
      /\ can' = can
  BY CommitAdds
<1>2. head \in 1 .. n /\ commits[head].line \subseteq 1 .. n
      /\ \A c \in 1 .. n : commits[c].line \subseteq 1 .. n
  BY <1>1 DEF SyInv, SyGit
<1> HIDE DEF n
<1>3. Lineage'
  <2>1. ASSUME NEW c \in 1 .. n, NEW d \in commits'[c].line
        PROVE  d <= c /\ commits'[d].line \subseteq commits'[c].line
    <3>1. d \in commits[c].line /\ d \in 1 .. n
      BY <1>1, <1>2, <2>1
    <3> QED
      BY <1>1, <3>1 DEF History, Lineage
  <2>2. ASSUME NEW d \in commits'[n + 1].line
        PROVE  d <= n + 1 /\ commits'[d].line \subseteq commits'[n + 1].line
    <3>1. CASE d \in commits[head].line
      BY <1>1, <1>2, <3>1 DEF History, Lineage
    <3>2. CASE d = n + 1
      BY <1>1, <3>2
    <3> QED
      BY <1>1, <2>2, <3>1, <3>2
  <2>3. \A c \in 1 .. n + 1 : c \in 1 .. n \/ c = n + 1
    BY <1>1
  <2> QED
    BY <1>1, <2>1, <2>2, <2>3 DEF Lineage
<1>4. (Rewritten \/ Straight)'
  <2>1. CASE Rewritten
    <3>1. PICK c \in 1 .. n : c \notin commits[head].line
      BY <1>1, <2>1 DEF Rewritten, Reach
    <3>2. c \in DOMAIN commits' /\ c \notin commits'[head'].line
      BY <1>1, <3>1
    <3> QED
      BY <3>2 DEF Rewritten, Reach
  <2>2. CASE Straight
    <3>1. head = n /\ \A c \in 1 .. n : commits[c].line = 1 .. c
      BY <1>1, <2>2 DEF Straight, n
    <3>2. commits'[n + 1].line = 1 .. n + 1
      BY <1>1, <1>2, <3>1
    <3>3. \A c \in 1 .. n + 1 : c \in 1 .. n \/ c = n + 1
      BY <1>1
    <3>4. Straight'
      BY <1>1, <3>1, <3>2, <3>3 DEF Straight
    <3> QED
      BY <3>4
  <2> QED
    BY <2>1, <2>2 DEF History
<1>5. Contents'
  <2>1. \A c \in 1 .. n + 1 : c \in 1 .. n \/ c = n + 1
    BY <1>1
  <2>2. ASSUME NEW c \in 1 .. n + 1, NEW p \in Path
        PROVE  /\ commits'[c].tree[p].ver <= c
               /\ "break" \in can \/ commits'[c].tree[p].good
               /\ "rename" \in can \/ commits'[c].tree[p] = Gone \/ commits'[c].tree[p].of = p
               /\ "revert" \in can \/ \A q \in Path :
                    q # p /\ commits'[c].tree[p] # Gone => commits'[c].tree[q] # commits'[c].tree[p]
    <3>1. CASE c \in 1 .. n
      BY <1>1, <3>1 DEF History, Contents
    <3>2. CASE c = n + 1
      BY <1>1, <3>2 DEF n
    <3> QED
      BY <2>1, <3>1, <3>2
  <2> QED
    BY <1>1, <2>2 DEF Contents
<1> QED
  BY <1>3, <1>4, <1>5 DEF History

(* The other processes.                                                    *)
LEMMA HistoryWorld == ASSUME SyInv, History, World PROVE History'
<1>1. CASE Reset
  <2>1. head' \in commits[head].line \ {head} /\ UNCHANGED <<can, commits>>
    BY <1>1 DEF Reset
  <2>2. commits[head'].line \subseteq commits[head].line /\ head' <= head
    BY <2>1 DEF SyInv, SyGit, History, Lineage
  <2>3. head \in DOMAIN commits /\ head \in Nat /\ head' \in DOMAIN commits /\ head' \in Nat
    BY <2>1 DEF SyInv, SyGit
  <2>4. head \notin commits[head'].line
    BY <2>1, <2>2, <2>3 DEF History, Lineage
  <2>5. Rewritten'
    BY <2>1, <2>3, <2>4 DEF Rewritten, Reach
  <2> QED
    BY <2>1, <2>5 DEF History, Lineage, Contents
<1> DEFINE n == Len(commits)
<1>2. /\ n \in Nat /\ DOMAIN commits = 1 .. n /\ head \in 1 .. n
      /\ \A c \in 1 .. n : commits[c].tree \in [Path -> File]
      /\ Live = commits[head].tree
  <2>1. commits \in Seq(CommitType) /\ head \in DOMAIN commits
    BY DEF SyInv, SyGit
  <2>2. \A c \in DOMAIN commits : commits[c] \in CommitType
    BY <2>1
  <2> QED
    BY <2>1, <2>2 DEF CommitType, Live, Tree
<1>3. \A c \in 1 .. n : \A p \in Path :
        /\ commits[c].tree[p] \in File
        /\ commits[c].tree[p].ver <= n /\ commits[c].tree[p].ver \in Nat
        /\ "break" \in can \/ commits[c].tree[p].good
        /\ "rename" \in can \/ commits[c].tree[p] = Gone \/ commits[c].tree[p].of = p
  BY <1>2 DEF History, Contents, File
<1>4. \A p, q \in Path : "revert" \in can \/ (q # p /\ Live[p] # Gone => Live[q] # Live[p])
  BY <1>2 DEF History, Contents
<1>5. /\ Gone \in File /\ Gone.ver = 0 /\ Gone.good
      /\ \A p \in Path : \A good \in BOOLEAN :
           /\ New(p, good) \in File /\ New(p, good).ver = n + 1
           /\ New(p, good).of = p /\ New(p, good).good = good
  BY <1>2, SyncConstants DEF Gone, New, File
<1>6. Live \in [Path -> File] /\ \A p \in Path : Live[p].ver <= n /\ Live[p].ver \in Nat
  BY <1>2, <1>3 DEF File
<1> HIDE DEF n, Live, Gone, New, Commit
<1>7. ASSUME NEW p \in Path, Edit(p) PROVE History'
  <2>1. PICK good \in BOOLEAN : /\ good \/ "break" \in can
                                /\ Commit([Live EXCEPT ![p] = New(p, good)])
    BY <1>7 DEF Edit
  <2> DEFINE tree == [Live EXCEPT ![p] = New(p, good)]
  <2>2. tree \in [Path -> File] /\ tree[p] = New(p, good) /\ \A q \in Path \ {p} : tree[q] = Live[q]
    BY <1>5, <1>6
  <2> HIDE DEF tree
  <2>3. \A q \in Path : Live[q] # New(p, good)
    BY <1>2, <1>5, <1>6
  <2> QED
    BY <1>2, <1>3, <1>4, <1>5, <1>6, <2>1, <2>2, <2>3, CommitHistory DEF tree, n
<1>8. ASSUME NEW p \in Path, Delete(p) PROVE History'
  <2>1. Commit([Live EXCEPT ![p] = Gone])
    BY <1>8 DEF Delete
  <2> DEFINE tree == [Live EXCEPT ![p] = Gone]
  <2>2. tree \in [Path -> File] /\ tree[p] = Gone /\ \A q \in Path \ {p} : tree[q] = Live[q]
    BY <1>5, <1>6
  <2> HIDE DEF tree
  <2> QED
    BY <1>2, <1>3, <1>4, <1>5, <1>6, <2>1, <2>2, CommitHistory DEF tree, n
<1>9. ASSUME NEW p \in Path, Revert(p) PROVE History'
  <2>1. PICK c \in 1 .. n : Commit([Live EXCEPT ![p] = commits[c].tree[p]])
    BY <1>2, <1>9 DEF Revert, Tree
  <2> DEFINE tree == [Live EXCEPT ![p] = commits[c].tree[p]]
  <2>2. /\ tree \in [Path -> File] /\ tree[p] = commits[c].tree[p]
        /\ \A q \in Path \ {p} : tree[q] = Live[q]
    BY <1>3, <1>6
  <2> HIDE DEF tree
  <2>3. "revert" \in can
    BY <1>9 DEF Revert
  <2>4. \A o \in Path : /\ tree[o].ver <= n /\ ("break" \in can \/ tree[o].good)
                        /\ "rename" \in can \/ tree[o] = Gone \/ tree[o].of = o
    BY <1>2, <1>3, <2>2
  <2>5. \A o \in Path : tree[o].ver \in Nat
    BY <2>2 DEF File
  <2>6. \A o \in Path : tree[o].ver <= n + 1
    BY <1>2, <2>4, <2>5
  <2> QED
    BY <2>1, <2>2, <2>3, <2>4, <2>6, CommitHistory DEF tree, n
<1>10. ASSUME NEW p \in Path, NEW q \in Path, Rename(p, q) PROVE History'
  <2>1. Commit([Live EXCEPT ![p] = Gone, ![q] = Live[p]]) /\ "rename" \in can
        /\ Live[p] # Gone /\ Live[q] = Gone
    BY <1>10 DEF Rename
  <2> DEFINE tree == [Live EXCEPT ![p] = Gone, ![q] = Live[p]]
  <2>2. /\ tree \in [Path -> File] /\ tree[p] = Gone /\ tree[q] = Live[p]
        /\ \A o \in Path \ {p, q} : tree[o] = Live[o]
    BY <1>5, <1>6, <2>1
  <2> HIDE DEF tree
  <2>3. \A o \in Path : tree[o].ver <= n + 1 /\ ("break" \in can \/ tree[o].good)
    BY <1>2, <1>3, <1>5, <1>6, <2>2
  <2>4. \A o, u \in Path : u # o /\ tree[o] # Gone => "revert" \in can \/ tree[u] # tree[o]
    BY <1>4, <2>1, <2>2
  <2> QED
    BY <2>1, <2>2, <2>3, <2>4, CommitHistory DEF tree, n
<1> QED
  BY <1>1, <1>7, <1>8, <1>9, <1>10 DEF World

(* The steps of a sync leave the repository alone.                         *)
LEMMA StepsLeaveGit == ASSUME SyncStep \/ Stop PROVE UNCHANGED <<can, commits, head>>
BY DEF SyncStep, Stop, StartFull, StartSync, DeleteOne, ImportOne, ImportWalked, RenameOne,
       Drained, Gate, Advance, ClearCheckpoint, Settle, Reconcile, git

LEMMA HistoryStep == ASSUME SyInv, History, [Next]_vars PROVE History'
<1>1. CASE UNCHANGED <<can, commits, head>>
  BY <1>1 DEF History, Lineage, Straight, Contents, Rewritten, Reach
<1> QED
  BY <1>1, HistoryWorld, StepsLeaveGit DEF Next, vars, git
-----------------------------------------------------------------------------
(* HEAD still has the content that a file has at a commit.                 *)
Fits(p, c) == Tree(c)[p] = Live[p] /\ ~Restored(p)

(* A renamed file's page moves only onto a free one.                       *)
Erased(p, c) == "rename" \in can /\ Tree(c)[p] = Gone => page[p] = Gone

(* The page of a file is right for a commit, or a later diff will tell.    *)
Up(p, c) == (Fits(p, c) => page[p] = Live[p]) /\ Erased(p, c)

(* The same, or a ledger row names the file.  A full sync clears the rows  *)
(* of files that are gone before it removes their pages.                   *)
Shown(p, c) ==
  /\ Fits(p, c) => page[p] = Live[p] \/ (Listed(p) /\ (Live[p] # Gone \/ "full" \notin can))
  /\ Erased(p, c)

LEMMA UpIsShown == ASSUME NEW p, NEW c, Up(p, c) PROVE Shown(p, c)
BY DEF Up, Shown

(* Between two commits at which it is the same, a file did not change.     *)
LEMMA FitsLater ==
  ASSUME SyInv, Straight, NEW c \in DOMAIN commits, NEW d \in DOMAIN commits, c <= d,
         NEW p \in Path, Fits(p, c)
  PROVE  Fits(p, d)
<1>1. /\ DOMAIN commits = 1 .. Len(commits) /\ Len(commits) \in Nat
      /\ head = Len(commits) /\ head \in DOMAIN commits
  BY DEF SyInv, SyGit, Straight
<1>2. Tree(c)[p] = Tree(head)[p] /\ ~Restored(p)
  BY DEF Fits, Live
<1>3. CASE d = c \/ d = head
  BY <1>2, <1>3 DEF Fits, Live
<1>4. CASE c < d /\ d < head
  <2>1. Tree(d)[p] = Tree(c)[p]
    BY <1>1, <1>2, <1>4 DEF Restored
  <2> QED
    BY <1>2, <2>1 DEF Fits, Live
<1> QED
  BY <1>1, <1>3, <1>4

(* A new commit at which a file fits was fitted by HEAD before it.         *)
LEMMA FitsBack ==
  ASSUME SyInv, Straight, NEW tree \in [Path -> File], Commit(tree),
         NEW c \in DOMAIN commits, NEW p \in Path, Fits(p, c)'
  PROVE  Fits(p, c) /\ Live'[p] = Live[p]
<1> DEFINE n == Len(commits)
<1>1. /\ n \in Nat /\ DOMAIN commits = 1 .. n /\ DOMAIN commits' = 1 .. n + 1 /\ head' = n + 1
      /\ \A d \in 1 .. n : commits'[d] = commits[d]
  BY CommitAdds
<1>2. head = n /\ n \in 1 .. n /\ c \in 1 .. n
  BY <1>1 DEF Straight, SyInv, SyGit
<1>3. commits'[c].tree[p] = commits'[n + 1].tree[p] /\ ~Restored(p)'
  BY <1>1 DEF Fits, Live, Tree
<1> HIDE DEF n
<1>4. ~(\E x, y, z \in 1 .. n + 1 : /\ x < y /\ y < z
                                   /\ commits'[y].tree[p] # commits'[x].tree[p]
                                   /\ commits'[z].tree[p] = commits'[x].tree[p])
  BY <1>1, <1>3 DEF Restored, Tree
<1>5. ~Restored(p)
  BY <1>1, <1>4 DEF Restored, Tree
<1>6. commits'[n].tree[p] = commits'[c].tree[p]
  <2>1. CASE c = n
    BY <2>1
  <2>2. CASE c # n
    <3>1. /\ c < n /\ n < n + 1 /\ c \in 1 .. n + 1 /\ n \in 1 .. n + 1
          /\ n + 1 \in 1 .. n + 1
      BY <1>1, <1>2, <2>2
    <3> QED
      BY <1>3, <1>4, <3>1
  <2> QED
    BY <2>1, <2>2
<1> QED
  BY <1>1, <1>2, <1>3, <1>5, <1>6 DEF Fits, Live, Tree

(* A commit takes nothing back of what is known of files.                  *)
LEMMA UpGrows ==
  ASSUME SyInv, Straight, NEW tree \in [Path -> File], Commit(tree),
         NEW c \in DOMAIN commits, NEW p \in Path
  PROVE  /\ Up(p, c) => Up(p, c)'
         /\ Shown(p, c) => Shown(p, c)'
<1>1. commits'[c] = commits[c] /\ UNCHANGED <<can, sync>>
  BY CommitAdds
<1>2. Fits(p, c)' => Fits(p, c) /\ Live'[p] = Live[p]
  BY FitsBack
<1>3. Erased(p, c) => Erased(p, c)'
  BY <1>1 DEF Erased, Tree, sync
<1>4. Listed(p)' = Listed(p) /\ page' = page /\ can' = can
  BY <1>1 DEF Listed, sync
<1> QED
  BY <1>2, <1>3, <1>4 DEF Up, Shown

(* What a step of the sync leaves, and what it can do for a page.          *)
LEMMA StillFits ==
  ASSUME UNCHANGED <<can, commits, head>>
  PROVE  /\ Live' = Live
         /\ \A c : Tree(c)' = Tree(c)
         /\ \A c, d : /\ Deleted(c, d)' = Deleted(c, d)
                      /\ Changed(c, d)' = Changed(c, d)
                      /\ Renamed(c, d)' = Renamed(c, d)
         /\ \A p, c : Fits(p, c)' <=> Fits(p, c)
<1>1. Live' = Live /\ \A c : Tree(c)' = Tree(c)
  BY DEF Live, Tree
<1>2. \A p : Restored(p)' <=> Restored(p)
  BY DEF Restored, Tree
<1>3. \A c, d : Renamed(c, d)' = Renamed(c, d)
  BY DEF Renamed, Tree
<1> QED
  BY <1>1, <1>2, <1>3 DEF Fits, Deleted, Changed

LEMMA Carried ==
  ASSUME UNCHANGED <<can, commits, head>>, NEW p, page'[p] = page[p], NEW c
  PROVE  /\ Up(p, c) => Up(p, c)'
         /\ Shown(p, c) /\ (Listed(p) => Listed(p)') => Shown(p, c)'
<1>1. Erased(p, c) => Erased(p, c)'
  BY DEF Erased, Tree
<1> QED
  BY <1>1, StillFits DEF Up, Shown

LEMMA Imported ==
  ASSUME UNCHANGED <<can, commits, head>>, NEW p, page'[p] = Live[p], NEW c,
         Tree(c)[p] # Gone \/ "rename" \notin can
  PROVE  Up(p, c)'
<1>1. Erased(p, c)'
  BY DEF Erased, Tree
<1> QED
  BY <1>1, StillFits DEF Up

LEMMA Removed ==
  ASSUME UNCHANGED <<can, commits, head>>, NEW p, page'[p] = Gone, NEW c,
         Tree(c)[p] = Gone \/ Live[p] = Gone
  PROVE  Up(p, c)'
<1>1. Erased(p, c)'
  BY DEF Erased
<1>2. Fits(p, c) => Live[p] = Gone
  BY DEF Fits
<1> QED
  BY <1>1, <1>2, StillFits DEF Up
-----------------------------------------------------------------------------
(* The diff of two commits shows every file that differs, once.  Without   *)
(* renames in the world it has none.                                       *)
LEMMA DiffShows ==
  ASSUME NEW a, NEW b, NEW p \in Path
  PROVE  /\ p \in Deleted(a, b) =>
              /\ Tree(a)[p] # Tree(b)[p] /\ Tree(b)[p] = Gone
              /\ \A r \in Renamed(a, b) : p # r[1] /\ p # r[2]
         /\ p \in Changed(a, b) =>
              /\ Tree(a)[p] # Tree(b)[p] /\ Tree(b)[p] # Gone
              /\ \A r \in Renamed(a, b) : p # r[1] /\ p # r[2]
         /\ Tree(a)[p] # Tree(b)[p] =>
              \/ p \in Deleted(a, b) \cup Changed(a, b)
              \/ \E r \in Renamed(a, b) : p = r[1] \/ p = r[2]
BY DEF Deleted, Changed, Renamed

LEMMA RenamedIs ==
  ASSUME NEW a, NEW b, NEW r \in Renamed(a, b)
  PROVE  /\ r \in Path \X Path /\ r[1] \in Path /\ r[2] \in Path /\ r[1] # r[2]
         /\ Tree(a)[r[1]] # Gone /\ Tree(b)[r[1]] = Gone
         /\ Tree(a)[r[2]] = Gone /\ Tree(b)[r[2]] = Tree(a)[r[1]]
BY DEF Renamed

LEMMA RenamesMatch ==
  ASSUME Contents, Benign(can), NEW a \in DOMAIN commits, NEW b \in DOMAIN commits,
         NEW r \in Renamed(a, b)
  PROVE  /\ "rename" \in can
         /\ \A q \in Renamed(a, b) : q[1] = r[1] \/ q[2] = r[2] => q = r
<1>1. /\ r[1] \in Path /\ r[2] \in Path /\ r[1] # r[2]
      /\ Tree(a)[r[1]] # Gone /\ Tree(b)[r[2]] = Tree(a)[r[1]]
  BY RenamedIs
<1>2. "rename" \in can
  BY <1>1 DEF Contents, Tree
<1>3. "revert" \notin can
  BY <1>2 DEF Benign
<1>4. ASSUME NEW q \in Renamed(a, b), q[1] = r[1] \/ q[2] = r[2] PROVE q = r
  <2>1. /\ q[1] \in Path /\ q[2] \in Path
        /\ Tree(a)[q[1]] # Gone /\ Tree(b)[q[2]] = Tree(a)[q[1]]
    BY RenamedIs
  <2>2. q[1] = r[1] /\ q[2] = r[2]
    BY <1>1, <1>3, <1>4, <2>1 DEF Contents, Tree
  <2> QED
    BY <2>2, RenamedIs
<1> QED
  BY <1>2, <1>4
-----------------------------------------------------------------------------
(* The paths that a run has still to handle.                               *)
Waiting(p) == p \in run.del \cup run.imp \/ \E r \in run.ren : p = r[1] \/ p = r[2]

(* An incremental run from bookmark a to pin b, until its gate: a file is  *)
(* the same at both and was in order before, or waits, or failed, or its   *)
(* page is right for the pin; which holds for all that is banked.          *)
Drains(a, b) ==
  /\ a = anchor /\ ckpt[a].target = b /\ a < b
  /\ ckpt[a].paths \cup run.pending \subseteq run.done
  /\ run.del \subseteq Deleted(a, b) /\ run.imp \subseteq Changed(a, b)
  /\ run.ren \subseteq Renamed(a, b)
  /\ \A p \in run.failed : Tree(a)[p] # Tree(b)[p] /\ (Tree(b)[p] = Gone => "erase" \in can)
  /\ \A p \in Path : Tree(a)[p] = Tree(b)[p] => Shown(p, b)
  /\ \A p \in Path : Tree(a)[p] # Tree(b)[p] => Waiting(p) \/ p \in run.failed \/ Up(p, b)
  /\ \A p \in run.done \cup run.ok : Up(p, b)
  /\ \A r \in Renamed(a, b) : /\ r[2] \in run.done => Up(r[1], b)
                              /\ page[r[1]] = Gone \/ page[r[2]] = Gone
  /\ run.pc = "gate" => \A p \in Path : ~Waiting(p)

(* What the next run can rely on that resumes from bookmark a to target t. *)
Resumable(a, t) ==
  /\ \A p \in Path : Tree(a)[p] = Tree(t)[p] => Shown(p, t)
  /\ \A p \in ckpt[a].paths : Up(p, t)
  /\ \A r \in Renamed(a, t) : /\ r[2] \in ckpt[a].paths => Up(r[1], t)
                              /\ page[r[1]] = Gone \/ page[r[2]] = Gone

(* A full run with pin b, until its gate.                                  *)
Walks(b) ==
  /\ \A p \in run.imp \cup run.failed : Tree(b)[p] # Gone
  /\ \A p \in Path : Tree(b)[p] # Gone => p \in run.imp \cup run.failed \/ Up(p, b)
  /\ run.pc = "gate" => run.imp = {}

InDrain == run.pc \in {"drain", "gate"} /\ ~run.full
Ending  == run.full /\ run.pc \in {"settle", "reconcile"}

(* Checkpoints and the full sync's file.                                   *)
Books ==
  /\ \A c \in 1 .. MaxCommits :
       IF ckpt[c].target = 0 THEN ckpt[c].paths = {} ELSE c <= anchor /\ c < ckpt[c].target
  /\ anchor = 0 => "full" \in can
  /\ "full" \in can => saved = {}
  /\ run.pc # "idle" /\ run.full => "full" \in can

(* What the bookmark and its checkpoint stand for.                         *)
Base ==
  \A a \in DOMAIN commits : a = anchor =>
    /\ ckpt[a].target = 0 =>
         \A p \in Path : Shown(p, a) \/ (Ending /\ Tree(a)[p] = Gone)
    /\ \A t \in DOMAIN commits : ckpt[a].target = t => Resumable(a, t)

Draining == \A a, b \in DOMAIN commits : a = run.from /\ b = run.pin => Drains(a, b)

Walking ==
  run.pc # "idle" /\ run.full =>
    \A b \in DOMAIN commits : b = run.pin =>
      /\ anchor <= b
      /\ \A c \in 1 .. MaxCommits : c = anchor => ckpt[c].target <= b
      /\ run.pc \in {"drain", "gate"} => Walks(b)

Advancing ==
  \A b \in DOMAIN commits : b = run.pin =>
    /\ run.pc = "advance" =>
         \A p \in Path : Shown(p, b) \/ (run.full /\ Tree(b)[p] = Gone)
    /\ run.pc = "advance" /\ ~run.full => anchor < b
    /\ run.pc \in {"clear", "settle", "reconcile"} => anchor = b /\ ckpt[b].target = 0

Kept ==
  /\ page \in [Path -> File]
  /\ Books
  /\ InDrain => Draining
  /\ ~InDrain => Base
  /\ Walking
  /\ Advancing

(* The invariant.  A history that was rewritten promises nothing.          *)
Passed == SyInv /\ History /\ Benign(can) /\ (Rewritten \/ Kept)
-----------------------------------------------------------------------------
(* Nothing was indexed yet, or all of the first commit.                    *)
LEMMA PassedInit == ASSUME \A w \in Worlds : Benign(w) PROVE Init => Passed
<1> SUFFICES ASSUME Init PROVE Passed
  OBVIOUS
<1>1. SyInv /\ History /\ Benign(can)
  BY SyInit, HistoryInit DEF Init
<1>2. DOMAIN commits = {1} /\ head = 1
      /\ commits[1].tree = [p \in Path |-> [ver |-> 1, of |-> p, good |-> TRUE]]
  <2> DEFINE first == [line |-> {1}, tree |-> [p \in Path |-> [ver |-> 1, of |-> p, good |-> TRUE]]]
  <2>1. first.tree = [p \in Path |-> [ver |-> 1, of |-> p, good |-> TRUE]]
    OBVIOUS
  <2>2. commits = <<first>> /\ head = 1
    BY DEF Init
  <2> HIDE DEF first
  <2> QED
    BY <2>1, <2>2
<1>3. /\ Live = commits[1].tree /\ Tree(1) = commits[1].tree
      /\ commits[1].tree \in [Path -> File] /\ Gone \in File
      /\ \A p \in Path : commits[1].tree[p] # Gone
  BY <1>2 DEF Live, Tree, File, Gone
<1>4. /\ run.pc = "idle" /\ saved = {}
      /\ \A c \in 1 .. MaxCommits : ckpt[c].target = 0 /\ ckpt[c].paths = {}
      /\ anchor = IF "full" \in can THEN 0 ELSE 1
      /\ page = [p \in Path |-> IF "full" \in can THEN Gone ELSE commits[1].tree[p]]
  BY DEF Init, Idle, NoCkpt
<1>5. page \in [Path -> File]
  BY <1>3, <1>4
<1>6. Books
  BY <1>4 DEF Books
<1>7. ASSUME anchor = 1 PROVE ckpt[1].target = 0 /\ \A p \in Path : Shown(p, 1)
  BY <1>3, <1>4, <1>7, SyncConstants DEF Shown, Fits, Erased
<1>8. Base
  BY <1>2, <1>4, <1>7 DEF Base
<1> QED
  BY <1>1, <1>4, <1>5, <1>6, <1>8 DEF Passed, Kept, InDrain, Walking, Advancing

(* A commit leaves what a run and the checkpoints rely on.                 *)
LEMMA KeptCommit ==
  ASSUME SyInv, Straight, Kept, NEW tree \in [Path -> File], Commit(tree) PROVE Kept'
<1>1. /\ DOMAIN commits = 1 .. Len(commits) /\ DOMAIN commits' = 1 .. Len(commits) + 1
      /\ Len(commits) \in Nat
      /\ \A c \in DOMAIN commits : commits'[c] = commits[c]
      /\ UNCHANGED <<can, page, anchor, ckpt, saved, ledger, run>>
  BY CommitAdds DEF sync
<1>2. /\ DOMAIN commits \subseteq DOMAIN commits' /\ 0 \notin DOMAIN commits'
      /\ anchor \in {0} \cup DOMAIN commits
      /\ \A c \in DOMAIN commits :
           c \in 1 .. MaxCommits /\ ckpt[c].target \in {0} \cup DOMAIN commits
           /\ ckpt[c].paths \subseteq Path
      /\ run.pc # "idle" => run.pin \in DOMAIN commits
      /\ run.pc # "idle" /\ ~run.full => run.from \in DOMAIN commits
      /\ run.done \subseteq Path /\ run.ok \subseteq Path
  BY <1>1, SyncConstants DEF SyInv, SyMarks, SyRun, CkptType, RunType
<1>3. \A c \in DOMAIN commits : \A p \in Path : (Up(p, c) => Up(p, c)') /\ (Shown(p, c) => Shown(p, c)')
  BY UpGrows
<1>4. \A c, d \in DOMAIN commits :
        /\ Tree(c)' = Tree(c) /\ Deleted(c, d)' = Deleted(c, d)
        /\ Changed(c, d)' = Changed(c, d) /\ Renamed(c, d)' = Renamed(c, d)
  <2>1. \A c \in DOMAIN commits : Tree(c)' = Tree(c)
    BY <1>1 DEF Tree
  <2> TAKE c, d \in DOMAIN commits
  <2>2. Tree(c)' = Tree(c) /\ Tree(d)' = Tree(d)
    BY <2>1
  <2>3. Renamed(c, d)' = Renamed(c, d)
    BY <2>2 DEF Renamed
  <2> QED
    BY <2>2, <2>3 DEF Deleted, Changed
<1>5. \A c, d \in DOMAIN commits : \A r \in Renamed(c, d) : r[1] \in Path /\ r[2] \in Path
  BY RenamedIs
<1>6. Books'
  BY <1>1 DEF Kept, Books
<1>7. ASSUME NEW a \in DOMAIN commits, NEW b \in DOMAIN commits, Drains(a, b) PROVE Drains(a, b)'
  <2>1. \A p : Waiting(p)' <=> Waiting(p)
    BY <1>1 DEF Waiting
  <2> QED
    BY <1>1, <1>2, <1>3, <1>4, <1>5, <1>7, <2>1 DEF Drains
<1>8. ASSUME NEW a \in DOMAIN commits, NEW t \in DOMAIN commits, Resumable(a, t) PROVE Resumable(a, t)'
  BY <1>1, <1>2, <1>3, <1>4, <1>5, <1>8 DEF Resumable
<1>9. ASSUME NEW b \in DOMAIN commits, Walks(b) PROVE Walks(b)'
  BY <1>1, <1>3, <1>4, <1>9 DEF Walks
<1>10. InDrain' = InDrain /\ Ending' = Ending
  BY <1>1 DEF InDrain, Ending
<1>11. InDrain => Draining'
  BY <1>1, <1>2, <1>7 DEF Kept, Draining, InDrain
<1>12. ~InDrain => Base'
  BY <1>1, <1>2, <1>3, <1>4, <1>8, <1>10 DEF Kept, Base
<1>13. Walking'
  BY <1>1, <1>2, <1>9 DEF Kept, Walking
<1>14. Advancing'
  BY <1>1, <1>2, <1>3, <1>4 DEF Kept, Advancing
<1> QED
  BY <1>1, <1>6, <1>10, <1>11, <1>12, <1>13, <1>14 DEF Kept

(* The other processes.                                                    *)
LEMMA KeptWorld ==
  ASSUME SyInv, Straight, Kept, World PROVE Rewritten' \/ Kept'
<1>1. CASE Reset
  <2>1. head' \in commits[head].line \ {head} /\ UNCHANGED commits
    BY <1>1 DEF Reset
  <2>2. commits[head].line = 1 .. head /\ head \in DOMAIN commits /\ head \in Nat
    BY DEF Straight, SyInv, SyGit
  <2>3. head' \in DOMAIN commits /\ head' < head
    BY <2>1, <2>2 DEF SyInv, SyGit
  <2>4. head \notin commits[head'].line
    BY <2>2, <2>3 DEF Straight
  <2> QED
    BY <2>1, <2>2, <2>4 DEF Rewritten, Reach
<1>2. Live \in [Path -> File] /\ \A c \in DOMAIN commits : Tree(c) \in [Path -> File]
  <2>1. \A c \in DOMAIN commits : commits[c] \in CommitType
    BY DEF SyInv, SyGit
  <2>2. \A c \in DOMAIN commits : commits[c].tree \in [Path -> File]
    BY <2>1 DEF CommitType
  <2> QED
    BY <2>2 DEF SyInv, SyGit, Live, Tree
<1>3. Gone \in File /\ \A p \in Path, good \in BOOLEAN : New(p, good) \in File
  BY DEF SyInv, SyGit, Gone, File, New
<1>4. ASSUME NEW p \in Path, NEW q \in Path, Edit(p) \/ Delete(p) \/ Revert(p) \/ Rename(p, q)
      PROVE  Kept'
  <2>1. \E file, other \in File :
          \/ Commit([Live EXCEPT ![p] = file])
          \/ Commit([Live EXCEPT ![p] = file, ![q] = other])
    BY <1>2, <1>3, <1>4 DEF Edit, Delete, Revert, Rename
  <2>2. \A file, other \in File :
          /\ [Live EXCEPT ![p] = file] \in [Path -> File]
          /\ [Live EXCEPT ![p] = file, ![q] = other] \in [Path -> File]
    BY <1>2
  <2> QED
    BY <2>1, <2>2, KeptCommit
<1> QED
  BY <1>1, <1>4 DEF World
-----------------------------------------------------------------------------
(* What a flush banks is done.                                             *)
LEMMA FlushKeeps ==
  ASSUME SyInv, NEW r \in RunType, r.from \in DOMAIN commits, Flush(r)
  PROVE  /\ run'.del = r.del /\ run'.imp = r.imp /\ run'.ren = r.ren
         /\ run'.ok = r.ok /\ run'.done = r.done /\ run'.pending \subseteq r.pending
         /\ \A c \in 1 .. MaxCommits : c # r.from => ckpt'[c] = ckpt[c]
         /\ ckpt'[r.from].paths \subseteq ckpt[r.from].paths \cup r.pending
<1>1. r.from \in 1 .. MaxCommits /\ MaxCommits \in Nat
  BY SyncConstants DEF SyInv, SyGit, SyMarks
<1>2. CASE /\ run' = [r EXCEPT !.pending = {}, !.misses = 0]
           /\ ckpt' = [ckpt EXCEPT ![r.from].paths = @ \cup r.pending]
  <2>1. /\ run'.del = r.del /\ run'.imp = r.imp /\ run'.ren = r.ren
        /\ run'.ok = r.ok /\ run'.done = r.done /\ run'.pending = {}
    BY <1>2 DEF RunType
  <2> QED
    BY <1>1, <1>2, <2>1 DEF SyInv, SyMarks, CkptType
<1>3. CASE /\ run' = [r EXCEPT !.misses = @ + 1,
                                 !.dead = @ \/ r.misses + 1 >= MaxFlushFailures]
           /\ UNCHANGED ckpt
  <2>1. /\ run'.del = r.del /\ run'.imp = r.imp /\ run'.ren = r.ren
        /\ run'.ok = r.ok /\ run'.done = r.done /\ run'.pending = r.pending
    BY <1>3 DEF RunType
  <2> QED
    BY <1>3, <2>1
<1> QED
  BY <1>2, <1>3 DEF Flush

LEMMA MarkKeeps ==
  ASSUME SyInv, NEW p \in Path, NEW r \in RunType, r.from \in DOMAIN commits, Mark(p, r)
  PROVE  /\ run'.del = r.del /\ run'.imp = r.imp /\ run'.ren = r.ren
         /\ run'.ok = r.ok /\ run'.done = r.done \cup {p}
         /\ run'.pending \subseteq r.pending \cup {p}
         /\ \A c \in 1 .. MaxCommits : c # r.from => ckpt'[c] = ckpt[c]
         /\ ckpt'[r.from].paths \subseteq ckpt[r.from].paths \cup r.pending \cup {p}
<1> DEFINE marked == [r EXCEPT !.done = @ \cup {p}, !.pending = @ \cup {p}]
<1>1. /\ marked \in RunType /\ marked.from = r.from
      /\ marked.del = r.del /\ marked.imp = r.imp /\ marked.ren = r.ren /\ marked.ok = r.ok
      /\ marked.done = r.done \cup {p} /\ marked.pending = r.pending \cup {p}
  BY DEF RunType
<1> HIDE DEF marked
<1>2. CASE Flush(marked)
  BY <1>1, <1>2, FlushKeeps
<1>3. CASE run' = marked /\ UNCHANGED ckpt
  BY <1>1, <1>3
<1> QED
  BY <1>2, <1>3 DEF Mark, marked

(* An incremental run handles the files P, or writes down those that fail. *)
LEMMA Handled ==
  ASSUME SyInv, Kept, UNCHANGED <<can, commits, head, anchor, ledger, saved>>,
         page' \in [Path -> File], InDrain,
         run'.pc \in {"drain", "gate"}, ~run'.full, run'.from = run.from, run'.pin = run.pin,
         \A c \in 1 .. MaxCommits : ckpt'[c].target = ckpt[c].target
                                   /\ (c # run.from => ckpt'[c] = ckpt[c]),
         NEW P \in SUBSET Path,
         \A p \in Path \ P : page'[p] = page[p],
         run'.del \subseteq run.del, run'.imp \subseteq run.imp, run'.ren \subseteq run.ren,
         \A p \in Path : Waiting(p) => Waiting(p)' \/ p \in P \cup run'.failed,
         run'.pc = "gate" => \A p \in Path : ~Waiting(p)',
         run.failed \subseteq run'.failed,
         run'.ok \subseteq run.ok \cup P, run'.done \subseteq run.done \cup P,
         ckpt'[run.from].paths \cup run'.pending \subseteq run'.done,
         \A a, b \in DOMAIN commits : a = run.from /\ b = run.pin =>
           /\ \A p \in P : Up(p, b)' /\ Tree(a)[p] # Tree(b)[p]
           /\ \A p \in run'.failed \ run.failed :
                Tree(a)[p] # Tree(b)[p] /\ (Tree(b)[p] = Gone => "erase" \in can)
           /\ \A r \in Renamed(a, b) :
                /\ r[2] \in run'.done => r[2] \in run.done \/ r[1] \in P
                /\ page'[r[1]] = Gone \/ page'[r[2]] = Gone
  PROVE  Kept'
<1>1. /\ run.from \in DOMAIN commits /\ run.pin \in DOMAIN commits
      /\ DOMAIN commits \subseteq 1 .. MaxCommits /\ 0 \notin DOMAIN commits
      /\ run.done \cup run.ok \subseteq Path
  BY SyncConstants DEF SyInv, SyGit, SyMarks, SyRun, RunType, InDrain
<1>2. Books'
  <2>1. \A c \in DOMAIN commits : c = run.from => ckpt[c].target # 0
    BY <1>1 DEF Kept, Draining, Drains
  <2> QED
    BY <1>1, <2>1 DEF Kept, Books
<1>3. ASSUME NEW a \in DOMAIN commits, NEW b \in DOMAIN commits, a = run.from, b = run.pin
      PROVE  Drains(a, b)'
  <2>1. Drains(a, b)
    BY <1>3 DEF Kept, Draining
  <2>2. /\ Deleted(a, b)' = Deleted(a, b) /\ Changed(a, b)' = Changed(a, b)
        /\ Renamed(a, b)' = Renamed(a, b) /\ Tree(a)' = Tree(a) /\ Tree(b)' = Tree(b)
        /\ UNCHANGED <<anchor, can>> /\ Gone' = Gone
    BY StillFits DEF Gone, Sentinel
  <2>3. \A p \in Path : Up(p, b) => Up(p, b)'
    BY <1>3, Carried
  <2>4. \A p \in Path : Tree(a)[p] = Tree(b)[p] => Shown(p, b)'
    <3>1. \A p \in Path \ P : Shown(p, b) => Shown(p, b)'
      BY Carried DEF Listed
    <3> QED
      BY <1>3, <2>1, <3>1 DEF Drains
  <2>5. \A p \in Path : Tree(a)[p] # Tree(b)[p] => Waiting(p)' \/ p \in run'.failed \/ Up(p, b)'
    BY <1>3, <2>1, <2>3 DEF Drains
  <2>6. \A p \in run'.done \cup run'.ok : Up(p, b)'
    BY <1>1, <1>3, <2>1, <2>3 DEF Drains
  <2>7. \A r \in Renamed(a, b) : /\ r[2] \in run'.done => Up(r[1], b)'
                                 /\ page'[r[1]] = Gone \/ page'[r[2]] = Gone
    BY <1>3, <2>1, <2>3, RenamedIs DEF Drains
  <2>8. \A p \in run'.failed : Tree(a)[p] # Tree(b)[p] /\ (Tree(b)[p] = Gone => "erase" \in can)
    BY <1>3, <2>1 DEF Drains
  <2>9. /\ a = anchor' /\ ckpt'[a].target = b /\ a < b
        /\ ckpt'[a].paths \cup run'.pending \subseteq run'.done
        /\ run'.del \subseteq Deleted(a, b) /\ run'.imp \subseteq Changed(a, b)
        /\ run'.ren \subseteq Renamed(a, b)
    BY <1>1, <1>3, <2>1 DEF Drains
  <2> QED
    BY <2>2, <2>4, <2>5, <2>6, <2>7, <2>8, <2>9 DEF Drains
<1>4. InDrain' /\ Draining'
  BY <1>1, <1>3 DEF InDrain, Draining
<1> QED
  BY <1>2, <1>4 DEF Kept, Walking, Advancing, InDrain

(* What the steps of an incremental run start from.                        *)
LEMMA Drainage ==
  ASSUME SyInv, Kept, run.pc = "drain", ~run.full
  PROVE  /\ InDrain /\ run \in RunType
         /\ run.from \in DOMAIN commits /\ run.pin \in DOMAIN commits
         /\ \A a, b \in DOMAIN commits : a = run.from /\ b = run.pin => Drains(a, b)
         /\ \A c \in DOMAIN commits : c = run.from => ckpt[c].paths \cup run.pending \subseteq run.done
         /\ page \in [Path -> File] /\ Gone \in File
         /\ \A c \in DOMAIN commits : \A p \in Path : Tree(c)[p] \in File
         /\ \A p \in Path : Live[p] \in File
<1>1. \A c \in DOMAIN commits : commits[c] \in CommitType
  BY DEF SyInv, SyGit
<1>2. \A c \in DOMAIN commits : \A p \in Path : Tree(c)[p] \in File
  BY <1>1 DEF CommitType, Tree
<1>3. \A p \in Path : Live[p] \in File
  BY <1>2 DEF Live, SyInv, SyGit
<1>4. Gone \in File
  BY DEF Gone, File
<1>5. /\ InDrain /\ run \in RunType
      /\ run.from \in DOMAIN commits /\ run.pin \in DOMAIN commits
      /\ \A a, b \in DOMAIN commits : a = run.from /\ b = run.pin => Drains(a, b)
  BY DEF InDrain, SyInv, SyRun, Kept, Draining
<1>6. \A c \in DOMAIN commits : c = run.from => ckpt[c].paths \cup run.pending \subseteq run.done
  BY <1>5 DEF Drains
<1> QED
  BY <1>2, <1>3, <1>4, <1>5, <1>6 DEF Kept

LEMMA KeptDelete ==
  ASSUME SyInv, Kept, NEW p \in Path, DeleteOne(p) PROVE Kept'
<1> DEFINE rest == [run EXCEPT !.del = @ \ {p}]
<1>1. /\ run.pc = "drain" /\ ~run.full /\ p \in run.del
      /\ UNCHANGED <<can, commits, head, anchor, ledger, saved>>
  BY DEF DeleteOne, git, SyInv, SyRun
<1>2. /\ InDrain /\ run \in RunType
      /\ run.from \in DOMAIN commits /\ run.pin \in DOMAIN commits
      /\ page \in [Path -> File] /\ Gone \in File
      /\ \A c \in DOMAIN commits : c = run.from => ckpt[c].paths \cup run.pending \subseteq run.done
  BY <1>1, Drainage
<1>3. ASSUME NEW a \in DOMAIN commits, NEW b \in DOMAIN commits, a = run.from, b = run.pin
      PROVE  /\ Tree(a)[p] # Tree(b)[p] /\ Tree(b)[p] = Gone
             /\ \A r \in Renamed(a, b) : /\ p # r[1] /\ p # r[2]
                                         /\ page[r[1]] = Gone \/ page[r[2]] = Gone
  <2>1. Drains(a, b)
    BY <1>1, <1>3, Drainage
  <2> QED
    BY <1>1, <2>1, DiffShows DEF Drains
<1>4. /\ rest \in RunType /\ rest.pc = "drain" /\ rest.from = run.from /\ rest.pin = run.pin
      /\ ~rest.full /\ rest.failed = run.failed /\ rest.done = run.done /\ rest.ok = run.ok
      /\ rest.pending = run.pending
      /\ rest.del = run.del \ {p} /\ rest.imp = run.imp /\ rest.ren = run.ren
  BY <1>1, <1>2 DEF RunType
<1>5. CASE page' = [page EXCEPT ![p] = Gone] /\ Mark(p, rest)
  <2>1. /\ run'.pc = "drain" /\ run'.from = run.from /\ run'.pin = run.pin
        /\ ~run'.full /\ run'.failed = run.failed
        /\ \A c \in 1 .. MaxCommits : ckpt'[c].target = ckpt[c].target
    BY <1>2, <1>4, <1>5, SyMark
  <2>0. Mark(p, rest)
    BY <1>5
  <2> HIDE DEF rest
  <2>2. /\ run'.del = run.del \ {p} /\ run'.imp = run.imp /\ run'.ren = run.ren
        /\ run'.ok = run.ok /\ run'.done = run.done \cup {p}
        /\ run'.pending \subseteq run.pending \cup {p}
        /\ \A c \in 1 .. MaxCommits : c # run.from => ckpt'[c] = ckpt[c]
        /\ ckpt'[run.from].paths \subseteq ckpt[run.from].paths \cup run.pending \cup {p}
    BY <1>2, <1>4, <2>0, MarkKeeps
  <2>3. page' \in [Path -> File] /\ page'[p] = Gone /\ \A q \in Path \ {p} : page'[q] = page[q]
    BY <1>2, <1>5
  <2>4. \A q \in Path : Waiting(q) => Waiting(q)' \/ q = p
    BY <2>2 DEF Waiting
  <2>5. ASSUME NEW a \in DOMAIN commits, NEW b \in DOMAIN commits, a = run.from, b = run.pin
        PROVE  /\ Up(p, b)' /\ Tree(a)[p] # Tree(b)[p]
               /\ \A r \in Renamed(a, b) :
                    /\ r[2] \in run'.done => r[2] \in run.done
                    /\ page'[r[1]] = Gone \/ page'[r[2]] = Gone
    BY <1>1, <1>3, <2>2, <2>3, <2>5, Removed, RenamedIs
  <2> DEFINE P == {p}
  <2>6. /\ P \in SUBSET Path /\ \A q \in Path \ P : page'[q] = page[q]
        /\ \A q \in Path : Waiting(q) => Waiting(q)' \/ q \in P \cup run'.failed
        /\ run'.done \subseteq run.done \cup P
        /\ ckpt'[run.from].paths \cup run'.pending \subseteq run'.done
    BY <1>2, <2>2, <2>3, <2>4
  <2>7. ASSUME NEW a \in DOMAIN commits, NEW b \in DOMAIN commits, a = run.from, b = run.pin
        PROVE  /\ \A q \in P : Up(q, b)' /\ Tree(a)[q] # Tree(b)[q]
               /\ \A q \in run'.failed \ run.failed :
                    Tree(a)[q] # Tree(b)[q] /\ (Tree(b)[q] = Gone => "erase" \in can)
               /\ \A r \in Renamed(a, b) :
                    /\ r[2] \in run'.done => r[2] \in run.done \/ r[1] \in P
                    /\ page'[r[1]] = Gone \/ page'[r[2]] = Gone
    BY <2>1, <2>5, <2>7
  <2> HIDE DEF P
  <2> QED
    BY <1>1, <1>2, <2>1, <2>2, <2>3, <2>6, <2>7, Handled
<1>6. CASE /\ Fault("erase") /\ UNCHANGED <<page, ckpt>>
           /\ run' = [rest EXCEPT !.failed = @ \cup {p}]
  <2>1. /\ run'.pc = "drain" /\ run'.from = run.from /\ run'.pin = run.pin
        /\ ~run'.full /\ run'.failed = run.failed \cup {p}
        /\ run'.del = run.del \ {p} /\ run'.imp = run.imp /\ run'.ren = run.ren
        /\ run'.ok = run.ok /\ run'.done = run.done /\ run'.pending = run.pending
    BY <1>2, <1>4, <1>6 DEF RunType
  <2>2. \A q \in Path : Waiting(q) => Waiting(q)' \/ q \in run'.failed
    BY <2>1 DEF Waiting
  <2>3. "erase" \in can /\ UNCHANGED <<page, ckpt>>
    BY <1>6 DEF Fault
  <2> HIDE DEF rest
  <2> DEFINE P == {}
  <2>6. /\ P \in SUBSET Path /\ \A q \in Path \ P : page'[q] = page[q]
        /\ \A q \in Path : Waiting(q) => Waiting(q)' \/ q \in P \cup run'.failed
        /\ run'.done \subseteq run.done \cup P /\ run.failed \subseteq run'.failed
        /\ run'.ok \subseteq run.ok \cup P
        /\ ckpt'[run.from].paths \cup run'.pending \subseteq run'.done
    BY <1>2, <2>1, <2>2, <2>3
  <2>7. ASSUME NEW a \in DOMAIN commits, NEW b \in DOMAIN commits, a = run.from, b = run.pin
        PROVE  /\ \A q \in P : Up(q, b)' /\ Tree(a)[q] # Tree(b)[q]
               /\ \A q \in run'.failed \ run.failed :
                    Tree(a)[q] # Tree(b)[q] /\ (Tree(b)[q] = Gone => "erase" \in can)
               /\ \A r \in Renamed(a, b) :
                    /\ r[2] \in run'.done => r[2] \in run.done \/ r[1] \in P
                    /\ page'[r[1]] = Gone \/ page'[r[2]] = Gone
    BY <1>3, <2>1, <2>3, <2>7
  <2> HIDE DEF P
  <2> QED
    BY <1>1, <1>2, <2>1, <2>3, <2>6, <2>7, Handled
<1> QED
  BY <1>5, <1>6 DEF DeleteOne

LEMMA KeptImport ==
  ASSUME SyInv, Kept, Contents, NEW p \in Path, ImportOne(p) PROVE Kept'
<1> DEFINE rest == [run EXCEPT !.imp = @ \ {p}]
           good == [rest EXCEPT !.ok = @ \cup {p}]
<1>1. /\ run.pc = "drain" /\ ~run.full /\ p \in run.imp
      /\ UNCHANGED <<can, commits, head, anchor, ledger, saved>>
  BY DEF ImportOne, git
<1>2. /\ InDrain /\ run \in RunType
      /\ run.from \in DOMAIN commits /\ run.pin \in DOMAIN commits
      /\ page \in [Path -> File] /\ Live[p] \in File
      /\ \A c \in DOMAIN commits : c = run.from => ckpt[c].paths \cup run.pending \subseteq run.done
  BY <1>1, Drainage
<1>3. ASSUME NEW a \in DOMAIN commits, NEW b \in DOMAIN commits, a = run.from, b = run.pin
      PROVE  /\ Tree(a)[p] # Tree(b)[p] /\ Tree(b)[p] # Gone
             /\ \A r \in Renamed(a, b) : /\ p # r[1] /\ p # r[2]
                                         /\ page[r[1]] = Gone \/ page[r[2]] = Gone
  <2>1. Drains(a, b)
    BY <1>1, <1>3, Drainage
  <2> QED
    BY <1>1, <2>1, DiffShows DEF Drains
<1>4. /\ rest \in RunType /\ rest.pc = "drain" /\ rest.from = run.from /\ rest.pin = run.pin
      /\ ~rest.full /\ rest.failed = run.failed /\ rest.done = run.done /\ rest.ok = run.ok
      /\ rest.pending = run.pending
      /\ rest.del = run.del /\ rest.imp = run.imp \ {p} /\ rest.ren = run.ren
  BY <1>1, <1>2 DEF RunType
<1>5. /\ good \in RunType /\ good.pc = "drain" /\ good.from = run.from /\ good.pin = run.pin
      /\ ~good.full /\ good.failed = run.failed /\ good.done = run.done
      /\ good.ok = run.ok \cup {p} /\ good.pending = run.pending
      /\ good.del = run.del /\ good.imp = run.imp \ {p} /\ good.ren = run.ren
  BY <1>1, <1>2 DEF RunType
<1>6. CASE /\ page' = IF Live[p] = Gone THEN page ELSE [page EXCEPT ![p] = Live[p]]
           /\ Mark(p, rest) \/ Mark(p, good)
  <2>1. /\ run'.pc = "drain" /\ run'.from = run.from /\ run'.pin = run.pin
        /\ ~run'.full /\ run'.failed = run.failed
        /\ \A c \in 1 .. MaxCommits : ckpt'[c].target = ckpt[c].target
    BY <1>2, <1>4, <1>5, <1>6, SyMark
  <2>0. Mark(p, rest) \/ Mark(p, good)
    BY <1>6
  <2> HIDE DEF rest, good
  <2>2. /\ run'.del = run.del /\ run'.imp = run.imp \ {p} /\ run'.ren = run.ren
        /\ run'.ok \subseteq run.ok \cup {p} /\ run'.done = run.done \cup {p}
        /\ run'.pending \subseteq run.pending \cup {p}
        /\ \A c \in 1 .. MaxCommits : c # run.from => ckpt'[c] = ckpt[c]
        /\ ckpt'[run.from].paths \subseteq ckpt[run.from].paths \cup run.pending \cup {p}
    <3>1. CASE Mark(p, rest)
      BY <1>2, <1>4, <3>1, MarkKeeps
    <3>2. CASE Mark(p, good)
      BY <1>2, <1>5, <3>2, MarkKeeps
    <3> QED
      BY <2>0, <3>1, <3>2
  <2>3. /\ page' \in [Path -> File] /\ \A q \in Path \ {p} : page'[q] = page[q]
        /\ Live[p] # Gone => page'[p] = Live[p]
    BY <1>2, <1>6
  <2>4. \A q \in Path : Waiting(q) => Waiting(q)' \/ q = p
    BY <2>2 DEF Waiting
  <2>5. ASSUME NEW a \in DOMAIN commits, NEW b \in DOMAIN commits, a = run.from, b = run.pin
        PROVE  /\ Up(p, b)' /\ Tree(a)[p] # Tree(b)[p]
               /\ \A r \in Renamed(a, b) :
                    /\ r[2] \in run'.done => r[2] \in run.done
                    /\ page'[r[1]] = Gone \/ page'[r[2]] = Gone
    <3>1. ASSUME Live[p] # Gone PROVE Up(p, b)'
      <4>1. page'[p] = Live[p] /\ Tree(b)[p] # Gone
        BY <1>3, <2>3, <2>5, <3>1
      <4> QED
        BY <1>1, <4>1, Imported
    <3>2. ASSUME Live[p] = Gone PROVE Up(p, b)'
      <4>1. ~Fits(p, b)' /\ Tree(b)'[p] # Gone'
        BY <1>1, <1>3, <2>5, <3>2, StillFits DEF Fits, Gone, Sentinel
      <4> QED
        BY <4>1 DEF Up, Erased
    <3>3. ASSUME NEW r \in Renamed(a, b)
          PROVE  /\ r[2] \in run'.done => r[2] \in run.done
                 /\ page'[r[1]] = Gone \/ page'[r[2]] = Gone
      <4>1. r[1] \in Path /\ r[2] \in Path
        BY RenamedIs
      <4>2. p # r[1] /\ p # r[2] /\ (page[r[1]] = Gone \/ page[r[2]] = Gone)
        BY <1>3, <2>5
      <4> QED
        BY <2>2, <2>3, <4>1, <4>2
    <3> QED
      BY <1>3, <2>5, <3>1, <3>2, <3>3
  <2> DEFINE P == {p}
  <2>6. /\ P \in SUBSET Path /\ \A q \in Path \ P : page'[q] = page[q]
        /\ \A q \in Path : Waiting(q) => Waiting(q)' \/ q \in P \cup run'.failed
        /\ run'.done \subseteq run.done \cup P /\ run'.ok \subseteq run.ok \cup P
        /\ ckpt'[run.from].paths \cup run'.pending \subseteq run'.done
    BY <1>2, <2>2, <2>3, <2>4
  <2>7. ASSUME NEW a \in DOMAIN commits, NEW b \in DOMAIN commits, a = run.from, b = run.pin
        PROVE  /\ \A q \in P : Up(q, b)' /\ Tree(a)[q] # Tree(b)[q]
               /\ \A q \in run'.failed \ run.failed :
                    Tree(a)[q] # Tree(b)[q] /\ (Tree(b)[q] = Gone => "erase" \in can)
               /\ \A r \in Renamed(a, b) :
                    /\ r[2] \in run'.done => r[2] \in run.done \/ r[1] \in P
                    /\ page'[r[1]] = Gone \/ page'[r[2]] = Gone
    BY <2>1, <2>5, <2>7
  <2> HIDE DEF P
  <2> QED
    BY <1>1, <1>2, <2>1, <2>2, <2>3, <2>6, <2>7, Handled
<1>7. CASE /\ UNCHANGED <<page, ckpt>> /\ run' = [rest EXCEPT !.failed = @ \cup {p}]
  <2>1. /\ run'.pc = "drain" /\ run'.from = run.from /\ run'.pin = run.pin
        /\ ~run'.full /\ run'.failed = run.failed \cup {p}
        /\ run'.del = run.del /\ run'.imp = run.imp \ {p} /\ run'.ren = run.ren
        /\ run'.ok = run.ok /\ run'.done = run.done /\ run'.pending = run.pending
    BY <1>2, <1>4, <1>7 DEF RunType
  <2>2. \A q \in Path : Waiting(q) => Waiting(q)' \/ q \in run'.failed
    BY <2>1 DEF Waiting
  <2>3. UNCHANGED <<page, ckpt>>
    BY <1>7
  <2> HIDE DEF rest
  <2> DEFINE P == {}
  <2>6. /\ P \in SUBSET Path /\ \A q \in Path \ P : page'[q] = page[q]
        /\ \A q \in Path : Waiting(q) => Waiting(q)' \/ q \in P \cup run'.failed
        /\ run'.done \subseteq run.done \cup P /\ run.failed \subseteq run'.failed
        /\ run'.ok \subseteq run.ok \cup P
        /\ ckpt'[run.from].paths \cup run'.pending \subseteq run'.done
    BY <1>2, <2>1, <2>2, <2>3
  <2>7. ASSUME NEW a \in DOMAIN commits, NEW b \in DOMAIN commits, a = run.from, b = run.pin
        PROVE  /\ \A q \in P : Up(q, b)' /\ Tree(a)[q] # Tree(b)[q]
               /\ \A q \in run'.failed \ run.failed :
                    Tree(a)[q] # Tree(b)[q] /\ (Tree(b)[q] = Gone => "erase" \in can)
               /\ \A r \in Renamed(a, b) :
                    /\ r[2] \in run'.done => r[2] \in run.done \/ r[1] \in P
                    /\ page'[r[1]] = Gone \/ page'[r[2]] = Gone
    BY <1>3, <2>1, <2>3, <2>7
  <2> HIDE DEF P
  <2> QED
    BY <1>1, <1>2, <2>1, <2>3, <2>6, <2>7, Handled
<1> QED
  BY <1>6, <1>7 DEF ImportOne

(* A rename that waits in a drain, beside the other renames of the diff.   *)
LEMMA RenameWaits ==
  ASSUME SyInv, Kept, Contents, Benign(can), run.pc = "drain", ~run.full, NEW r \in run.ren,
         NEW a \in DOMAIN commits, NEW b \in DOMAIN commits, a = run.from, b = run.pin
  PROVE  /\ "rename" \in can /\ r[1] # r[2]
         /\ Tree(a)[r[1]] # Gone /\ Tree(b)[r[1]] = Gone
         /\ Tree(a)[r[2]] = Gone /\ Tree(b)[r[2]] # Gone
         /\ page[r[1]] = Gone \/ page[r[2]] = Gone
         /\ \A q \in Renamed(a, b) :
              /\ q[1] \in Path /\ q[2] \in Path
              /\ page[q[1]] = Gone \/ page[q[2]] = Gone
              /\ q # r => {q[1], q[2]} \cap {r[1], r[2]} = {}
<1>1. Drains(a, b) /\ r \in Renamed(a, b)
  BY Drainage DEF Drains
<1>2. "rename" \in can /\ \A q \in Renamed(a, b) : q[1] = r[1] \/ q[2] = r[2] => q = r
  BY <1>1, RenamesMatch
<1>3. /\ r[1] # r[2] /\ Tree(a)[r[1]] # Gone /\ Tree(b)[r[1]] = Gone
      /\ Tree(a)[r[2]] = Gone /\ Tree(b)[r[2]] # Gone
  BY <1>1, RenamedIs
<1>4. ASSUME NEW q \in Renamed(a, b)
      PROVE  /\ q[1] \in Path /\ q[2] \in Path
             /\ page[q[1]] = Gone \/ page[q[2]] = Gone
             /\ q # r => {q[1], q[2]} \cap {r[1], r[2]} = {}
  <2>1. /\ q[1] \in Path /\ q[2] \in Path /\ Tree(a)[q[1]] # Gone /\ Tree(b)[q[1]] = Gone
        /\ Tree(a)[q[2]] = Gone
    BY RenamedIs
  <2>2. page[q[1]] = Gone \/ page[q[2]] = Gone
    BY <1>1 DEF Drains
  <2>3. q # r => q[1] # r[1] /\ q[2] # r[2]
    BY <1>2
  <2>4. q[1] # r[2] /\ q[2] # r[1]
    BY <1>3, <2>1
  <2> QED
    BY <2>1, <2>2, <2>3, <2>4
<1> QED
  BY <1>1, <1>2, <1>3, <1>4

(* What updateSlug does to the pages of a rename.                          *)
LEMMA Moves ==
  ASSUME page \in [Path -> File], Gone \in File, NEW r \in Path \X Path, r[1] # r[2],
         page[r[1]] = Gone \/ page[r[2]] = Gone
  PROVE  /\ Moved(r) \in [Path -> File] /\ \A q \in Path \ {r[1], r[2]} : Moved(r)[q] = page[q]
         /\ Moved(r)[r[1]] = Gone
         /\ page[r[2]] # Gone => Moved(r) = page
BY DEF Moved

LEMMA KeptRename ==
  ASSUME SyInv, Kept, Contents, Benign(can), NEW r \in Path \X Path, RenameOne(r) PROVE Kept'
<1> DEFINE rest == [run EXCEPT !.ren = @ \ {r}]
<1>1. /\ run.pc = "drain" /\ ~run.full /\ r \in run.ren /\ r[1] \in Path /\ r[2] \in Path
      /\ UNCHANGED <<can, commits, head, anchor, ledger, saved>>
      /\ page' = IF Live[r[2]] # Gone /\ Live[r[2]].good
                 THEN [Moved(r) EXCEPT ![r[2]] = Live[r[2]]] ELSE Moved(r)
      /\ Mark(r[2], rest)
  BY DEF RenameOne, git, SyInv, SyRun
<1>2. /\ InDrain /\ run \in RunType
      /\ run.from \in DOMAIN commits /\ run.pin \in DOMAIN commits
      /\ page \in [Path -> File] /\ Gone \in File /\ Live[r[2]] \in File
      /\ \A c \in DOMAIN commits : c = run.from => ckpt[c].paths \cup run.pending \subseteq run.done
  BY <1>1, Drainage
<1>3. /\ rest \in RunType /\ rest.pc = "drain" /\ rest.from = run.from /\ rest.pin = run.pin
      /\ ~rest.full /\ rest.failed = run.failed /\ rest.done = run.done /\ rest.ok = run.ok
      /\ rest.pending = run.pending
      /\ rest.del = run.del /\ rest.imp = run.imp /\ rest.ren = run.ren \ {r}
  BY <1>1, <1>2 DEF RunType
<1> HIDE DEF rest
<1>4. ASSUME NEW a \in DOMAIN commits, NEW b \in DOMAIN commits, a = run.from, b = run.pin
      PROVE  /\ "rename" \in can /\ r[1] # r[2]
             /\ Tree(a)[r[1]] # Gone /\ Tree(b)[r[1]] = Gone
             /\ Tree(a)[r[2]] = Gone /\ Tree(b)[r[2]] # Gone
             /\ page[r[1]] = Gone \/ page[r[2]] = Gone
             /\ \A q \in Renamed(a, b) :
                  /\ q[1] \in Path /\ q[2] \in Path
                  /\ page[q[1]] = Gone \/ page[q[2]] = Gone
                  /\ q # r => {q[1], q[2]} \cap {r[1], r[2]} = {}
  BY <1>1, <1>4, RenameWaits
<1>5. /\ run'.pc = "drain" /\ run'.from = run.from /\ run'.pin = run.pin
      /\ ~run'.full /\ run'.failed = run.failed
      /\ \A c \in 1 .. MaxCommits : ckpt'[c].target = ckpt[c].target
  BY <1>1, <1>2, <1>3, SyMark
<1>6. /\ run'.del = run.del /\ run'.imp = run.imp /\ run'.ren = run.ren \ {r}
      /\ run'.ok = run.ok /\ run'.done = run.done \cup {r[2]}
      /\ run'.pending \subseteq run.pending \cup {r[2]}
      /\ \A c \in 1 .. MaxCommits : c # run.from => ckpt'[c] = ckpt[c]
      /\ ckpt'[run.from].paths \subseteq ckpt[run.from].paths \cup run.pending \cup {r[2]}
  BY <1>1, <1>2, <1>3, MarkKeeps
<1>7. /\ r[1] # r[2] /\ (page[r[1]] = Gone \/ page[r[2]] = Gone)
      /\ "rename" \in can /\ Live[r[2]].good
  <2>1. /\ r[1] # r[2] /\ (page[r[1]] = Gone \/ page[r[2]] = Gone)
        /\ "rename" \in can
    BY <1>2, <1>4
  <2>2. Live[r[2]].good
    BY <1>1, <2>1 DEF Benign, Contents, Live, Tree, SyInv, SyGit
  <2> QED
    BY <2>1, <2>2
<1>8. /\ page' \in [Path -> File] /\ \A q \in Path \ {r[1], r[2]} : page'[q] = page[q]
      /\ page'[r[1]] = Gone /\ (Live[r[2]] # Gone => page'[r[2]] = Live[r[2]])
  <2>1. /\ Moved(r) \in [Path -> File] /\ \A q \in Path \ {r[1], r[2]} : Moved(r)[q] = page[q]
        /\ Moved(r)[r[1]] = Gone
    BY <1>1, <1>2, <1>7, Moves
  <2> QED
    BY <1>1, <1>2, <1>7, <2>1
<1> DEFINE P == {r[1], r[2]}
<1>9. \A q \in Path : Waiting(q) => Waiting(q)' \/ q \in P
  BY <1>6 DEF Waiting
<1>10. /\ P \in SUBSET Path /\ \A q \in Path \ P : page'[q] = page[q]
       /\ run'.done \subseteq run.done \cup P
       /\ ckpt'[run.from].paths \cup run'.pending \subseteq run'.done
  BY <1>1, <1>2, <1>6, <1>8
<1>11. ASSUME NEW a \in DOMAIN commits, NEW b \in DOMAIN commits, a = run.from, b = run.pin
       PROVE  /\ \A q \in P : Up(q, b)' /\ Tree(a)[q] # Tree(b)[q]
              /\ \A q \in run'.failed \ run.failed :
                   Tree(a)[q] # Tree(b)[q] /\ (Tree(b)[q] = Gone => "erase" \in can)
              /\ \A q \in Renamed(a, b) :
                   /\ q[2] \in run'.done => q[2] \in run.done \/ q[1] \in P
                   /\ page'[q[1]] = Gone \/ page'[q[2]] = Gone
  <2>1. /\ Tree(a)[r[1]] # Gone /\ Tree(b)[r[1]] = Gone
        /\ Tree(a)[r[2]] = Gone /\ Tree(b)[r[2]] # Gone
        /\ \A q \in Renamed(a, b) :
             /\ q[1] \in Path /\ q[2] \in Path
             /\ page[q[1]] = Gone \/ page[q[2]] = Gone
             /\ q # r => {q[1], q[2]} \cap {r[1], r[2]} = {}
    BY <1>4, <1>11
  <2>2. Up(r[1], b)'
    BY <1>1, <1>8, <2>1, Removed
  <2>3. Up(r[2], b)'
    <3>1. CASE Live[r[2]] # Gone
      BY <1>1, <1>8, <2>1, <3>1, Imported
    <3>2. CASE Live[r[2]] = Gone
      <4>1. ~Fits(r[2], b)' /\ Tree(b)'[r[2]] # Gone'
        BY <1>1, <2>1, <3>2, StillFits DEF Fits, Gone, Sentinel
      <4> QED
        BY <4>1 DEF Up, Erased
    <3> QED
      BY <3>1, <3>2
  <2>4. ASSUME NEW q \in Renamed(a, b)
        PROVE  /\ q[2] \in run'.done => q[2] \in run.done \/ q[1] \in P
               /\ page'[q[1]] = Gone \/ page'[q[2]] = Gone
    <3>1. CASE q = r
      BY <1>8, <3>1
    <3>2. CASE q # r
      BY <1>6, <1>8, <2>1, <3>2
    <3> QED
      BY <3>1, <3>2
  <2> QED
    BY <1>5, <2>1, <2>2, <2>3, <2>4
<1>12. /\ UNCHANGED <<can, commits, head, anchor, ledger, saved>> /\ InDrain
       /\ page' \in [Path -> File]
  BY <1>1, <1>2, <1>8
<1>13. /\ run'.pc = "drain" /\ ~run'.full /\ run'.from = run.from /\ run'.pin = run.pin
       /\ run'.del \subseteq run.del /\ run'.imp \subseteq run.imp /\ run'.ren \subseteq run.ren
       /\ run.failed \subseteq run'.failed /\ run'.ok \subseteq run.ok \cup P
  BY <1>5, <1>6
<1>14. \A c \in 1 .. MaxCommits : /\ ckpt'[c].target = ckpt[c].target
                                  /\ c # run.from => ckpt'[c] = ckpt[c]
  BY <1>5, <1>6
<1> HIDE DEF P
<1> QED
  BY <1>9, <1>10, <1>11, <1>12, <1>13, <1>14, Handled

(* A full import takes the file of the working tree.                       *)
LEMMA KeptWalked ==
  ASSUME SyInv, Kept, Contents, Benign(can), NEW p \in Path, ImportWalked(p) PROVE Kept'
<1> DEFINE fits == Live[p] # Gone /\ Live[p].good
           done == IF fits THEN run.done \cup {p} ELSE run.done
           failed == IF fits THEN run.failed ELSE run.failed \cup {p}
<1>1. /\ run.pc = "drain" /\ run.full /\ p \in run.imp /\ run \in RunType
      /\ run.pin \in DOMAIN commits
      /\ UNCHANGED <<can, commits, head, anchor, ckpt, ledger>>
      /\ page' = IF fits THEN [page EXCEPT ![p] = Live[p]] ELSE page
      /\ run' = [run EXCEPT !.imp = @ \ {p}, !.done = done, !.failed = failed]
      /\ saved' = IF done # {} /\ Cardinality(done) % ImportEvery = 0 THEN done ELSE saved
      /\ done \in SUBSET Path /\ failed \in SUBSET Path
  BY DEF ImportWalked, git, SyInv, SyRun, RunType
<1> DEFINE count == Cardinality(done)
<1>2. /\ "full" \in can /\ "rename" \notin can /\ saved = {} /\ Gone \in File /\ Live[p] \in File
      /\ \A n \in 1 .. Cardinality(Path) : n % ImportEvery # 0
      /\ page \in [Path -> File]
  <2>1. "full" \in can /\ saved = {} /\ page \in [Path -> File]
    BY <1>1 DEF Kept, Books
  <2>2. \A c \in DOMAIN commits : commits[c] \in CommitType
    BY DEF SyInv, SyGit
  <2>3. Live[p] \in File
    BY <2>2 DEF CommitType, Live, Tree, SyInv, SyGit
  <2> QED
    BY <2>1, <2>3 DEF Benign, Gone, File
<1>3. done # {} => count \in 1 .. Cardinality(Path)
  <2>1. IsFiniteSet(done) /\ Cardinality(done) <= Cardinality(Path)
        /\ Cardinality(Path) \in Nat /\ Cardinality(done) \in Nat
    BY <1>1, SyncConstants, FS_Subset, FS_CardinalityType
  <2>2. done # {} => Cardinality(done) # 0
    BY <2>1, FS_EmptySet
  <2> QED
    BY <2>1, <2>2
<1>4. saved' = {}
  BY <1>1, <1>2, <1>3
<1>5. /\ run'.pc = "drain" /\ run'.full /\ run'.pin = run.pin
      /\ run'.imp = run.imp \ {p} /\ run'.failed = failed
  BY <1>1 DEF RunType
<1> HIDE DEF fits, done, count, failed
<1>6. /\ page' \in [Path -> File] /\ \A q \in Path \ {p} : page'[q] = page[q]
      /\ page'[p] = page[p] \/ page'[p] = Live[p]
      /\ p \in failed \/ page'[p] = Live[p]
      /\ run.failed \subseteq failed /\ failed \subseteq run.failed \cup {p}
  <2>1. CASE fits
    <3>1. page' = [page EXCEPT ![p] = Live[p]] /\ failed = run.failed
      BY <1>1, <2>1 DEF failed
    <3> QED
      BY <1>2, <3>1
  <2>2. CASE ~fits
    <3>1. page' = page /\ failed = run.failed \cup {p}
      BY <1>1, <2>2 DEF failed
    <3> QED
      BY <1>2, <3>1
  <2> QED
    BY <2>1, <2>2
<1>7. \A q \in Path : \A c : /\ Up(q, c) => Up(q, c)'
                             /\ Shown(q, c) => Shown(q, c)'
  <2>1. ASSUME NEW q \in Path, NEW c, page'[q] = page[q]
        PROVE  (Up(q, c) => Up(q, c)') /\ (Shown(q, c) => Shown(q, c)')
    BY <1>1, <2>1, Carried DEF Listed
  <2>2. ASSUME NEW q \in Path, NEW c, page'[q] = Live[q]
        PROVE  Up(q, c)' /\ Shown(q, c)'
    <3>1. Up(q, c)'
      BY <1>1, <1>2, <2>2, Imported
    <3>2. Shown(q, c)'
      BY <3>1 DEF Up, Shown
    <3> QED
      BY <3>1, <3>2
  <2> QED
    BY <1>6, <2>1, <2>2
<1>8. \A c, d \in DOMAIN commits : Renamed(c, d) = {} /\ Renamed(c, d)' = {} /\ Tree(c)' = Tree(c)
  BY <1>1, <1>2, RenamesMatch, StillFits
<1>9. Books'
  BY <1>1, <1>4, <1>5 DEF Kept, Books
<1>10. Base'
  <2>1. Base /\ ~Ending /\ anchor \in {0} \cup DOMAIN commits
        /\ \A c \in DOMAIN commits : ckpt[c].paths \subseteq Path
    BY <1>1, SyncConstants DEF Kept, InDrain, Ending, SyInv, SyGit, SyMarks, CkptType
  <2>2. ASSUME NEW a \in DOMAIN commits, a = anchor,
               NEW t \in DOMAIN commits, Resumable(a, t) PROVE Resumable(a, t)'
    BY <1>1, <1>7, <1>8, <2>1, <2>2 DEF Resumable
  <2> QED
    BY <1>1, <1>7, <2>1, <2>2 DEF Base
<1>11. ASSUME NEW b \in DOMAIN commits, b = run.pin PROVE Walks(b)'
  <2>1. Walks(b)
    BY <1>1, <1>11 DEF Kept, Walking
  <2>2. \A q \in Path : Tree(b)[q] # Gone => q \in (run.imp \ {p}) \cup failed \/ Up(q, b)'
    <3>1. page'[p] = Live[p] => Up(p, b)'
      BY <1>1, <1>2, Imported
    <3> QED
      BY <1>6, <1>7, <2>1, <3>1 DEF Walks
  <2>3. \A q \in (run.imp \ {p}) \cup failed : Tree(b)[q] # Gone
    BY <1>1, <1>6, <2>1 DEF Walks
  <2>4. Gone' = Gone /\ Tree(b)' = Tree(b)
    BY <1>8 DEF Gone, Sentinel
  <2> QED
    BY <1>5, <2>2, <2>3, <2>4 DEF Walks
<1>12. Walking'
  BY <1>1, <1>5, <1>11 DEF Kept, Walking
<1> QED
  BY <1>1, <1>5, <1>6, <1>9, <1>10, <1>12 DEF Kept, InDrain, Advancing
-----------------------------------------------------------------------------
(* A run that ends early leaves what the next one resumes from.            *)
LEMMA KeptIdle ==
  ASSUME SyInv, Kept, UNCHANGED <<can, commits, head, page, anchor, saved, ledger>>,
         run'.pc = "idle", ~Ending,
         \A c \in 1 .. MaxCommits : ckpt'[c].target = ckpt[c].target
                                   /\ (c # run.from \/ ~InDrain => ckpt'[c] = ckpt[c]),
         InDrain => ckpt'[run.from].paths \subseteq ckpt[run.from].paths \cup run.pending
  PROVE  Kept'
<1>1. /\ DOMAIN commits \subseteq 1 .. MaxCommits /\ 0 \notin DOMAIN commits
      /\ InDrain => run.from \in DOMAIN commits /\ run.pin \in DOMAIN commits
      /\ run.done \subseteq Path
      /\ \A c \in 1 .. MaxCommits : ckpt[c].paths \subseteq Path
  <2>1. DOMAIN commits \subseteq 1 .. MaxCommits /\ 0 \notin DOMAIN commits
    BY SyncConstants DEF SyInv, SyGit, SyMarks
  <2>2. \A c \in 1 .. MaxCommits : ckpt[c].paths \subseteq Path
    BY DEF SyInv, SyMarks, CkptType
  <2>3. run.done \subseteq Path
    BY DEF SyInv, SyRun, RunType
  <2>4. InDrain => run.from \in DOMAIN commits /\ run.pin \in DOMAIN commits
    BY DEF SyInv, SyRun, InDrain
  <2> QED
    BY <2>1, <2>2, <2>3, <2>4
<1>2. Books'
  <2>1. \A c \in DOMAIN commits : InDrain /\ c = run.from => ckpt[c].target # 0
    BY <1>1 DEF Kept, Draining, Drains
  <2> QED
    BY <1>1, <2>1 DEF Kept, Books
<1>3. \A p \in Path : \A c : (Up(p, c) => Up(p, c)') /\ (Shown(p, c) => Shown(p, c)')
  BY Carried DEF Listed
<1>4. \A c, d : Renamed(c, d)' = Renamed(c, d) /\ Tree(c)' = Tree(c)
  BY StillFits
<1>5. \A c, d \in DOMAIN commits : \A r \in Renamed(c, d) : r[1] \in Path /\ r[2] \in Path
  BY RenamedIs
<1>6. Gone' = Gone
  BY DEF Gone, Sentinel
<1>7. CASE InDrain
  <2>1. ASSUME NEW a \in DOMAIN commits, NEW b \in DOMAIN commits, a = run.from, b = run.pin
        PROVE  Resumable(a, b)' /\ a = anchor /\ ckpt'[a].target = b
    <3>1. Drains(a, b)
      BY <1>7, <2>1 DEF Kept, Draining
    <3>2. a = anchor /\ ckpt'[a].target = b /\ ckpt'[a].paths \subseteq run.done
      BY <1>1, <1>7, <2>1, <3>1 DEF Drains
    <3>3. /\ \A p \in Path : Tree(a)[p] = Tree(b)[p] => Shown(p, b)'
          /\ \A p \in run.done : Up(p, b)'
          /\ \A r \in Renamed(a, b) : /\ r[2] \in run.done => Up(r[1], b)'
                                      /\ page[r[1]] = Gone \/ page[r[2]] = Gone
      BY <1>1, <1>3, <1>5, <3>1 DEF Drains
    <3>4. Resumable(a, b)'
      BY <1>4, <1>6, <3>2, <3>3 DEF Resumable
    <3> QED
      BY <3>2, <3>4
  <2>2. Base'
    BY <1>1, <1>7, <2>1 DEF Base
  <2> QED
    BY <1>2, <2>2 DEF Kept, InDrain, Walking, Advancing
<1>8. CASE ~InDrain
  <2>1. ASSUME NEW a \in DOMAIN commits, NEW t \in DOMAIN commits, Resumable(a, t)
        PROVE  Resumable(a, t)'
    BY <1>1, <1>3, <1>4, <1>5, <1>6, <1>8, <2>1 DEF Resumable
  <2>2. Base'
    BY <1>1, <1>3, <1>8, <2>1 DEF Kept, Base
  <2> QED
    BY <1>2, <2>2 DEF Kept, InDrain, Walking, Advancing
<1> QED
  BY <1>7, <1>8

(* A run that ends between the two writes of a rename.                     *)
LEMMA KeptBroken ==
  ASSUME SyInv, Kept, Contents, Benign(can), Stop, run.pc = "drain",
         NEW r \in run.ren, page' = Moved(r)
  PROVE  Kept'
<1>1. /\ UNCHANGED <<can, commits, head, anchor, saved, ledger>>
      /\ run'.pc = "idle" /\ run' = Idle /\ ~run'.full
  BY DEF Stop, Idle, git
<1>2. ~run.full /\ r \in Path \X Path /\ r[1] \in Path /\ r[2] \in Path
  BY DEF SyInv, SyRun, RunType
<1>3. /\ InDrain /\ run \in RunType /\ run.from \in DOMAIN commits /\ run.pin \in DOMAIN commits
      /\ page \in [Path -> File] /\ Gone \in File
      /\ DOMAIN commits \subseteq 1 .. MaxCommits /\ 0 \notin DOMAIN commits
  BY <1>2, Drainage, SyncConstants DEF SyInv, SyGit, SyMarks
<1>4. /\ \A c \in 1 .. MaxCommits : ckpt'[c].target = ckpt[c].target
                                   /\ (c # run.from => ckpt'[c] = ckpt[c])
      /\ ckpt'[run.from].paths \subseteq ckpt[run.from].paths \cup run.pending
  <2>1. run.from \in 1 .. MaxCommits /\ ckpt \in CkptType
    BY <1>3 DEF SyInv, SyMarks
  <2>2. CASE UNCHANGED ckpt
    BY <2>2
  <2>3. CASE ckpt' = [ckpt EXCEPT ![run.from].paths = @ \cup run.pending]
    BY <2>1, <2>3 DEF CkptType
  <2> QED
    BY <2>2, <2>3 DEF Stop
<1>5. /\ r[1] # r[2] /\ page' \in [Path -> File] /\ page'[r[1]] = Gone
      /\ \A q \in Path \ {r[1], r[2]} : page'[q] = page[q]
      /\ page[r[2]] # Gone => page' = page
  <2>1. r[1] # r[2] /\ (page[r[1]] = Gone \/ page[r[2]] = Gone)
    BY <1>2, <1>3, RenameWaits
  <2> QED
    BY <1>2, <1>3, <2>1, Moves
<1>6. /\ \A c, d : Renamed(c, d)' = Renamed(c, d) /\ Tree(c)' = Tree(c)
      /\ \A p, c : Fits(p, c)' <=> Fits(p, c)
      /\ Gone' = Gone
  BY <1>1, StillFits DEF Gone, Sentinel
<1>7. Books'
  <2>1. \A c \in DOMAIN commits : c = run.from => ckpt[c].target # 0
    BY <1>3 DEF Kept, Draining, Drains
  <2> QED
    BY <1>1, <1>3, <1>4, <2>1 DEF Kept, Books
<1>8. ASSUME NEW a \in DOMAIN commits, NEW b \in DOMAIN commits, a = run.from, b = run.pin
      PROVE  Resumable(a, b)' /\ a = anchor /\ ckpt'[a].target = b
  <2>1. Drains(a, b)
    BY <1>3, <1>8 DEF Kept, Draining
  <2>2. a = anchor /\ ckpt'[a].target = b /\ ckpt'[a].paths \subseteq run.done
    BY <1>3, <1>4, <1>8, <2>1 DEF Drains
  <2>3. /\ Tree(a)[r[1]] # Gone /\ Tree(b)[r[1]] = Gone
        /\ Tree(a)[r[2]] = Gone /\ Tree(b)[r[2]] # Gone
        /\ \A q \in Renamed(a, b) :
             /\ q[1] \in Path /\ q[2] \in Path
             /\ page[q[1]] = Gone \/ page[q[2]] = Gone
             /\ q # r => {q[1], q[2]} \cap {r[1], r[2]} = {}
    BY <1>2, <1>8, RenameWaits
  <2>4. ASSUME NEW p \in Path PROVE Up(p, b) => Up(p, b)'
    <3>1. CASE p \notin {r[1], r[2]} \/ page' = page
      BY <1>1, <1>5, <3>1, Carried
    <3>2. CASE p = r[1]
      BY <1>1, <1>5, <2>3, <3>2, Removed
    <3>3. CASE p = r[2] /\ page[p] = Gone
      <4>1. Up(p, b) => ~Fits(p, b)
        BY <2>3, <3>3 DEF Up, Fits
      <4> QED
        BY <1>6, <2>3, <3>3, <4>1 DEF Up, Erased
    <3> QED
      BY <1>5, <3>1, <3>2, <3>3
  <2>5. ASSUME NEW p \in Path, Tree(a)[p] = Tree(b)[p] PROVE Shown(p, b)'
    <3>1. p \notin {r[1], r[2]} /\ Shown(p, b)
      BY <2>1, <2>3, <2>5 DEF Drains
    <3> QED
      BY <1>1, <1>5, <3>1, Carried DEF Listed
  <2>6. ASSUME NEW q \in Renamed(a, b) PROVE page'[q[1]] = Gone \/ page'[q[2]] = Gone
    BY <1>2, <1>5, <2>3
  <2>7. run.done \subseteq Path
    BY <1>3 DEF RunType
  <2>8. Resumable(a, b)'
    <3>1. /\ \A p \in ckpt'[a].paths : Up(p, b)'
          /\ \A q \in Renamed(a, b) : q[2] \in ckpt'[a].paths => Up(q[1], b)'
      BY <2>1, <2>2, <2>3, <2>4, <2>7 DEF Drains
    <3> QED
      BY <1>6, <2>5, <2>6, <3>1 DEF Resumable
  <2> QED
    BY <2>2, <2>8
<1>9. Base'
  BY <1>1, <1>3, <1>8 DEF Base
<1> QED
  BY <1>1, <1>5, <1>7, <1>9 DEF Kept, InDrain, Walking, Advancing

LEMMA KeptStop == ASSUME SyInv, Kept, Contents, Benign(can), Stop PROVE Kept'
<1>0. SUFFICES ASSUME UNCHANGED page PROVE Kept'
  BY KeptBroken DEF Stop
<1>1. /\ UNCHANGED <<can, commits, head, page, anchor, saved, ledger>>
      /\ run' = Idle /\ run.pc # "idle" /\ "kill" \in can
  BY <1>0 DEF Stop, Fault, git
<1>2. ~run.full
  BY <1>1 DEF Kept, Books, Benign
<1>3. run'.pc = "idle" /\ ~Ending
  BY <1>1, <1>2 DEF Idle, Ending
<1>4. CASE UNCHANGED ckpt
  BY <1>1, <1>3, <1>4, KeptIdle
<1>5. CASE run.pc = "drain" /\ ckpt' = [ckpt EXCEPT ![run.from].paths = @ \cup run.pending]
  <2>1. InDrain /\ run.from \in 1 .. MaxCommits
    BY <1>2, <1>5, SyncConstants DEF InDrain, SyInv, SyGit, SyMarks, SyRun
  <2>2. /\ \A c \in 1 .. MaxCommits : ckpt'[c].target = ckpt[c].target
                                     /\ (c # run.from => ckpt'[c] = ckpt[c])
        /\ ckpt'[run.from].paths \subseteq ckpt[run.from].paths \cup run.pending
    BY <1>5, <2>1 DEF SyInv, SyMarks, CkptType
  <2> QED
    BY <1>1, <1>3, <2>1, <2>2, KeptIdle
<1> QED
  BY <1>4, <1>5 DEF Stop

(* The end of the drain.                                                   *)
LEMMA KeptDrained == ASSUME SyInv, Kept, Drained PROVE Kept'
<1>1. /\ run.pc = "drain" /\ run \in RunType /\ run.pin \in DOMAIN commits
      /\ UNCHANGED <<can, commits, head, page, anchor, ledger>>
  BY DEF Drained, git, SyInv, SyRun
<1> DEFINE gate == [run EXCEPT !.pc = "gate"]
<1>2. /\ gate \in RunType /\ gate.pc = "gate" /\ gate.from = run.from /\ gate.pin = run.pin
      /\ gate.full = run.full /\ gate.failed = run.failed /\ gate.done = run.done
      /\ gate.ok = run.ok /\ gate.pending = run.pending
      /\ gate.del = run.del /\ gate.imp = run.imp /\ gate.ren = run.ren
  BY <1>1 DEF RunType
<1>3. CASE run' = Idle /\ UNCHANGED <<ckpt, saved>>
  BY <1>1, <1>3, KeptIdle DEF Idle, Ending
<1>4. CASE /\ ~run.full /\ run.del = {} /\ run.ren = {} /\ run.imp = {}
           /\ Flush(gate) /\ UNCHANGED saved
  <2>0. Flush(gate)
    BY <1>4
  <2>1. /\ InDrain /\ run.from \in DOMAIN commits /\ page \in [Path -> File]
        /\ \A a, b \in DOMAIN commits : a = run.from /\ b = run.pin => Drains(a, b)
        /\ \A c \in DOMAIN commits : c = run.from => ckpt[c].paths \cup run.pending \subseteq run.done
    BY <1>1, <1>4, Drainage
  <2> HIDE DEF gate
  <2>2. /\ run'.pc = "gate" /\ run'.from = run.from /\ run'.pin = run.pin
        /\ ~run'.full /\ run'.failed = run.failed
        /\ \A c \in 1 .. MaxCommits : ckpt'[c].target = ckpt[c].target
    BY <1>2, <1>4, <2>0, <2>1, SyFlush
  <2>3. /\ run'.del = {} /\ run'.imp = {} /\ run'.ren = {}
        /\ run'.ok = run.ok /\ run'.done = run.done /\ run'.pending \subseteq run.pending
        /\ \A c \in 1 .. MaxCommits : c # run.from => ckpt'[c] = ckpt[c]
        /\ ckpt'[run.from].paths \subseteq ckpt[run.from].paths \cup run.pending
    BY <1>2, <1>4, <2>0, <2>1, FlushKeeps
  <2>4. (\A p \in Path : ~Waiting(p)) /\ (\A p \in Path : ~Waiting(p)')
    BY <1>4, <2>3 DEF Waiting
  <2> DEFINE P == {}
  <2>5. /\ P \in SUBSET Path /\ \A q \in Path \ P : page'[q] = page[q]
        /\ run'.done \subseteq run.done \cup P /\ run'.ok \subseteq run.ok \cup P
        /\ ckpt'[run.from].paths \cup run'.pending \subseteq run'.done
        /\ page' \in [Path -> File]
    BY <1>1, <2>1, <2>3
  <2>6. ASSUME NEW a \in DOMAIN commits, NEW b \in DOMAIN commits, a = run.from, b = run.pin
        PROVE  /\ \A q \in P : Up(q, b)' /\ Tree(a)[q] # Tree(b)[q]
               /\ \A q \in run'.failed \ run.failed :
                    Tree(a)[q] # Tree(b)[q] /\ (Tree(b)[q] = Gone => "erase" \in can)
               /\ \A r \in Renamed(a, b) :
                    /\ r[2] \in run'.done => r[2] \in run.done \/ r[1] \in P
                    /\ page'[r[1]] = Gone \/ page'[r[2]] = Gone
    <3>1. Drains(a, b)
      BY <2>1, <2>6
    <3> QED
      BY <1>1, <2>2, <2>3, <3>1 DEF Drains
  <2> HIDE DEF P
  <2> QED
    BY <1>1, <1>4, <2>1, <2>2, <2>3, <2>4, <2>5, <2>6, Handled
<1>5. CASE run.full /\ run.imp = {} /\ run' = gate /\ saved' \in {{}, saved} /\ UNCHANGED ckpt
  <2>1. /\ run'.pc = "gate" /\ run'.full /\ run'.pin = run.pin
        /\ run'.imp = {} /\ run'.failed = run.failed /\ ~InDrain /\ ~Ending
    BY <1>1, <1>2, <1>5 DEF InDrain, Ending
  <2> HIDE DEF gate
  <2>2. \A p \in Path : \A c : (Up(p, c) => Up(p, c)') /\ (Shown(p, c) => Shown(p, c)')
    BY <1>1, Carried DEF Listed
  <2>3. \A c, d : Renamed(c, d)' = Renamed(c, d) /\ Tree(c)' = Tree(c)
    BY <1>1, StillFits
  <2>4. \A c, d \in DOMAIN commits : \A r \in Renamed(c, d) : r[1] \in Path /\ r[2] \in Path
    BY RenamedIs
  <2>5. Gone' = Gone
    BY DEF Gone, Sentinel
  <2>6. Books'
    BY <1>1, <1>5, <2>1 DEF Kept, Books
  <2>7. Base'
    <3>1. \A c \in DOMAIN commits : ckpt[c].paths \subseteq Path
      BY SyncConstants DEF SyInv, SyGit, SyMarks, CkptType
    <3>2. ASSUME NEW a \in DOMAIN commits, NEW t \in DOMAIN commits, Resumable(a, t)
          PROVE  Resumable(a, t)'
      BY <1>1, <1>5, <2>2, <2>3, <2>4, <2>5, <3>1, <3>2 DEF Resumable
    <3> QED
      BY <1>1, <1>5, <2>1, <2>2, <3>2 DEF Kept, Base
  <2>8. ASSUME NEW b \in DOMAIN commits, Walks(b) PROVE Walks(b)'
    BY <1>5, <2>1, <2>2, <2>3, <2>5, <2>8 DEF Walks
  <2>9. Walking'
    BY <1>1, <1>5, <2>1, <2>8 DEF Kept, Walking
  <2> QED
    BY <1>1, <2>1, <2>6, <2>7, <2>9 DEF Kept, InDrain, Advancing
<1> QED
  BY <1>3, <1>4, <1>5 DEF Drained
-----------------------------------------------------------------------------
(* What the gate writes into the ledger.                                   *)
LEMMA GateLists ==
  ASSUME SyInv, Gate, NEW p \in Path
  PROVE  /\ p \in run.failed => Listed(p)'
         /\ Listed(p) /\ p \notin Resolved => Listed(p)'
<1>1. PICK failing : run.failed \subseteq failing /\ ledger' = Recorded(failing)
  BY DEF Gate
<1>2. p \in DOMAIN ledger
  BY DEF SyInv, SyMarks
<1>3. CASE p \in failing
  <2>1. ledger'[p].state = "open"
    BY <1>1, <1>2, <1>3 DEF Recorded
  <2> QED
    BY <2>1 DEF Listed
<1>4. CASE p \notin failing
  <2>1. p \notin Resolved => ledger'[p] = ledger[p]
    BY <1>1, <1>2, <1>4 DEF Recorded
  <2> QED
    BY <1>1, <1>4, <2>1 DEF Listed
<1> QED
  BY <1>3, <1>4

LEMMA KeptGate == ASSUME SyInv, Straight, Kept, Benign(can), Gate PROVE Kept'
<1>1. /\ UNCHANGED <<can, commits, head, page, anchor, ckpt, saved>>
      /\ run.pc = "gate" /\ run \in RunType /\ run.pin \in DOMAIN commits
      /\ page' \in [Path -> File]
  BY DEF Gate, git, SyInv, SyRun, Kept
<1>2. \/ run'.pc = "advance" /\ run'.full = run.full /\ run'.pin = run.pin
      \/ run'.pc = "idle" /\ ~run'.full
  <2>1. run' \in {[run EXCEPT !.pc = "advance"], Idle}
    BY DEF Gate
  <2> QED
    BY <1>1, <2>1 DEF RunType, Idle
<1>3. /\ \A p \in Path : \A c : Up(p, c) => Up(p, c)' /\ Shown(p, c)'
      /\ \A p \in Path : \A c : Shown(p, c) /\ (Listed(p) => Listed(p)') => Shown(p, c)'
  <2>1. \A p \in Path : \A c : Up(p, c) => Up(p, c)'
    BY <1>1, Carried
  <2>2. \A p \in Path : \A c : Up(p, c)' => Shown(p, c)'
    BY DEF Up, Shown
  <2>3. \A p \in Path : \A c : Shown(p, c) /\ (Listed(p) => Listed(p)') => Shown(p, c)'
    BY <1>1, Carried
  <2> QED
    BY <2>1, <2>2, <2>3
<1>4. /\ \A c, d : Renamed(c, d)' = Renamed(c, d) /\ Tree(c)' = Tree(c)
      /\ Gone' = Gone /\ Live' = Live /\ \A p, c : Fits(p, c)' <=> Fits(p, c)
  BY <1>1, StillFits DEF Gone, Sentinel
<1>5. /\ \A c \in DOMAIN commits : ckpt[c].paths \subseteq Path
      /\ \A c, d \in DOMAIN commits : \A r \in Renamed(c, d) : r[1] \in Path /\ r[2] \in Path
  BY RenamedIs, SyncConstants DEF SyInv, SyGit, SyMarks, CkptType
<1>6. Books'
  BY <1>1, <1>2 DEF Kept, Books
<1>7. ~InDrain' /\ ~Ending /\ ~Ending'
  BY <1>1, <1>2 DEF InDrain, Ending
<1>8. CASE ~run.full
  <2>1. /\ run.from \in DOMAIN commits
        /\ \A a, b \in DOMAIN commits : a = run.from /\ b = run.pin => Drains(a, b)
    BY <1>1, <1>8 DEF Kept, InDrain, Draining, SyInv, SyRun
  <2>2. ASSUME NEW a \in DOMAIN commits, NEW b \in DOMAIN commits, a = run.from, b = run.pin
        PROVE  /\ a = anchor /\ ckpt[a].target = b /\ anchor < b
               /\ Resumable(a, b)'
               /\ \A p \in Path : Shown(p, b)'
    <3>1. Drains(a, b)
      BY <2>1, <2>2
    <3>2. Resolved = run.ok \cup Deleted(a, b) \cup {r[1] : r \in Renamed(a, b)}
      BY <1>8, <2>2 DEF Resolved
    <3>3. a = anchor /\ ckpt[a].target = b /\ a < b
      BY <3>1 DEF Drains
    <3>4. ASSUME NEW p \in Path, Tree(a)[p] = Tree(b)[p] PROVE Shown(p, b)'
      <4>1. Shown(p, b) /\ (p \in run.ok => Up(p, b))
        BY <3>1, <3>4 DEF Drains
      <4>2. p \notin Deleted(a, b) /\ \A r \in Renamed(a, b) : p # r[1]
        BY <3>4, DiffShows, RenamedIs
      <4> QED
        BY <1>3, <3>2, <4>1, <4>2, GateLists
    <3>5. ASSUME NEW p \in Path, Tree(a)[p] # Tree(b)[p] PROVE Shown(p, b)'
      <4>1. ~Waiting(p) /\ (p \in run.failed \/ Up(p, b))
        BY <1>1, <3>1, <3>5 DEF Drains
      <4>2. CASE p \in run.failed
        <5>1. Tree(b)[p] = Gone => "full" \notin can /\ "rename" \notin can
          BY <3>1, <4>2 DEF Drains, Benign
        <5>2. Fits(p, b)' => Live'[p] = Tree(b)[p]
          BY <1>4 DEF Fits
        <5>3. Listed(p)'
          BY <4>2, GateLists
        <5>4. Erased(p, b)'
          BY <1>1, <1>4, <5>1 DEF Erased
        <5> QED
          BY <1>1, <1>4, <5>1, <5>2, <5>3, <5>4 DEF Shown
      <4> QED
        BY <1>3, <4>1, <4>2
    <3>6. Resumable(a, b)'
      <4>1. /\ \A p \in ckpt[a].paths : Up(p, b)'
            /\ \A r \in Renamed(a, b) : /\ r[2] \in ckpt[a].paths => Up(r[1], b)'
                                        /\ page[r[1]] = Gone \/ page[r[2]] = Gone
        BY <1>3, <1>5, <3>1 DEF Drains
      <4> QED
        BY <1>1, <1>4, <3>4, <4>1 DEF Resumable
    <3> QED
      BY <3>3, <3>4, <3>5, <3>6
  <2>3. Base'
    <3>1. 0 \notin DOMAIN commits
      BY DEF SyInv, SyGit
    <3> QED
      BY <1>1, <2>1, <2>2, <3>1 DEF Base
  <2>4. Advancing' /\ Walking'
    <3>1. Advancing'
      BY <1>1, <1>2, <1>8, <2>1, <2>2 DEF Advancing
    <3>2. Walking'
      BY <1>2, <1>8 DEF Walking
    <3> QED
      BY <3>1, <3>2
  <2> QED
    BY <1>1, <1>6, <1>7, <2>3, <2>4 DEF Kept
<1>9. CASE run.full
  <2>1. /\ "full" \in can /\ "rename" \notin can /\ Base
        /\ \A b \in DOMAIN commits : b = run.pin =>
             /\ anchor <= b /\ Walks(b) /\ run.imp = {}
             /\ \A c \in 1 .. MaxCommits : c = anchor => ckpt[c].target <= b
    BY <1>1, <1>9 DEF Kept, Books, Benign, InDrain, Walking, Walks
  <2>2. DOMAIN commits \subseteq 1 .. MaxCommits
    BY SyncConstants DEF SyInv, SyGit, SyMarks
  <2>3. ASSUME NEW b \in DOMAIN commits, b = run.pin, NEW p \in Path
        PROVE  /\ Tree(b)[p] # Gone => Shown(p, b)'
               /\ \A c \in DOMAIN commits : c <= b /\ Shown(p, c) => Shown(p, c)'
    <3>1. Walks(b) /\ run.imp = {}
      BY <2>1, <2>3
    <3>2. Tree(b)[p] # Gone => p \in run.failed \/ Up(p, b)
      BY <3>1 DEF Walks
    <3>3. ASSUME Tree(b)[p] # Gone PROVE Shown(p, b)'
      <4>1. CASE p \in run.failed
        <5>1. Listed(p)' /\ (Fits(p, b)' => Live'[p] # Gone') /\ Erased(p, b)'
          BY <1>4, <2>1, <3>3, <4>1, GateLists DEF Fits, Erased
        <5> QED
          BY <5>1 DEF Shown
      <4> QED
        BY <1>3, <3>2, <3>3, <4>1
    <3>4. ASSUME NEW c \in DOMAIN commits, c <= b, Shown(p, c) PROVE Shown(p, c)'
      <4>1. Erased(p, c)'
        BY <1>1, <2>1 DEF Erased
      <4>2. ASSUME Fits(p, c), page[p] # Live[p] PROVE Listed(p)' /\ Live[p] # Gone
        <5>1. Live[p] # Gone
          BY <2>1, <3>4, <4>2 DEF Shown
        <5>2. Fits(p, b)
          BY <3>4, <4>2, FitsLater
        <5>3. Tree(b)[p] # Gone /\ ~Up(p, b)
          BY <4>2, <5>1, <5>2 DEF Fits, Up
        <5>4. p \in run.failed
          BY <3>2, <5>3
        <5> QED
          BY <5>1, <5>4, GateLists
      <4> QED
        BY <1>1, <1>4, <4>1, <4>2 DEF Shown
    <3> QED
      BY <3>3, <3>4
  <2>4. \A b \in DOMAIN commits : b = run.pin =>
          /\ \A p \in Path : Shown(p, b)' \/ Tree(b)[p] = Gone
          /\ \A c \in DOMAIN commits : \A p \in Path : c <= b /\ Shown(p, c) => Shown(p, c)'
    BY <2>3
  <2>5. Base'
    <3>1. ASSUME NEW a \in DOMAIN commits, NEW t \in DOMAIN commits, t <= run.pin, Resumable(a, t)
          PROVE  Resumable(a, t)'
      <4>1. /\ \A p \in Path : Tree(a)[p] = Tree(t)[p] => Shown(p, t)'
            /\ \A p \in ckpt[a].paths : Up(p, t)'
            /\ \A r \in Renamed(a, t) : /\ r[2] \in ckpt[a].paths => Up(r[1], t)'
                                        /\ page[r[1]] = Gone \/ page[r[2]] = Gone
        BY <1>1, <1>3, <1>5, <2>4, <3>1 DEF Resumable
      <4> QED
        BY <1>1, <1>4, <4>1 DEF Resumable
    <3>2. ASSUME NEW a \in DOMAIN commits, a = anchor
          PROVE  /\ ckpt[a].target = 0 => \A p \in Path : Shown(p, a)'
                 /\ \A t \in DOMAIN commits : ckpt[a].target = t => Resumable(a, t)'
      <4>1. a <= run.pin /\ ckpt[a].target <= run.pin
        BY <1>1, <2>1, <2>2, <3>2
      <4>2. /\ ckpt[a].target = 0 => \A p \in Path : Shown(p, a)
            /\ \A t \in DOMAIN commits : ckpt[a].target = t => Resumable(a, t)
        BY <1>7, <2>1, <3>2 DEF Base
      <4>3. ckpt[a].target = 0 => \A p \in Path : Shown(p, a)'
        BY <1>1, <2>4, <4>1, <4>2
      <4> QED
        BY <3>1, <4>1, <4>2, <4>3
    <3> QED
      BY <1>1, <3>2 DEF Base
  <2>6. Advancing'
    <3>1. ASSUME run'.pc = "advance"
          PROVE  run'.full /\ run'.pin = run.pin /\ DOMAIN commits' = DOMAIN commits
      BY <1>1, <1>2, <1>9, <3>1
    <3>2. run'.pc \in {"advance", "idle"}
      BY <1>2
    <3>3. \A b \in DOMAIN commits, p \in Path : Tree(b)'[p] = Tree(b)[p]
      BY <1>4
    <3>4. ASSUME run'.pc = "advance", NEW b \in DOMAIN commits, b = run.pin, NEW p \in Path
          PROVE  Shown(p, b)' \/ Tree(b)'[p] = Gone
      BY <2>4, <3>3, <3>4
    <3> QED
      BY <3>1, <3>2, <3>4 DEF Advancing
  <2>7. Walking'
    BY <1>1, <1>2, <2>1 DEF Walking
  <2> QED
    BY <1>1, <1>6, <1>7, <2>5, <2>6, <2>7 DEF Kept
<1> QED
  BY <1>8, <1>9
-----------------------------------------------------------------------------
(* Steps that touch no page and drop no row.                               *)
LEMMA Stays ==
  ASSUME SyInv, UNCHANGED <<can, commits, head, page>>,
         \A p \in Path : Listed(p) => Listed(p)'
  PROVE  /\ \A p \in Path : \A c : (Up(p, c) => Up(p, c)') /\ (Shown(p, c) => Shown(p, c)')
         /\ \A c : Tree(c)' = Tree(c)
         /\ \A a, t \in DOMAIN commits :
              Resumable(a, t) /\ ckpt'[a].paths \subseteq ckpt[a].paths => Resumable(a, t)'
<1>1. \A p \in Path : \A c : (Up(p, c) => Up(p, c)') /\ (Shown(p, c) => Shown(p, c)')
  BY Carried
<1>2. \A c, d : Renamed(c, d)' = Renamed(c, d) /\ Tree(c)' = Tree(c)
  BY StillFits
<1>3. Gone' = Gone
  BY DEF Gone, Sentinel
<1>4. \A c \in DOMAIN commits : ckpt[c].paths \subseteq Path
  BY SyncConstants DEF SyInv, SyGit, SyMarks, CkptType
<1>5. \A c, d \in DOMAIN commits : \A r \in Renamed(c, d) : r[1] \in Path /\ r[2] \in Path
  BY RenamedIs
<1>6. ASSUME NEW a \in DOMAIN commits, NEW t \in DOMAIN commits, Resumable(a, t),
             ckpt'[a].paths \subseteq ckpt[a].paths
      PROVE  Resumable(a, t)'
  BY <1>1, <1>2, <1>3, <1>4, <1>5, <1>6 DEF Resumable
<1> QED
  BY <1>1, <1>2, <1>6

(* The bookmark moves.                                                     *)
LEMMA KeptAdvance == ASSUME SyInv, Kept, Advance PROVE Kept'
<1>1. /\ UNCHANGED <<can, commits, head, page, ckpt, saved, ledger>>
      /\ run.pc = "advance" /\ run \in RunType /\ run.pin \in DOMAIN commits
      /\ anchor' = run.pin
      /\ run'.pc \in {"clear", "settle"} /\ (run.full => run'.pc = "settle")
      /\ run'.full = run.full /\ run'.pin = run.pin
  BY DEF Advance, git, SyInv, SyRun, RunType
<1>2. /\ DOMAIN commits \subseteq 1 .. MaxCommits /\ run.pin \in 1 .. MaxCommits
      /\ anchor \in Nat /\ run.pin \in Nat
      /\ \A c \in 1 .. MaxCommits : ckpt[c].target \in Nat
      /\ page \in [Path -> File]
  <2>1. DOMAIN commits \subseteq 1 .. MaxCommits
    BY SyncConstants DEF SyInv, SyGit, SyMarks
  <2>2. \A c \in 1 .. MaxCommits : ckpt[c].target \in Nat
    BY DEF SyInv, SyMarks, CkptType
  <2>3. anchor \in Nat /\ page \in [Path -> File]
    BY <2>1, SyncConstants DEF SyInv, SyMarks, Kept
  <2> QED
    BY <1>1, <2>1, <2>2, <2>3
<1>3. /\ \A p \in Path : Shown(p, run.pin) \/ (run.full /\ Tree(run.pin)[p] = Gone)
      /\ ~run.full => anchor < run.pin
      /\ run.full => /\ anchor <= run.pin /\ "full" \in can
                     /\ \A c \in 1 .. MaxCommits : c = anchor => ckpt[c].target <= run.pin
  BY <1>1 DEF Kept, Advancing, Walking, Books
<1>4. ckpt[run.pin].target = 0 /\ anchor <= run.pin
  BY <1>1, <1>2, <1>3 DEF Kept, Books
<1>5. Books'
  BY <1>1, <1>2, <1>4 DEF Kept, Books
<1>6. /\ \A p \in Path : \A c : Shown(p, c) => Shown(p, c)'
      /\ \A c : Tree(c)' = Tree(c)
  BY <1>1, Stays DEF Listed
<1>7. ~InDrain' /\ (run.full => Ending')
  BY <1>1 DEF InDrain, Ending
<1>8. Base'
  <2>1. \A a \in DOMAIN commits : a = run.pin =>
          \A p \in Path : Shown(p, a)' \/ (run.full /\ Tree(a)[p] = Gone)
    BY <1>3, <1>6
  <2>2. Gone' = Gone /\ \A t \in DOMAIN commits : t # 0
    BY <1>2 DEF Gone, Sentinel
  <2> QED
    BY <1>1, <1>4, <1>6, <1>7, <2>1, <2>2 DEF Base
<1>9. Walking' /\ Advancing'
  <2>1. Advancing'
    BY <1>1, <1>4 DEF Advancing
  <2>2. Walking'
    BY <1>1, <1>2, <1>4 DEF Walking
  <2> QED
    BY <2>1, <2>2
<1> QED
  BY <1>1, <1>2, <1>5, <1>7, <1>8, <1>9 DEF Kept

(* The checkpoint of the old bookmark goes.                                *)
LEMMA KeptClear == ASSUME SyInv, Kept, ClearCheckpoint PROVE Kept'
<1>1. /\ UNCHANGED <<can, commits, head, page, anchor, saved, ledger>>
      /\ run.pc = "clear" /\ run \in RunType /\ run.pin \in DOMAIN commits
      /\ ~run.full /\ run.from \in DOMAIN commits
      /\ ckpt' = [ckpt EXCEPT ![run.from] = NoCkpt]
      /\ run'.pc = "settle" /\ run'.full = run.full /\ run'.pin = run.pin
  BY DEF ClearCheckpoint, git, SyInv, SyRun, RunType
<1>2. DOMAIN commits \subseteq 1 .. MaxCommits
  BY SyncConstants DEF SyInv, SyGit, SyMarks
<1>3. /\ \A c \in 1 .. MaxCommits : ckpt'[c] \in {ckpt[c], NoCkpt}
      /\ NoCkpt.target = 0 /\ NoCkpt.paths = {}
  BY <1>1, <1>2 DEF SyInv, SyMarks, CkptType, NoCkpt
<1>4. Books'
  BY <1>1, <1>3 DEF Kept, Books
<1>5. /\ \A p \in Path : \A c : Shown(p, c) => Shown(p, c)'
      /\ \A c : Tree(c)' = Tree(c)
  BY <1>1, Stays DEF Listed
<1>6. ~InDrain /\ ~InDrain' /\ ~Ending /\ anchor = run.pin /\ ckpt[anchor].target = 0
  BY <1>1 DEF Kept, Advancing, InDrain, Ending
<1>7. ckpt'[anchor].target = 0 /\ \A t \in DOMAIN commits : t # 0
  BY <1>1, <1>2, <1>3, <1>6
<1>8. Base'
  BY <1>1, <1>5, <1>6, <1>7 DEF Kept, Base
<1>9. Advancing'
  BY <1>1, <1>6, <1>7 DEF Advancing
<1>10. Walking'
  BY <1>1 DEF Walking
<1> QED
  BY <1>1, <1>4, <1>6, <1>8, <1>9, <1>10 DEF Kept

(* The ledger is settled.                                                  *)
LEMMA AckedLists == ASSUME SyInv, NEW p \in Path PROVE (Acked(ledger)[p].state # "none") <=> Listed(p)
BY DEF Acked, Listed, SyInv, SyMarks, RowType

LEMMA KeptSettle == ASSUME SyInv, Kept, Settle PROVE Kept'
<1>1. /\ UNCHANGED <<can, commits, head, page, anchor, ckpt, saved>>
      /\ run.pc = "settle" /\ run \in RunType /\ run.pin \in DOMAIN commits
      /\ run' = IF run.full THEN [run EXCEPT !.pc = "reconcile"] ELSE Idle
  BY DEF Settle, git, SyInv, SyRun
<1>2. IF run.full THEN run'.pc = "reconcile" /\ run'.full /\ run'.pin = run.pin
                  ELSE run'.pc = "idle"
  BY <1>1 DEF RunType, Idle
<1>3. \A p \in Path : Listed(p) => Listed(p)'
  <2>1. \A p \in Path : p \in DOMAIN ledger /\ ledger[p] \in RowType
    BY DEF SyInv, SyMarks
  <2>2. CASE ledger' = ledger \/ ledger' = Acked(ledger)
    BY <2>2, AckedLists DEF Listed
  <2>3. CASE ledger' = [p \in DOMAIN ledger |->
                       IF p \in run.failed /\ ledger[p].state = "open"
                       THEN [ledger[p] EXCEPT !.state = "auto_skipped"] ELSE ledger[p]]
    BY <2>1, <2>3 DEF Listed, RowType
  <2> QED
    BY <2>2, <2>3 DEF Settle
<1>4. /\ \A p \in Path : \A c : Shown(p, c) => Shown(p, c)'
      /\ \A c : Tree(c)' = Tree(c)
  BY <1>1, <1>3, Stays
<1>5. Books'
  BY <1>1, <1>2 DEF Kept, Books
<1>6. /\ ~InDrain /\ ~InDrain' /\ anchor = run.pin /\ ckpt[anchor].target = 0
      /\ (Ending => Ending') /\ 0 \notin DOMAIN commits
  BY <1>1, <1>2 DEF Kept, Advancing, InDrain, Ending, SyInv, SyGit
<1>7. Base'
  <2>1. Gone' = Gone
    BY DEF Gone, Sentinel
  <2> QED
    BY <1>1, <1>4, <1>6, <2>1 DEF Kept, Base
<1>8. Advancing'
  BY <1>1, <1>2, <1>6 DEF Advancing
<1>9. Walking'
  BY <1>1, <1>2 DEF Kept, Walking
<1> QED
  BY <1>1, <1>5, <1>6, <1>7, <1>8, <1>9 DEF Kept

(* The pages of files that are gone go.                                    *)
LEMMA KeptReconcile == ASSUME SyInv, Kept, Benign(can), Reconcile PROVE Kept'
<1>1. /\ UNCHANGED <<can, commits, head, anchor, ckpt, saved, ledger>>
      /\ run.pc = "reconcile" /\ run.pin \in DOMAIN commits /\ run'.pc = "idle"
      /\ page' = [p \in Path |-> IF Live[p] = Gone THEN Gone ELSE page[p]]
      /\ page \in [Path -> File] /\ Gone \in File
  BY DEF Reconcile, git, SyInv, SyRun, Idle, Kept, Gone, File
<1>2. page' \in [Path -> File] /\ \A p \in Path : page'[p] = IF Live[p] = Gone THEN Gone ELSE page[p]
  BY <1>1
<1>3. Books'
  BY <1>1 DEF Kept, Books
<1>4. ~InDrain /\ ~InDrain' /\ anchor = run.pin /\ ckpt[anchor].target = 0 /\ 0 \notin DOMAIN commits
  BY <1>1 DEF Kept, Advancing, InDrain, SyInv, SyGit
<1>5. ASSUME NEW p \in Path, NEW c, Shown(p, c) \/ (Ending /\ Tree(c)[p] = Gone)
      PROVE  Shown(p, c)'
  <2>1. CASE Live[p] = Gone
    <3>1. Up(p, c)'
      BY <1>1, <1>2, <2>1, Removed
    <3> QED
      BY <3>1 DEF Up, Shown
  <2>2. CASE Live[p] # Gone /\ Shown(p, c)
    BY <1>1, <1>2, <2>2, Carried DEF Listed
  <2>3. CASE Live[p] # Gone /\ Ending /\ Tree(c)[p] = Gone
    <3>1. "rename" \notin can
      BY <1>1, <2>3 DEF Ending, Kept, Books, Benign
    <3>2. ~Fits(p, c)'
      BY <1>1, <2>3, StillFits DEF Fits
    <3> QED
      BY <1>1, <3>1, <3>2 DEF Shown, Erased
  <2> QED
    BY <1>5, <2>1, <2>2, <2>3
<1>6. Base'
  BY <1>1, <1>4, <1>5 DEF Kept, Base
<1> QED
  BY <1>1, <1>2, <1>3, <1>4, <1>6 DEF Kept, Walking, Advancing
-----------------------------------------------------------------------------
(* runSync's first words leave every row there.                            *)
LEMMA UpfrontLists ==
  ASSUME SyInv, NEW skip, Upfront(skip) PROVE \A p \in Path : Listed(p) => Listed(p)'
<1>1. ledger' \in {ledger, Acked(ledger)}
  BY DEF Upfront
<1> QED
  BY <1>1, AckedLists DEF Listed

(* A full sync begins: it will walk every file of the working tree.        *)
LEMMA KeptStartFull ==
  ASSUME SyInv, Straight, Kept, NEW skip \in BOOLEAN, StartFull(skip) PROVE Kept'
<1>1. /\ run.pc = "idle" /\ Upfront(skip)
      /\ anchor = 0 \/ "full" \in can \/ ~Reach(anchor, head)
      /\ UNCHANGED <<can, commits, head, page, anchor, ckpt, saved>>
      /\ page \in [Path -> File]
  BY DEF StartFull, git, Kept
<1>2. /\ DOMAIN commits = 1 .. Len(commits) /\ Len(commits) \in Nat /\ head = Len(commits)
      /\ head \in DOMAIN commits /\ anchor \in {0} \cup DOMAIN commits
      /\ \A c \in 1 .. MaxCommits : ckpt[c].target \in {0} \cup DOMAIN commits
      /\ commits[head].line = 1 .. head
  BY DEF SyInv, SyGit, SyMarks, Straight
<1>3. "full" \in can /\ saved = {}
  BY <1>1, <1>2 DEF Kept, Books, Reach
<1>4. /\ run'.pc = "drain" /\ run'.full /\ run'.pin = head /\ run'.failed = {}
      /\ run'.imp = {p \in Path : Live[p] # Gone}
  BY <1>3 DEF StartFull, Idle
<1>5. /\ \A p \in Path : \A c : (Up(p, c) => Up(p, c)') /\ (Shown(p, c) => Shown(p, c)')
      /\ \A c : Tree(c)' = Tree(c)
      /\ \A a, t \in DOMAIN commits : Resumable(a, t) => Resumable(a, t)'
  BY <1>1, UpfrontLists, Stays
<1>6. Books'
  BY <1>1, <1>3 DEF Kept, Books
<1>7. ~InDrain /\ ~InDrain' /\ ~Ending
  BY <1>1, <1>4 DEF InDrain, Ending
<1>8. Base'
  BY <1>1, <1>5, <1>7 DEF Kept, Base
<1>9. Walks(head)'
  <2>1. Gone' = Gone /\ Tree(head)' = Live
    BY <1>1, <1>5 DEF Gone, Sentinel, Live
  <2> QED
    BY <1>1, <1>4, <2>1 DEF Walks
<1>10. Walking'
  BY <1>1, <1>2, <1>4, <1>9 DEF Walking
<1>11. Advancing'
  BY <1>4 DEF Advancing
<1> QED
  BY <1>1, <1>6, <1>7, <1>8, <1>10, <1>11 DEF Kept

(* What a sync resumes, or starts afresh, is what the bookmark stands for. *)
LEMMA PinResumes ==
  ASSUME SyInv, Straight, Kept, Contents, Benign(can), run.pc = "idle",
         NEW a \in DOMAIN commits, a = anchor,
         NEW b, b = IF ckpt[a].target # 0 THEN ckpt[a].target ELSE head,
         a # head
  PROVE  b \in DOMAIN commits /\ a < b /\ Resumable(a, b)
<1>1. /\ DOMAIN commits = 1 .. Len(commits) /\ Len(commits) \in Nat /\ head = Len(commits)
      /\ head \in DOMAIN commits /\ a \in 1 .. MaxCommits
      /\ ckpt[a].target \in {0} \cup DOMAIN commits
  BY SyncConstants DEF SyInv, SyGit, SyMarks, Straight
<1>2. Base /\ ~Ending
  BY DEF Kept, InDrain, Ending
<1>3. CASE ckpt[a].target # 0
  BY <1>1, <1>2, <1>3 DEF Kept, Books, Base
<1>4. CASE ckpt[a].target = 0
  <2>1. b = head /\ a < b /\ ckpt[a].paths = {} /\ \A p \in Path : Shown(p, a)
    BY <1>1, <1>2, <1>4 DEF Kept, Books, Base
  <2>2. \A p \in Path : Tree(a)[p] = Tree(b)[p] => Shown(p, b)
    BY <2>1 DEF Shown, Fits, Erased
  <2>3. ASSUME NEW r \in Renamed(a, b) PROVE page[r[1]] = Gone \/ page[r[2]] = Gone
    <3>1. "rename" \in can
      BY <1>1, <2>1, RenamesMatch
    <3>2. r[2] \in Path /\ Tree(a)[r[2]] = Gone
      BY RenamedIs
    <3> QED
      BY <2>1, <3>1, <3>2 DEF Shown, Erased
  <2> QED
    BY <1>1, <2>1, <2>2, <2>3 DEF Resumable
<1> QED
  BY <1>3, <1>4

(* An incremental sync begins, or finds nothing to do.                     *)
LEMMA KeptStartSync ==
  ASSUME SyInv, Straight, Kept, Contents, Benign(can), NEW skip \in BOOLEAN, StartSync(skip)
  PROVE  Kept'
<1>1. /\ run.pc = "idle" /\ anchor # 0 /\ Upfront(skip)
      /\ UNCHANGED <<can, commits, head, page, saved>> /\ page \in [Path -> File]
  BY DEF StartSync, git, Kept
<1>2. /\ DOMAIN commits = 1 .. Len(commits) /\ Len(commits) \in Nat /\ head = Len(commits)
      /\ head \in DOMAIN commits /\ anchor \in DOMAIN commits
      /\ DOMAIN commits \subseteq 1 .. MaxCommits
      /\ \A c \in 1 .. MaxCommits : ckpt[c].target \in {0} \cup DOMAIN commits
      /\ \A c \in 1 .. MaxCommits : ckpt[c].target = 0 => ckpt[c].paths = {}
      /\ commits[head].line = 1 .. head
  <2>1. /\ DOMAIN commits = 1 .. Len(commits) /\ Len(commits) \in Nat /\ head = Len(commits)
        /\ head \in DOMAIN commits /\ commits[head].line = 1 .. head
    BY DEF SyInv, SyGit, Straight
  <2>2. anchor \in DOMAIN commits /\ DOMAIN commits \subseteq 1 .. MaxCommits
    BY <1>1, <2>1, SyncConstants DEF SyInv, SyMarks
  <2>3. /\ \A c \in 1 .. MaxCommits : ckpt[c].target \in {0} \cup DOMAIN commits
        /\ \A c \in 1 .. MaxCommits : ckpt[c].target = 0 => ckpt[c].paths = {}
    BY DEF SyInv, SyMarks, Kept, Books
  <2> QED
    BY <2>1, <2>2, <2>3
<1> DEFINE pin  == IF ckpt[anchor].target # 0 THEN ckpt[anchor].target ELSE head
           done == ckpt[anchor].paths
<1>3. /\ \/ /\ anchor = head
            /\ UNCHANGED <<ckpt, anchor, run>>
         \/ /\ anchor # head
            /\ Deleted(anchor, pin) \cup Renamed(anchor, pin) \cup Changed(anchor, pin) = {}
            /\ anchor' = pin
            /\ ckpt' = [ckpt EXCEPT ![anchor] = NoCkpt] \/ UNCHANGED ckpt
            /\ UNCHANGED run
         \/ /\ anchor # head
            /\ run' = [Idle EXCEPT !.pc = "drain", !.skip = skip, !.from = anchor,
                         !.pin = pin, !.done = done,
                         !.del = Deleted(anchor, pin) \ done,
                         !.ren = {r \in Renamed(anchor, pin) : r[2] \notin done},
                         !.imp = Changed(anchor, pin) \ done]
            /\ ckpt' = [ckpt EXCEPT ![anchor] = [target |-> pin, paths |-> done]]
            /\ UNCHANGED anchor
         \/ UNCHANGED <<ckpt, anchor, run>>
  <2>1. ckpt[anchor].target \in {0} \cup DOMAIN commits /\ ckpt \in CkptType
        /\ (ckpt[anchor].target = 0 => done = {})
    BY <1>2 DEF SyInv, SyMarks
  <2>2. ckpt[anchor].target # 0 => Reach(ckpt[anchor].target, head)
    BY <1>2, <2>1 DEF Reach
  <2>3. [ckpt EXCEPT ![anchor] = ckpt[anchor]] = ckpt
    BY <1>2, <2>1 DEF CkptType
  <2>4. "load" \notin can
    BY DEF Benign
  <2>5. KeptOn("ok") = ckpt[anchor] /\ PinOn("ok") = pin /\ DoneOn("ok") = done
    BY <2>1, <2>2 DEF KeptOn, Spoilt, PinOn, DoneOn, Resumes
  <2>6. StartedOn("ok", skip)
    BY <2>4, StartSyncReads DEF StartedOn
  <2> HIDE DEF pin
  <2>7. \/ /\ anchor = head
           /\ ckpt' = [ckpt EXCEPT ![anchor] = ckpt[anchor]]
           /\ UNCHANGED <<anchor, run>>
        \/ /\ anchor # head
           /\ Deleted(anchor, pin) \cup Renamed(anchor, pin) \cup Changed(anchor, pin) = {}
           /\ anchor' = pin
           /\ \/ ckpt' = [ckpt EXCEPT ![anchor] = NoCkpt]
              \/ ckpt' = [ckpt EXCEPT ![anchor] = ckpt[anchor]]
           /\ UNCHANGED run
        \/ /\ anchor # head
           /\ run' = DrainOn("ok", skip)
           /\ ckpt' = [ckpt EXCEPT ![anchor] = [target |-> pin, paths |-> done]]
           /\ UNCHANGED anchor
        \/ ckpt' = [ckpt EXCEPT ![anchor] = ckpt[anchor]] /\ UNCHANGED <<anchor, run>>
    BY <2>5, <2>6, Zenon DEF StartedOn, NothingOn
  <2>8. DrainOn("ok", skip)
          = [Idle EXCEPT !.pc = "drain", !.skip = skip, !.from = anchor,
                         !.pin = pin, !.done = done,
                         !.del = Deleted(anchor, pin) \ done,
                         !.ren = {r \in Renamed(anchor, pin) : r[2] \notin done},
                         !.imp = Changed(anchor, pin) \ done]
    BY <2>5, Zenon DEF DrainOn, DrainRun
  <2> HIDE DEF done
  <2> QED
    BY <2>3, <2>7, <2>8
<1>4. /\ pin \in DOMAIN commits \cup {0}
      /\ anchor # head => pin \in DOMAIN commits /\ anchor < pin /\ Resumable(anchor, pin)
  BY <1>1, <1>2, PinResumes
<1> HIDE DEF pin, done
<1>5. /\ \A p \in Path : \A c : (Up(p, c) => Up(p, c)') /\ (Shown(p, c) => Shown(p, c)')
      /\ \A c : Tree(c)' = Tree(c)
      /\ \A a, t \in DOMAIN commits :
           Resumable(a, t) /\ ckpt'[a].paths \subseteq ckpt[a].paths => Resumable(a, t)'
  BY <1>1, UpfrontLists, Stays
<1>6. ~InDrain /\ ~Ending /\ Base
  BY <1>1 DEF InDrain, Ending, Kept
<1>7. CASE UNCHANGED <<ckpt, anchor, run>>
  <2>1. Books'
    BY <1>1, <1>7 DEF Kept, Books
  <2>2. Base'
    BY <1>1, <1>5, <1>6, <1>7 DEF Base
  <2> QED
    BY <1>1, <1>7, <2>1, <2>2 DEF Kept, InDrain, Walking, Advancing
<1>8. CASE /\ anchor # head
           /\ Deleted(anchor, pin) \cup Renamed(anchor, pin) \cup Changed(anchor, pin) = {}
           /\ anchor' = pin
           /\ ckpt' = [ckpt EXCEPT ![anchor] = NoCkpt] \/ UNCHANGED ckpt
           /\ UNCHANGED run
  <2>1. /\ \A c \in 1 .. MaxCommits : ckpt'[c] = ckpt[c] \/ (c = anchor /\ ckpt'[c] = NoCkpt)
        /\ NoCkpt.target = 0 /\ NoCkpt.paths = {}
    BY <1>2, <1>8 DEF SyInv, SyMarks, CkptType, NoCkpt
  <2>2. pin \in DOMAIN commits /\ anchor < pin /\ pin \in 1 .. MaxCommits /\ anchor \in Nat
    BY <1>2, <1>4, <1>8
  <2>3. Books'
    BY <1>1, <1>8, <2>1, <2>2 DEF Kept, Books
  <2>4. ckpt'[pin].target = 0
    BY <1>2, <2>1, <2>2 DEF Kept, Books
  <2>5. ASSUME NEW b \in DOMAIN commits, b = pin, NEW p \in Path PROVE Shown(p, b)'
    <3>1. Tree(anchor)[p] = Tree(pin)[p]
      BY <1>8, DiffShows
    <3>2. Shown(p, b)
      BY <1>4, <1>8, <2>5, <3>1 DEF Resumable
    <3> QED
      BY <1>5, <3>2
  <2>6. Base'
    BY <1>1, <1>2, <1>8, <2>4, <2>5 DEF Base
  <2> QED
    BY <1>1, <1>8, <2>3, <2>6 DEF Kept, InDrain, Walking, Advancing
<1>9. CASE /\ anchor # head
           /\ run' = [Idle EXCEPT !.pc = "drain", !.skip = skip, !.from = anchor,
                        !.pin = pin, !.done = done,
                        !.del = Deleted(anchor, pin) \ done,
                        !.ren = {r \in Renamed(anchor, pin) : r[2] \notin done},
                        !.imp = Changed(anchor, pin) \ done]
           /\ ckpt' = [ckpt EXCEPT ![anchor] = [target |-> pin, paths |-> done]]
           /\ UNCHANGED anchor
  <2>1. /\ \A c \in 1 .. MaxCommits : c # anchor => ckpt'[c] = ckpt[c]
        /\ ckpt'[anchor].target = pin /\ ckpt'[anchor].paths = done
    BY <1>2, <1>9 DEF SyInv, SyMarks, CkptType
  <2>2. /\ run'.pc = "drain" /\ ~run'.full /\ run'.from = anchor /\ run'.pin = pin
        /\ run'.done = done /\ run'.failed = {} /\ run'.ok = {} /\ run'.pending = {}
        /\ run'.del = Deleted(anchor, pin) \ done /\ run'.imp = Changed(anchor, pin) \ done
        /\ run'.ren = {r \in Renamed(anchor, pin) : r[2] \notin done}
    BY <1>9 DEF Idle
  <2>3. pin \in DOMAIN commits /\ anchor < pin /\ Resumable(anchor, pin) /\ done \subseteq Path
    BY <1>2, <1>4, <1>9 DEF done, SyInv, SyMarks, CkptType
  <2>4. Books'
    BY <1>1, <1>2, <1>9, <2>1, <2>2, <2>3 DEF Kept, Books
  <2>5. ASSUME NEW a \in DOMAIN commits, NEW b \in DOMAIN commits, a = anchor, b = pin
        PROVE  Drains(a, b)'
    <3>1. /\ Deleted(a, b)' = Deleted(a, b) /\ Changed(a, b)' = Changed(a, b)
          /\ Renamed(a, b)' = Renamed(a, b) /\ Tree(a)' = Tree(a) /\ Tree(b)' = Tree(b)
          /\ Gone' = Gone
      BY <1>1, StillFits DEF Gone, Sentinel
    <3>2. /\ \A p \in Path : Tree(a)[p] = Tree(b)[p] => Shown(p, b)'
          /\ \A p \in done : Up(p, b)'
          /\ \A r \in Renamed(a, b) : /\ r[2] \in done => Up(r[1], b)'
                                      /\ page'[r[1]] = Gone \/ page'[r[2]] = Gone
      BY <1>1, <1>5, <2>3, <2>5, RenamedIs DEF Resumable, done
    <3>3. ASSUME NEW p \in Path, Tree(a)[p] # Tree(b)[p] PROVE Waiting(p)' \/ Up(p, b)'
      <4>1. CASE p \in Deleted(a, b) \cup Changed(a, b)
        BY <2>2, <2>5, <3>2, <4>1 DEF Waiting
      <4>2. CASE \E r \in Renamed(a, b) : p = r[1] \/ p = r[2]
        <5>1. PICK r \in Renamed(a, b) : p = r[1] \/ p = r[2]
          BY <4>2
        <5>2. CASE r[2] \in done
          BY <3>2, <5>1, <5>2
        <5>3. CASE r[2] \notin done
          <6>1. r \in run'.ren
            BY <2>2, <2>5, <5>3
          <6> QED
            BY <5>1, <6>1 DEF Waiting
        <5> QED
          BY <5>2, <5>3
      <4> QED
        BY <3>3, <4>1, <4>2, DiffShows
    <3>4. /\ a = anchor' /\ ckpt'[a].target = b /\ a < b
          /\ ckpt'[a].paths \cup run'.pending \subseteq run'.done
          /\ run'.del \subseteq Deleted(a, b) /\ run'.imp \subseteq Changed(a, b)
          /\ run'.ren \subseteq Renamed(a, b)
      BY <1>9, <2>1, <2>2, <2>3, <2>5
    <3> QED
      BY <2>2, <3>1, <3>2, <3>3, <3>4 DEF Drains
  <2>6. Draining' /\ InDrain'
    BY <1>1, <2>2, <2>5 DEF Draining, InDrain
  <2> QED
    BY <1>1, <2>2, <2>4, <2>6 DEF Kept, InDrain, Walking, Advancing
<1> QED
  BY <1>3, <1>7, <1>8, <1>9
-----------------------------------------------------------------------------
(* A history that was rewritten stays so.                                  *)
LEMMA RewrittenStays == ASSUME SyInv, History, World, Rewritten PROVE Rewritten'
<1>1. PICK c \in DOMAIN commits : c \notin commits[head].line
  BY DEF Rewritten, Reach
<1>2. CASE Reset
  <2>1. head' \in commits[head].line /\ UNCHANGED commits
    BY <1>2 DEF Reset
  <2>2. c \notin commits[head'].line
    BY <1>1, <2>1 DEF SyInv, SyGit, History, Lineage
  <2> QED
    BY <2>1, <2>2 DEF Rewritten, Reach
<1>3. CASE ~Reset
  <2>1. \E tree : Commit(tree)
    BY <1>3 DEF World, Edit, Delete, Revert, Rename
  <2>2. PICK tree : Commit(tree)
    BY <2>1
  <2>3. PICK new : /\ commits' = Append(commits, new) /\ head' = Len(commits) + 1
                   /\ new = [line |-> commits[head].line \cup {Len(commits) + 1}, tree |-> tree]
    BY <2>2 DEF Commit
  <2>4. new.line = commits[head].line \cup {Len(commits) + 1}
    BY <2>3
  <2>5. c \in 1 .. Len(commits) /\ Len(commits) \in Nat /\ commits \in Seq(CommitType)
    BY DEF SyInv, SyGit
  <2>6. c \in DOMAIN commits' /\ commits'[head'] = new
    BY <2>3, <2>5
  <2>7. c \in DOMAIN commits' /\ c \notin commits'[head'].line
    BY <1>1, <2>4, <2>5, <2>6
  <2> QED
    BY <2>7 DEF Rewritten, Reach
<1> QED
  BY <1>2, <1>3

(* Nothing happens.                                                        *)
LEMMA KeptStutter == ASSUME SyInv, Kept, UNCHANGED vars PROVE Kept'
<1>1. UNCHANGED <<can, commits, head, page, anchor, ckpt, saved, ledger, run>>
  BY DEF vars, git, sync
<1>2. /\ \A p \in Path : \A c : (Up(p, c) => Up(p, c)') /\ (Shown(p, c) => Shown(p, c)')
      /\ \A c, d : /\ Deleted(c, d)' = Deleted(c, d) /\ Changed(c, d)' = Changed(c, d)
                   /\ Renamed(c, d)' = Renamed(c, d) /\ Tree(c)' = Tree(c)
      /\ Gone' = Gone
  BY <1>1, StillFits, Stays DEF Listed, Gone, Sentinel
<1>3. /\ \A c, d \in DOMAIN commits : \A r \in Renamed(c, d) : r[1] \in Path /\ r[2] \in Path
      /\ run.done \cup run.ok \subseteq Path
  BY RenamedIs DEF SyInv, SyRun, RunType
<1>4. Books' /\ InDrain' = InDrain
  BY <1>1 DEF Kept, Books, InDrain
<1>5. ASSUME NEW a \in DOMAIN commits, NEW b \in DOMAIN commits, Drains(a, b) PROVE Drains(a, b)'
  <2>1. \A p : Waiting(p)' <=> Waiting(p)
    BY <1>1 DEF Waiting
  <2> QED
    BY <1>1, <1>2, <1>3, <1>5, <2>1 DEF Drains
<1>6. \A a, t \in DOMAIN commits : Resumable(a, t) => Resumable(a, t)'
  BY <1>1, Stays DEF Listed
<1>7. ASSUME NEW b \in DOMAIN commits, Walks(b) PROVE Walks(b)'
  BY <1>1, <1>2, <1>7 DEF Walks
<1>8. (Draining => Draining') /\ (Base => Base')
  BY <1>1, <1>2, <1>5, <1>6 DEF Draining, Base, Ending
<1>9. Walking' /\ Advancing'
  BY <1>1, <1>2, <1>7 DEF Kept, Walking, Advancing
<1> QED
  BY <1>1, <1>4, <1>8, <1>9 DEF Kept

(* Every step of a history that is not rewritten keeps it.                 *)
LEMMA PassedStep == Passed /\ [Next]_vars => Passed'
<1> SUFFICES ASSUME Passed, [Next]_vars PROVE Passed'
  OBVIOUS
<1>1. SyInv /\ History /\ Benign(can) /\ SyInv' /\ History'
  BY SyStep, HistoryStep DEF Passed
<1>2. can' = can
  BY StepsLeaveGit DEF Next, World, Reset, Edit, Delete, Revert, Rename, Commit, vars
<1>3. Benign(can)'
  BY <1>1, <1>2 DEF Benign
<1>4. CASE UNCHANGED vars
  <2>1. Rewritten => Rewritten'
    BY <1>4 DEF vars, git, Rewritten, Reach
  <2> QED
    BY <1>1, <1>3, <1>4, <2>1, KeptStutter DEF Passed
<1>5. CASE Rewritten /\ (SyncStep \/ Stop)
  BY <1>1, <1>3, <1>5, StepsLeaveGit DEF Passed, Rewritten, Reach
<1>6. CASE Rewritten /\ World
  BY <1>1, <1>3, <1>6, RewrittenStays DEF Passed
<1>7. CASE ~Rewritten /\ Next
  <2>1. Straight /\ Kept /\ Contents
    BY <1>1, <1>7 DEF Passed, History
  <2>2. ASSUME NEW skip \in BOOLEAN, StartFull(skip) \/ StartSync(skip) PROVE Kept'
    BY <1>1, <2>1, <2>2, KeptStartFull, KeptStartSync
  <2>3. ASSUME NEW p \in Path, DeleteOne(p) \/ ImportOne(p) \/ ImportWalked(p) PROVE Kept'
    BY <1>1, <2>1, <2>3, KeptDelete, KeptImport, KeptWalked
  <2>4. ASSUME NEW r \in Path \X Path, RenameOne(r) PROVE Kept'
    BY <1>1, <2>1, <2>4, KeptRename
  <2>5. Drained => Kept'
    BY <1>1, <2>1, KeptDrained
  <2>6. Gate => Kept'
    BY <1>1, <2>1, KeptGate
  <2>7. Advance \/ ClearCheckpoint \/ Settle => Kept'
    BY <1>1, <2>1, KeptAdvance, KeptClear, KeptSettle
  <2>8. Reconcile \/ Stop => Kept'
    BY <1>1, <2>1, KeptReconcile, KeptStop
  <2>9. World => Rewritten' \/ Kept'
    BY <1>1, <2>1, KeptWorld
  <2>10. Rewritten' \/ Kept'
    BY <1>7, <2>2, <2>3, <2>4, <2>5, <2>6, <2>7, <2>8, <2>9 DEF Next, SyncStep
  <2> QED
    BY <1>1, <1>3, <2>10 DEF Passed
<1> QED
  BY <1>4, <1>5, <1>6, <1>7 DEF Next

(* Between runs, when nothing is left to resume, a file that a later diff  *)
(* will not show is indexed or listed: however commits, kills, lost        *)
(* flushes and failures fell between the steps of the syncs before, in the *)
(* worlds in which performSync can keep that.                              *)
THEOREM NothingMissedHolds ==
  ASSUME \A w \in Worlds : Benign(w) PROVE ServicesSpec => []NothingMissed
<1>1. Init => Passed
  BY PassedInit
<1>2. Passed => NothingMissed
  <2> SUFFICES ASSUME Passed, NoneInFlight, ~Rewritten, NEW p \in Path,
                      Tree(anchor)[p] = Live[p], ~Restored(p), ~Listed(p)
               PROVE  page[p] = Live[p]
    BY DEF NothingMissed
  <2>1. /\ anchor \in DOMAIN commits /\ ckpt[anchor].target = 0 /\ run.pc = "idle" /\ Base
    BY DEF Passed, NoneInFlight, SyInv, SyMarks, Kept, InDrain
  <2>2. Shown(p, anchor)
    BY <2>1 DEF Base, Ending
  <2> QED
    BY <2>2 DEF Shown, Fits
<1> QED
  BY <1>1, <1>2, PassedStep, Projection, PTL DEF Spec
=============================================================================
