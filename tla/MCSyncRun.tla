----------------------------- MODULE MCSyncRun -----------------------------
(* SyncRun on two files, in worlds small enough to explore each to the end.*)
EXTENDS SyncRun

(* Worlds in which the sync keeps what it promises.                        *)
SyncWorlds ==
  {{"edit", "break", "delete", "kill", "flush"},
   {"edit", "break", "skip", "kill"},
   {"edit", "delete", "rename", "kill"},
   {"edit", "break", "delete", "full"},
   {"edit", "rewrite", "kill", "erase"},
   {"edit", "delete", "revert", "erase"}}

(* A first sync that is killed while other processes commit.               *)
FullImportWorld == {{"edit", "full", "kill"}}
=============================================================================
