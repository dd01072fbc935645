----------------------------- MODULE MCServices -----------------------------
(* The sync in the worlds of MCSyncRun, on two files; a worker that crashes*)
(* twice; two sessions, and a queue that overflows.                        *)
EXTENDS Services, MCSyncRun, TLC

ASSUME AllBenign == \A w \in Worlds : Benign(w)
=============================================================================
