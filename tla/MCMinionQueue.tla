--------------------------- MODULE MCMinionQueue ---------------------------
(* MinionQueue and its properties on small instances; the constants are in *)
(* the .cfg files.                                                         *)
EXTENDS MinionQueueProps

NeverRemoved  == {{}}
SometimesGone == {{}, {"complete", "fail"}}
=============================================================================
