--------------------------- MODULE MCLockRenewal ---------------------------
(* LockRenewal with the default knobs, in units of 2.5 s; the constants    *)
(* are in the .cfg files.                                                  *)
EXTENDS LockRenewal

(* The behaviours in which every answer comes as soon as the database has  *)
(* executed the statement, so that the worker's clock is that of the lock. *)
PromptSpec == Init /\ [][Next /\ (mode = "claiming" \/ call # "sent" => ~Pass)]_vars
=============================================================================
