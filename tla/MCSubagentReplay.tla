------------------------- MODULE MCSubagentReplay --------------------------
(* Three tool uses, of an idempotent tool, of one that is not and of one   *)
(* that the registry does not have, two turns, three claims,               *)
(* two of them alive at once.                                              *)
EXTENDS SubagentReplay, TLC

CONSTANTS u1, u2, u3, c1, c2, c3

ClaimSymmetry == Permutations({c1, c2, c3})
=============================================================================
