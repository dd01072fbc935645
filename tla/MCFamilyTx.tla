----------------------------- MODULE MCFamilyTx -----------------------------
(* FamilyTx for two active children and two that may be added.             *)
EXTENDS FamilyTx

CONSTANTS c1, c2, c3, c4

Call(op, job) == [op |-> op, job |-> job]

(* Completions and failures of siblings race with the cancel of a child,   *)
(* the cancel of the whole family or a timeout, and with submissions.      *)
Settlers ==
  LET siblings == {Call("complete", c1), Call("fail", c2)}
  IN {siblings \cup {Call("cancel", c1), Call("add", c3)},
      siblings \cup {Call("cancel", Parent), Call("add", c3)},
      siblings \cup {Call("timeout", Parent), Call("add", c3)},
      siblings \cup {Call("add", c3), Call("add", c4)},
      {Call("retry", c1), Call("complete", c2), Call("cancel", c2), Call("cancel", Parent)}}

(* A cancel of one child races with the timeout of the other.              *)
Killers == {{Call("cancel", c1), Call("timeout", Parent)}}
=============================================================================
