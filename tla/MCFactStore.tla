----------------------------- MODULE MCFactStore -----------------------------
(* Three messages about one slot: a sure value, a doubtful message that     *)
(* restates it, and one that contradicts it, within the margin or beyond.   *)
EXTENDS FactStore, TLC

CONSTANTS i1, i2, i3, a, b

MCClaimsOf ==
  (i1 :> {[value |-> a, conf |-> 9]}) @@
  (i2 :> {[value |-> a, conf |-> 7]}) @@
  (i3 :> {[value |-> b, conf |-> 8], [value |-> b, conf |-> 6]})

\* Runs are alike, and so are reviewers.
Alike == Permutations(Runs) \cup Permutations(Reviewers)
==============================================================================
