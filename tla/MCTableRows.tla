----------------------------- MODULE MCTableRows -----------------------------
(* One table of two entities, whose facts say the same at first, with two   *)
(* projections, two users and a sheet; what a user types is another label.  *)
EXTENDS TableRows, TLC
CONSTANTS e, f, x, y
MCTyped == {<<f, x>>}
MCSheets == {{<<e, y>>}}
MCInit == Init /\ shows = [z \in Entities |-> x]
MCSpec == MCInit /\ [][Next]_vars
Alike == {u @@ p : u \in Permutations(Users), p \in Permutations(Projectors)}
==============================================================================
