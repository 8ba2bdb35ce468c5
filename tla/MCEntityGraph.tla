---------------------------- MODULE MCEntityGraph ----------------------------
(* Two entities, an old stray that one table row shows, and one with a      *)
(* fact, a passage and a body; and a mention of the second's name or of a   *)
(* new one.                                                                 *)
EXTENDS EntityGraph

CONSTANTS k1, k2, k3

MCSeedKeys == <<k1, k2>>
MCSeedBody == {2}
MCClass == [f2 |-> "object", c2 |-> "chunk", r1 |-> "row", m1 |-> "subject"]
MCSeedAt == [f2 |-> 2, c2 |-> 2, r1 |-> 1, m1 |-> NoEntity]
MCKeysOf == [m1 |-> {k2, k3}]

\* Three namesakes with a fact each, and nobody but the pass.
MCNamesakes == <<k1, k2, k3>>
MCFactEach == [f1 |-> "subject", f2 |-> "subject", f3 |-> "subject"]
MCNoMentions == << >>
MCOneEach == [f1 |-> 1, f2 |-> 2, f3 |-> 3]
==============================================================================
