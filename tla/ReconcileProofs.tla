---------------------------- MODULE ReconcileProofs ----------------------------
(***************************************************************************)
(* What reconcileExtraction promises, for any entities, facts, registry    *)
(* and length of a message: its result is an extraction; a first pass      *)
(* returns what the passage promises, each fact once; a second pass        *)
(* changes nothing, not even the order.                                    *)
(*                                                                         *)
(* The code is six loops, each a sequence of rounds.  Of each loop: the    *)
(* rounds exist and stay typed; then, by induction on the rounds, what the *)
(* loop returns is listed by positions of what it was given (ListedBy,     *)
(* CollapsedAt), or is what it was given when there is nothing left to do. *)
(***************************************************************************)
EXTENDS ReconcileFacts, FiniteSetTheorems, WellFoundedInduction, TLAPS

-----------------------------------------------------------------------------
(* Loops.  What is proved of a loop is proved of its rounds, one after the *)
(* other: Induct is the induction, over a set of rounds.                   *)

LEMMA Induct ==
  ASSUME NEW N \in Nat, NEW S, 0 \in S, \A n \in 1..N : n - 1 \in S => n \in S
  PROVE  \A n \in 0..N : n \in S
<1> DEFINE T == {n \in Nat : n <= N /\ n \notin S}
<1>1. SUFFICES ASSUME T # {} PROVE FALSE
  OBVIOUS
<1>2. \E x \in T : \A y \in T : ~(<<y, x>> \in OpToRel(<, Nat))
  BY <1>1, WFMin, NatLessThanWellFounded
<1>3. PICK x \in T : \A y \in T : ~(y < x)
  BY <1>2 DEF OpToRel
<1>4. x \in 1..N /\ x - 1 \in Nat /\ x - 1 \notin T
  BY <1>3
<1>5. QED
  BY <1>3, <1>4

\* Rounds that stay in a set A exist: step is the loop's body, as a function.
LEMMA RoundsExist ==
  ASSUME NEW N \in Nat, NEW A, << >> \in A, NEW step \in [1..N -> [A -> A]]
  PROVE  \E g \in [0..N -> A] :
           g[0] = << >> /\ \A n \in 1..N : g[n] = step[n][g[n - 1]]
<1> DEFINE Upto(n, g) == g[0] = << >> /\ \A k \in 1..n : g[k] = step[k][g[k - 1]]
           S == {n \in 0..N : \E g \in [0..n -> A] : Upto(n, g)}
<1>1. 0 \in S
  <2> DEFINE g == [k \in 0..0 |-> << >>]
  <2>1. g \in [0..0 -> A] /\ Upto(0, g)
    OBVIOUS
  <2> HIDE DEF g
  <2>2. QED
    BY <2>1
<1>2. ASSUME NEW n \in 1..N, n - 1 \in S
      PROVE  n \in S
  <2>1. PICK g \in [0..(n - 1) -> A] : Upto(n - 1, g)
    BY <1>2
  <2> DEFINE last == step[n][g[n - 1]]
             h == [k \in 0..n |-> IF k = n THEN last ELSE g[k]]
  <2>2. n - 1 \in 0..(n - 1) /\ n \in Nat /\ 0..n = (0..(n - 1)) \cup {n}
        /\ 1..n = (1..(n - 1)) \cup {n}
    OBVIOUS
  <2>3. g[n - 1] \in A
    BY <2>1, <2>2
  <2>5. last \in A
    BY <2>3
  <2> HIDE DEF last
  <2>6. h \in [0..n -> A]
    BY <2>1, <2>2, <2>5
  <2>7. \A k \in 0..(n - 1) : h[k] = g[k]
    OBVIOUS
  <2>8. h[n] = step[n][h[n - 1]]
    BY <2>2, <2>7 DEF last
  <2>9. h[0] = << >>
    BY <2>1, <2>2, <2>7
  <2>10. ASSUME NEW k \in 1..(n - 1)
         PROVE  h[k] = step[k][h[k - 1]]
    <3>1. k \in 0..(n - 1) /\ k - 1 \in 0..(n - 1)
      OBVIOUS
    <3>2. QED
      BY <2>1, <2>7, <3>1
  <2> HIDE DEF h
  <2>11. Upto(n, h)
    BY <2>2, <2>8, <2>9, <2>10
  <2>12. QED
    BY <2>6, <2>11
<1>3. N \in S
  <2> HIDE DEF S
  <2>1. \A n \in 0..N : n \in S
    BY <1>1, <1>2, Induct
  <2>2. QED
    BY <2>1
<1>4. QED
  BY <1>3

\* A function that is defined as rounds are, in a set that the body stays in,
\* is the rounds, and stays there.
LEMMA RoundsStay ==
  ASSUME NEW N \in Nat, NEW A, << >> \in A, NEW b, b[0] = << >>,
         \A n \in 1..N : b[n - 1] \in A => b[n] \in A
  PROVE  \A n \in 0..N : b[n] \in A
<1> DEFINE S == {n \in 0..N : b[n] \in A}
<1>1. 0 \in S
  OBVIOUS
<1>2. \A n \in 1..N : n - 1 \in S => n \in S
  OBVIOUS
<1> HIDE DEF S
<1>3. \A n \in 0..N : n \in S
  BY <1>1, <1>2, Induct
<1>4. QED
  BY <1>3 DEF S

-----------------------------------------------------------------------------
(* The six loops of reconcileExtraction.                                   *)

Slot == LocalIds \X Predicates

KeptAfter(list) == Rounds(KeepEntity, list)
ReferencedAfter(es, fs) == Rounds(LAMBDA referenced, f : KeepFact(es, referenced, f), fs)
SlotsAfter(fs) == Rounds(AddSlot, fs)
GroupAfter(slot, fs) == Rounds(LAMBDA group, f : AddToGroup(slot, group, f), fs)
DistinctAfter(group) == Rounds(AddValue, group)
DoneAfter(es, fs, slots) == Rounds(LAMBDA done, slot : done \o Settled(es, fs, slot), slots)

LEMMA SeqAppend ==
  ASSUME NEW T, NEW s \in Seq(T), NEW x \in T
  PROVE  /\ Append(s, x) \in Seq(T) /\ Len(Append(s, x)) = Len(s) + 1
         /\ DOMAIN Append(s, x) = 1..(Len(s) + 1) /\ Len(s) \in Nat
         /\ \A n \in 1..Len(s) : Append(s, x)[n] = s[n]
         /\ Append(s, x)[Len(s) + 1] = x
  OBVIOUS

LEMMA SeqIs ==
  ASSUME NEW T, NEW s \in Seq(T)
  PROVE  /\ Len(s) \in Nat /\ DOMAIN s = 1..Len(s)
         /\ \A n \in 1..Len(s) : s[n] \in T
  OBVIOUS

LEMMA EmptySeq ==
  ASSUME NEW T
  PROVE  << >> \in Seq(T) /\ Len(<< >>) = 0 /\ DOMAIN << >> = {}
  OBVIOUS

LEMMA KeptRounds ==
  ASSUME NEW list \in Seq(Entity)
  PROVE  LET b == KeptAfter(list) IN
         /\ b[0] = << >>
         /\ \A n \in 1..Len(list) : b[n] = KeepEntity(b[n - 1], list[n])
         /\ \A n \in 0..Len(list) : b[n] \in Seq(Entity)
         /\ Entities(list) = b[Len(list)]
<1> DEFINE b == KeptAfter(list)
           A == Seq(Entity)
           N == Len(list)
           step == [n \in 1..N |-> [k \in A |-> KeepEntity(k, list[n])]]
<1>1. N \in Nat /\ << >> \in A /\ \A n \in 1..N : list[n] \in Entity
  BY SeqIs, EmptySeq
<1>2. \A n \in 1..N, k \in A : KeepEntity(k, list[n]) \in A
  BY <1>1, SeqAppend DEF KeepEntity
<1> HIDE DEF A
<1>3. step \in [1..N -> [A -> A]]
  BY <1>2
<1>4. \A n \in 1..N, k \in A : step[n][k] = KeepEntity(k, list[n])
  OBVIOUS
<1> HIDE DEF step
<1>5. PICK g \in [0..N -> A] :
        g[0] = << >> /\ \A n \in 1..N : g[n] = step[n][g[n - 1]]
  <2> HIDE DEF N, b
  <2>1. N \in Nat /\ << >> \in A /\ step \in [1..N -> [A -> A]]
    BY <1>1, <1>3
  <2>2. QED
    BY <2>1, RoundsExist
<1>6. ASSUME NEW n \in 1..N
      PROVE  g[n] = KeepEntity(g[n - 1], list[n])
  <2>1. n - 1 \in 0..N
    BY <1>1
  <2>2. QED
    BY <1>4, <1>5, <2>1
<1>7. g = [n \in 0..N |-> IF n = 0 THEN << >> ELSE KeepEntity(g[n - 1], list[n])]
  <2> HIDE DEF N
  <2>1. \A n \in 0..N : n = 0 \/ n \in 1..N
    BY <1>1
  <2>2. QED
    BY <1>5, <1>6, <2>1
<1>8. b = [n \in 0..N |-> IF n = 0 THEN << >> ELSE KeepEntity(b[n - 1], list[n])]
  BY <1>7 DEF KeptAfter, Rounds
<1>9. Entities(list) = b[N]
  BY DEF Entities, Loop, KeptAfter
<1> HIDE DEF b, N
<1>10. b[0] = << >> /\ \A n \in 1..N : b[n] = KeepEntity(b[n - 1], list[n])
  BY <1>1, <1>8
<1>11. \A n \in 0..N : b[n] \in A
  <2>1. \A n \in 1..N : b[n - 1] \in A => b[n] \in A
    BY <1>2, <1>10
  <2>2. QED
    BY <1>1, <1>10, <2>1, RoundsStay
<1>12. QED
  BY <1>9, <1>10, <1>11 DEF b, N, A

LEMMA NormalizedFact ==
  ASSUME NEW f \in Fact
  PROVE  /\ Normalized(f) \in Fact
         /\ SlotOf(Normalized(f)) = SlotOf(f) /\ SlotOf(f) \in Slot
  BY DEF Normalized, Fact, Value, SlotOf, Slot

LEMMA ReferencedRounds ==
  ASSUME NEW es, NEW fs \in Seq(Fact)
  PROVE  LET b == ReferencedAfter(es, fs) IN
         /\ b[0] = << >>
         /\ \A n \in 1..Len(fs) : b[n] = KeepFact(es, b[n - 1], fs[n])
         /\ \A n \in 0..Len(fs) : b[n] \in Seq(Fact)
         /\ Referenced(es, fs) = b[Len(fs)]
<1> DEFINE b == ReferencedAfter(es, fs)
           A == Seq(Fact)
           N == Len(fs)
           step == [n \in 1..N |-> [k \in A |-> KeepFact(es, k, fs[n])]]
<1>1. N \in Nat /\ << >> \in A /\ \A n \in 1..N : fs[n] \in Fact
  BY SeqIs, EmptySeq
<1>2. \A n \in 1..N, k \in A : KeepFact(es, k, fs[n]) \in A
  BY <1>1, SeqAppend, NormalizedFact DEF KeepFact
<1> HIDE DEF A
<1>3. step \in [1..N -> [A -> A]]
  BY <1>2
<1>4. \A n \in 1..N, k \in A : step[n][k] = KeepFact(es, k, fs[n])
  OBVIOUS
<1> HIDE DEF step
<1>5. PICK g \in [0..N -> A] :
        g[0] = << >> /\ \A n \in 1..N : g[n] = step[n][g[n - 1]]
  <2> HIDE DEF N, b
  <2>1. N \in Nat /\ << >> \in A /\ step \in [1..N -> [A -> A]]
    BY <1>1, <1>3
  <2>2. QED
    BY <2>1, RoundsExist
<1>6. ASSUME NEW n \in 1..N
      PROVE  g[n] = KeepFact(es, g[n - 1], fs[n])
  <2>1. n - 1 \in 0..N
    BY <1>1
  <2>2. QED
    BY <1>4, <1>5, <2>1
<1>7. g = [n \in 0..N |-> IF n = 0 THEN << >> ELSE KeepFact(es, g[n - 1], fs[n])]
  <2> HIDE DEF N
  <2>1. \A n \in 0..N : n = 0 \/ n \in 1..N
    BY <1>1
  <2>2. QED
    BY <1>5, <1>6, <2>1
<1>8. b = [n \in 0..N |-> IF n = 0 THEN << >> ELSE KeepFact(es, b[n - 1], fs[n])]
  BY <1>7 DEF ReferencedAfter, Rounds
<1>9. Referenced(es, fs) = b[N]
  BY DEF Referenced, Loop, ReferencedAfter
<1> HIDE DEF b, N
<1>10. b[0] = << >> /\ \A n \in 1..N : b[n] = KeepFact(es, b[n - 1], fs[n])
  BY <1>1, <1>8
<1>11. \A n \in 0..N : b[n] \in A
  <2>1. \A n \in 1..N : b[n - 1] \in A => b[n] \in A
    BY <1>2, <1>10
  <2>2. QED
    BY <1>1, <1>10, <2>1, RoundsStay
<1>12. QED
  BY <1>9, <1>10, <1>11 DEF b, N, A

LEMMA SlotRounds ==
  ASSUME NEW fs \in Seq(Fact)
  PROVE  LET b == SlotsAfter(fs) IN
         /\ b[0] = << >>
         /\ \A n \in 1..Len(fs) : b[n] = AddSlot(b[n - 1], fs[n])
         /\ \A n \in 0..Len(fs) : b[n] \in Seq(Slot)
         /\ SlotOrder(fs) = b[Len(fs)]
<1> DEFINE b == SlotsAfter(fs)
           A == Seq(Slot)
           N == Len(fs)
           step == [n \in 1..N |-> [k \in A |-> AddSlot(k, fs[n])]]
<1>1. N \in Nat /\ << >> \in A /\ \A n \in 1..N : fs[n] \in Fact
  BY SeqIs, EmptySeq
<1>2. \A n \in 1..N, k \in A : AddSlot(k, fs[n]) \in A
  BY <1>1, SeqAppend, NormalizedFact DEF AddSlot
<1> HIDE DEF A
<1>3. step \in [1..N -> [A -> A]]
  BY <1>2
<1>4. \A n \in 1..N, k \in A : step[n][k] = AddSlot(k, fs[n])
  OBVIOUS
<1> HIDE DEF step
<1>5. PICK g \in [0..N -> A] :
        g[0] = << >> /\ \A n \in 1..N : g[n] = step[n][g[n - 1]]
  <2> HIDE DEF N, b
  <2>1. N \in Nat /\ << >> \in A /\ step \in [1..N -> [A -> A]]
    BY <1>1, <1>3
  <2>2. QED
    BY <2>1, RoundsExist
<1>6. ASSUME NEW n \in 1..N
      PROVE  g[n] = AddSlot(g[n - 1], fs[n])
  <2>1. n - 1 \in 0..N
    BY <1>1
  <2>2. QED
    BY <1>4, <1>5, <2>1
<1>7. g = [n \in 0..N |-> IF n = 0 THEN << >> ELSE AddSlot(g[n - 1], fs[n])]
  <2> HIDE DEF N
  <2>1. \A n \in 0..N : n = 0 \/ n \in 1..N
    BY <1>1
  <2>2. QED
    BY <1>5, <1>6, <2>1
<1>8. b = [n \in 0..N |-> IF n = 0 THEN << >> ELSE AddSlot(b[n - 1], fs[n])]
  BY <1>7 DEF SlotsAfter, Rounds
<1>9. SlotOrder(fs) = b[N]
  BY DEF SlotOrder, Loop, SlotsAfter
<1> HIDE DEF b, N
<1>10. b[0] = << >> /\ \A n \in 1..N : b[n] = AddSlot(b[n - 1], fs[n])
  BY <1>1, <1>8
<1>11. \A n \in 0..N : b[n] \in A
  <2>1. \A n \in 1..N : b[n - 1] \in A => b[n] \in A
    BY <1>2, <1>10
  <2>2. QED
    BY <1>1, <1>10, <2>1, RoundsStay
<1>12. QED
  BY <1>9, <1>10, <1>11 DEF b, N, A

LEMMA GroupRounds ==
  ASSUME NEW slot, NEW fs \in Seq(Fact)
  PROVE  LET b == GroupAfter(slot, fs) IN
         /\ b[0] = << >>
         /\ \A n \in 1..Len(fs) : b[n] = AddToGroup(slot, b[n - 1], fs[n])
         /\ \A n \in 0..Len(fs) : b[n] \in Seq(Fact)
         /\ Group(slot, fs) = b[Len(fs)]
<1> DEFINE b == GroupAfter(slot, fs)
           A == Seq(Fact)
           N == Len(fs)
           step == [n \in 1..N |-> [k \in A |-> AddToGroup(slot, k, fs[n])]]
<1>1. N \in Nat /\ << >> \in A /\ \A n \in 1..N : fs[n] \in Fact
  BY SeqIs, EmptySeq
<1>2. \A n \in 1..N, k \in A : AddToGroup(slot, k, fs[n]) \in A
  BY <1>1, SeqAppend DEF AddToGroup
<1> HIDE DEF A
<1>3. step \in [1..N -> [A -> A]]
  BY <1>2
<1>4. \A n \in 1..N, k \in A : step[n][k] = AddToGroup(slot, k, fs[n])
  OBVIOUS
<1> HIDE DEF step
<1>5. PICK g \in [0..N -> A] :
        g[0] = << >> /\ \A n \in 1..N : g[n] = step[n][g[n - 1]]
  <2> HIDE DEF N, b
  <2>1. N \in Nat /\ << >> \in A /\ step \in [1..N -> [A -> A]]
    BY <1>1, <1>3
  <2>2. QED
    BY <2>1, RoundsExist
<1>6. ASSUME NEW n \in 1..N
      PROVE  g[n] = AddToGroup(slot, g[n - 1], fs[n])
  <2>1. n - 1 \in 0..N
    BY <1>1
  <2>2. QED
    BY <1>4, <1>5, <2>1
<1>7. g = [n \in 0..N |-> IF n = 0 THEN << >> ELSE AddToGroup(slot, g[n - 1], fs[n])]
  <2> HIDE DEF N
  <2>1. \A n \in 0..N : n = 0 \/ n \in 1..N
    BY <1>1
  <2>2. QED
    BY <1>5, <1>6, <2>1
<1>8. b = [n \in 0..N |-> IF n = 0 THEN << >> ELSE AddToGroup(slot, b[n - 1], fs[n])]
  BY <1>7 DEF GroupAfter, Rounds
<1>9. Group(slot, fs) = b[N]
  BY DEF Group, Loop, GroupAfter
<1> HIDE DEF b, N
<1>10. b[0] = << >> /\ \A n \in 1..N : b[n] = AddToGroup(slot, b[n - 1], fs[n])
  BY <1>1, <1>8
<1>11. \A n \in 0..N : b[n] \in A
  <2>1. \A n \in 1..N : b[n - 1] \in A => b[n] \in A
    BY <1>2, <1>10
  <2>2. QED
    BY <1>1, <1>10, <2>1, RoundsStay
<1>12. QED
  BY <1>9, <1>10, <1>11 DEF b, N, A

LEMMA MergedFact ==
  ASSUME NEW p \in Fact, NEW f \in Fact
  PROVE  /\ MergeInto(p, f) \in Fact
         /\ MergeInto(p, f).subject = p.subject
         /\ MergeInto(p, f).predicate = p.predicate
         /\ MergeInto(p, f).value = p.value
         /\ MergeInto(p, f).conf = Larger(p.conf, f.conf)
  BY DEF MergeInto, Fact, Larger

LEMMA AddedValue ==
  ASSUME NEW d \in Seq(Fact), NEW f \in Fact
  PROVE  /\ AddValue(d, f) \in Seq(Fact)
         /\ Len(AddValue(d, f)) >= Len(d) /\ Len(AddValue(d, f)) >= 1
<1> DEFINE same == {n \in DOMAIN d : ValueSlot(d[n].value) = ValueSlot(f.value)}
<1>1. CASE same = {}
  <2>1. AddValue(d, f) = Append(d, f)
    BY <1>1 DEF AddValue
  <2>2. QED
    BY <2>1, SeqAppend
<1>2. CASE same # {}
  <2> DEFINE c == CHOOSE n \in same : TRUE
             e == [d EXCEPT ![c] = MergeInto(@, f)]
  <2>1. c \in same
    BY <1>2
  <2>2. AddValue(d, f) = e
    BY <1>2 DEF AddValue
  <2> HIDE DEF c
  <2>3. c \in 1..Len(d) /\ Len(d) \in Nat
    BY <2>1, SeqIs
  <2>4. MergeInto(d[c], f) \in Fact
    BY <2>3, MergedFact, SeqIs
  <2>5. e \in Seq(Fact) /\ Len(e) = Len(d)
    BY <2>3, <2>4
  <2>6. QED
    BY <2>2, <2>3, <2>5
<1>3. QED
  BY <1>1, <1>2

LEMMA DistinctRounds ==
  ASSUME NEW group \in Seq(Fact)
  PROVE  LET b == DistinctAfter(group) IN
         /\ b[0] = << >>
         /\ \A n \in 1..Len(group) : b[n] = AddValue(b[n - 1], group[n])
         /\ \A n \in 0..Len(group) : b[n] \in Seq(Fact)
         /\ Collapse(group) = b[Len(group)]
<1> DEFINE b == DistinctAfter(group)
           A == Seq(Fact)
           N == Len(group)
           step == [n \in 1..N |-> [k \in A |-> AddValue(k, group[n])]]
<1>1. N \in Nat /\ << >> \in A /\ \A n \in 1..N : group[n] \in Fact
  BY SeqIs, EmptySeq
<1>2. \A n \in 1..N, k \in A : AddValue(k, group[n]) \in A
  BY <1>1, AddedValue
<1> HIDE DEF A
<1>3. step \in [1..N -> [A -> A]]
  BY <1>2
<1>4. \A n \in 1..N, k \in A : step[n][k] = AddValue(k, group[n])
  OBVIOUS
<1> HIDE DEF step
<1>5. PICK g \in [0..N -> A] :
        g[0] = << >> /\ \A n \in 1..N : g[n] = step[n][g[n - 1]]
  <2> HIDE DEF N, b
  <2>1. N \in Nat /\ << >> \in A /\ step \in [1..N -> [A -> A]]
    BY <1>1, <1>3
  <2>2. QED
    BY <2>1, RoundsExist
<1>6. ASSUME NEW n \in 1..N
      PROVE  g[n] = AddValue(g[n - 1], group[n])
  <2>1. n - 1 \in 0..N
    BY <1>1
  <2>2. QED
    BY <1>4, <1>5, <2>1
<1>7. g = [n \in 0..N |-> IF n = 0 THEN << >> ELSE AddValue(g[n - 1], group[n])]
  <2> HIDE DEF N
  <2>1. \A n \in 0..N : n = 0 \/ n \in 1..N
    BY <1>1
  <2>2. QED
    BY <1>5, <1>6, <2>1
<1>8. b = [n \in 0..N |-> IF n = 0 THEN << >> ELSE AddValue(b[n - 1], group[n])]
  BY <1>7 DEF DistinctAfter, Rounds
<1>9. Collapse(group) = b[N]
  BY DEF Collapse, Loop, DistinctAfter
<1> HIDE DEF b, N
<1>10. b[0] = << >> /\ \A n \in 1..N : b[n] = AddValue(b[n - 1], group[n])
  BY <1>1, <1>8
<1>11. \A n \in 0..N : b[n] \in A
  <2>1. \A n \in 1..N : b[n - 1] \in A => b[n] \in A
    BY <1>2, <1>10
  <2>2. QED
    BY <1>1, <1>10, <2>1, RoundsStay
<1>12. QED
  BY <1>9, <1>10, <1>11 DEF b, N, A

LEMMA DoneRounds ==
  ASSUME NEW es, NEW fs, NEW slots \in Seq(Slot),
         \A n \in 1..Len(slots) : Settled(es, fs, slots[n]) \in Seq(Fact)
  PROVE  LET b == DoneAfter(es, fs, slots) IN
         /\ b[0] = << >>
         /\ \A n \in 1..Len(slots) : b[n] = b[n - 1] \o Settled(es, fs, slots[n])
         /\ \A n \in 0..Len(slots) : b[n] \in Seq(Fact)
<1> DEFINE b == DoneAfter(es, fs, slots)
           A == Seq(Fact)
           N == Len(slots)
           step == [n \in 1..N |-> [k \in A |-> k \o Settled(es, fs, slots[n])]]
<1>1. N \in Nat /\ << >> \in A /\ \A n \in 1..N : slots[n] \in Slot
  BY SeqIs, EmptySeq
<1>2. \A n \in 1..N, k \in A : k \o Settled(es, fs, slots[n]) \in A
  OBVIOUS
<1> HIDE DEF A
<1>3. step \in [1..N -> [A -> A]]
  BY <1>2
<1>4. \A n \in 1..N, k \in A : step[n][k] = k \o Settled(es, fs, slots[n])
  OBVIOUS
<1> HIDE DEF step
<1>5. PICK g \in [0..N -> A] :
        g[0] = << >> /\ \A n \in 1..N : g[n] = step[n][g[n - 1]]
  <2> HIDE DEF N, b
  <2>1. N \in Nat /\ << >> \in A /\ step \in [1..N -> [A -> A]]
    BY <1>1, <1>3
  <2>2. QED
    BY <2>1, RoundsExist
<1>6. ASSUME NEW n \in 1..N
      PROVE  g[n] = g[n - 1] \o Settled(es, fs, slots[n])
  <2>1. n - 1 \in 0..N
    BY <1>1
  <2>2. QED
    BY <1>4, <1>5, <2>1
<1>7. g = [n \in 0..N |-> IF n = 0 THEN << >> ELSE g[n - 1] \o Settled(es, fs, slots[n])]
  <2> HIDE DEF N
  <2>1. \A n \in 0..N : n = 0 \/ n \in 1..N
    BY <1>1
  <2>2. QED
    BY <1>5, <1>6, <2>1
<1>8. b = [n \in 0..N |-> IF n = 0 THEN << >> ELSE b[n - 1] \o Settled(es, fs, slots[n])]
  BY <1>7 DEF DoneAfter, Rounds
<1> HIDE DEF b, N
<1> DEFINE body(n) == b[n - 1] \o Settled(es, fs, slots[n])
<1>10. b[0] = << >> /\ \A n \in 1..N : b[n] = body(n)
  <2> HIDE DEF body
  <2>1. b = [n \in 0..N |-> IF n = 0 THEN << >> ELSE body(n)]
    BY <1>8 DEF body
  <2>2. QED
    BY <1>1, <2>1
<1>11. \A n \in 0..N : b[n] \in A
  <2>1. \A n \in 1..N : b[n - 1] \in A => b[n] \in A
    BY <1>2, <1>10
  <2>2. QED
    BY <1>1, <1>10, <2>1, RoundsStay
<1>12. QED
  BY <1>10, <1>11 DEF b, N, A

-----------------------------------------------------------------------------
(* What the loops that select and order return: the slots, once each, and  *)
(* lists of positions.                                                     *)

\* The slots of the order are those of the facts, once each.
SlotsListed(slots, fs, n) ==
  /\ \A m \in 1..n : \E p \in 1..Len(slots) : slots[p] = SlotOf(fs[m])
  /\ \A p \in 1..Len(slots) : \E m \in 1..n : slots[p] = SlotOf(fs[m])
  /\ \A p, r \in 1..Len(slots) : slots[p] = slots[r] => p = r

LEMMA SlotOrderLists ==
  ASSUME NEW fs \in Seq(Fact)
  PROVE  SlotOrder(fs) \in Seq(Slot) /\ SlotsListed(SlotOrder(fs), fs, Len(fs))
<1> DEFINE b == SlotsAfter(fs)
           N == Len(fs)
           S == {n \in 0..N : SlotsListed(b[n], fs, n)}
<1>1. /\ b[0] = << >> /\ \A n \in 1..N : b[n] = AddSlot(b[n - 1], fs[n])
      /\ \A n \in 0..N : b[n] \in Seq(Slot)
      /\ SlotOrder(fs) = b[N]
  BY SlotRounds
<1>2. N \in Nat /\ \A n \in 1..N : fs[n] \in Fact
  BY SeqIs
<1> HIDE DEF b, N
<1>3. 0 \in S
  BY <1>1, <1>2 DEF SlotsListed
<1>4. ASSUME NEW n \in 1..N, n - 1 \in S
      PROVE  n \in S
  <2> DEFINE s == b[n - 1]
             x == SlotOf(fs[n])
             r == b[n]
  <2>1. n - 1 \in 0..N /\ n \in 0..N /\ 1..n = (1..(n - 1)) \cup {n}
    BY <1>2
  <2>2. s \in Seq(Slot) /\ SlotsListed(s, fs, n - 1) /\ x \in Slot /\ r = AddSlot(s, fs[n])
    BY <1>1, <1>2, <1>4, <2>1, NormalizedFact
  <2>3. Len(s) \in Nat /\ DOMAIN s = 1..Len(s)
    BY <2>2, SeqIs
  <2>4. CASE \E p \in DOMAIN s : s[p] = x
    <3>1. r = s
      BY <2>2, <2>4 DEF AddSlot
    <3> HIDE DEF s, r
    <3>2. SlotsListed(r, fs, n)
      BY <2>1, <2>2, <2>3, <2>4, <3>1 DEF SlotsListed
    <3>3. QED
      BY <2>1, <3>2 DEF r
  <2>5. CASE ~\E p \in DOMAIN s : s[p] = x
    <3>1. r = Append(s, x)
      BY <2>2, <2>5 DEF AddSlot
    <3> HIDE DEF s, r, x
    <3>2. /\ Len(r) = Len(s) + 1 /\ r[Len(s) + 1] = x
          /\ \A p \in 1..Len(s) : r[p] = s[p]
      BY <2>2, <3>1, SeqAppend
    <3> DEFINE K == Len(s)
    <3>3. 1..Len(r) = (1..K) \cup {K + 1} /\ K + 1 \in 1..Len(r)
      BY <2>3, <3>2
    <3> HIDE DEF K
    <3>4. \A m \in 1..n : \E p \in 1..Len(r) : r[p] = SlotOf(fs[m])
      <4>1. ASSUME NEW m \in 1..(n - 1) PROVE \E p \in 1..Len(r) : r[p] = SlotOf(fs[m])
        <5>1. PICK p \in 1..K : s[p] = SlotOf(fs[m])
          BY <2>2 DEF SlotsListed, K
        <5>2. QED
          BY <3>2, <3>3, <5>1 DEF K
      <4>2. r[K + 1] = SlotOf(fs[n])
        BY <3>2 DEF K, x
      <4>3. QED
        BY <2>1, <3>3, <4>1, <4>2
    <3>5. \A p \in 1..Len(r) : \E m \in 1..n : r[p] = SlotOf(fs[m])
      <4>1. ASSUME NEW p \in 1..K PROVE \E m \in 1..n : r[p] = SlotOf(fs[m])
        <5>1. PICK m \in 1..(n - 1) : s[p] = SlotOf(fs[m])
          BY <2>2 DEF SlotsListed, K
        <5>2. QED
          BY <2>1, <3>2, <5>1 DEF K
      <4>2. r[K + 1] = SlotOf(fs[n]) /\ n \in 1..n
        BY <2>1, <3>2 DEF K, x
      <4>3. QED
        BY <3>3, <4>1, <4>2
    <3>6. \A p, q \in 1..Len(r) : r[p] = r[q] => p = q
      <4>1. \A p \in 1..K : r[p] = s[p] /\ s[p] # x
        BY <2>3, <2>5, <3>2 DEF K
      <4>2. \A p, q \in 1..K : s[p] = s[q] => p = q
        BY <2>2 DEF SlotsListed, K
      <4>3. r[K + 1] = x
        BY <3>2 DEF K
      <4>4. QED
        BY <3>3, <4>1, <4>2, <4>3
    <3>7. SlotsListed(r, fs, n)
      BY <3>4, <3>5, <3>6 DEF SlotsListed
    <3>8. QED
      BY <2>1, <3>7 DEF r
  <2>6. QED
    BY <2>4, <2>5
<1> HIDE DEF S
<1>5. \A n \in 0..N : n \in S
  BY <1>2, <1>3, <1>4, Induct
<1>6. QED
  BY <1>1, <1>2, <1>5 DEF S, N

\* s lists the members of a set of positions of src, in their order: at[p] is
\* where the p-th comes from.
ListsAt(s, at, src, members) ==
  /\ at \in [1..Len(s) -> members]
  /\ \A p, r \in 1..Len(s) : p < r => at[p] < at[r]
  /\ \A m \in members : \E p \in 1..Len(s) : at[p] = m
  /\ \A p \in 1..Len(s) : s[p] = src[at[p]]

ListedBy(s, src, members) == \E at : ListsAt(s, at, src, members)

\* One round: the next position is taken, or it is not a member.
LEMMA ListsMore ==
  ASSUME NEW T, NEW s \in Seq(T), NEW x \in T, NEW src, NEW n \in Nat, n >= 1,
         NEW members, members \subseteq 1..(n - 1), ListedBy(s, src, members), src[n] = x
  PROVE  ListedBy(Append(s, x), src, members \cup {n})
<1> DEFINE r == Append(s, x)
           K == Len(s)
           M == members \cup {n}
<1>1. /\ K \in Nat /\ Len(r) = K + 1 /\ r[K + 1] = x
      /\ \A p \in 1..K : r[p] = s[p]
  BY SeqAppend
<1>2. PICK at : ListsAt(s, at, src, members)
  BY DEF ListedBy
<1> DEFINE to == [p \in 1..(K + 1) |-> IF p = K + 1 THEN n ELSE at[p]]
<1>3. 1..(K + 1) = (1..K) \cup {K + 1} /\ K + 1 \notin 1..K
  BY <1>1
<1>4. /\ to[K + 1] = n /\ \A p \in 1..K : to[p] = at[p]
      /\ DOMAIN to = 1..(K + 1)
  BY <1>3
<1>5. \A p \in 1..K : at[p] \in members /\ at[p] < n
  <2>1. \A p \in 1..K : at[p] \in members
    BY <1>2 DEF ListsAt
  <2>2. \A m \in members : m < n
    OBVIOUS
  <2>3. QED
    BY <2>1, <2>2
<1>6. to \in [1..(K + 1) -> M]
  BY <1>3, <1>5
<1> HIDE DEF to, r, M
<1>7. \A p, q \in 1..(K + 1) : p < q => to[p] < to[q]
  <2> TAKE p, q \in 1..(K + 1)
  <2> HAVE p < q
  <2>1. p \in 1..K /\ (q \in 1..K \/ q = K + 1)
    BY <1>1
  <2>2. CASE q \in 1..K
    BY <1>2, <1>4, <2>1, <2>2 DEF ListsAt
  <2>3. CASE q = K + 1
    BY <1>4, <1>5, <2>1, <2>3
  <2>4. QED
    BY <2>1, <2>2, <2>3
<1>8. \A m \in M : \E p \in 1..(K + 1) : to[p] = m
  BY <1>2, <1>3, <1>4 DEF ListsAt, M
<1>9. \A p \in 1..(K + 1) : r[p] = src[to[p]]
  BY <1>1, <1>2, <1>3, <1>4 DEF ListsAt
<1> HIDE DEF K
<1>10. ListsAt(r, to, src, M)
  BY <1>1, <1>6, <1>7, <1>8, <1>9 DEF ListsAt
<1>11. QED
  BY <1>10 DEF ListedBy, r, M

LEMMA ListsNone ==
  ASSUME NEW src
  PROVE  ListedBy(<< >>, src, {})
<1> DEFINE at == [p \in {} |-> 0]
           z == << >>
<1>1. 1..Len(z) = {}
  OBVIOUS
<1>2. at \in [{} -> {}]
  OBVIOUS
<1> HIDE DEF z, at
<1>3. ListsAt(z, at, src, {})
  BY <1>1, <1>2 DEF ListsAt
<1>4. QED
  BY <1>3 DEF ListedBy, z

\* The usable facts, normalized, in the order they were said.
UsableAt(es, fs, n) == {m \in 1..n : Usable(es, fs[m])}
NormalizedAt(fs) == [m \in 1..Len(fs) |-> Normalized(fs[m])]

LEMMA ReferencedLists ==
  ASSUME NEW es, NEW fs \in Seq(Fact)
  PROVE  /\ Referenced(es, fs) \in Seq(Fact)
         /\ ListedBy(Referenced(es, fs), NormalizedAt(fs), UsableAt(es, fs, Len(fs)))
<1> DEFINE b == ReferencedAfter(es, fs)
           N == Len(fs)
           src == NormalizedAt(fs)
           S == {n \in 0..N : ListedBy(b[n], src, UsableAt(es, fs, n))}
<1>1. /\ b[0] = << >> /\ \A n \in 1..N : b[n] = KeepFact(es, b[n - 1], fs[n])
      /\ \A n \in 0..N : b[n] \in Seq(Fact)
      /\ Referenced(es, fs) = b[N]
  BY ReferencedRounds
<1>2. N \in Nat /\ \A n \in 1..N : fs[n] \in Fact
  BY SeqIs
<1>3. \A n \in 1..N : src[n] = Normalized(fs[n])
  BY DEF NormalizedAt
<1> HIDE DEF b, N, src
<1>4. 0 \in S
  <2>1. UsableAt(es, fs, 0) = {}
    BY DEF UsableAt
  <2>2. ListedBy(<< >>, src, {})
    BY ListsNone
  <2>3. b[0] = << >>
    BY <1>1
  <2>4. ListedBy(b[0], src, UsableAt(es, fs, 0))
    BY <2>1, <2>2, <2>3
  <2>5. 0 \in 0..N
    BY <1>2
  <2>6. QED
    BY <2>4, <2>5
<1>5. ASSUME NEW n \in 1..N, n - 1 \in S
      PROVE  n \in S
  <2> DEFINE s == b[n - 1]
             x == Normalized(fs[n])
             M == UsableAt(es, fs, n - 1)
  <2>1. n - 1 \in 0..N /\ n \in 0..N /\ 1..n = (1..(n - 1)) \cup {n} /\ n \in Nat /\ n >= 1
    BY <1>2
  <2>2. s \in Seq(Fact) /\ ListedBy(s, src, M) /\ x \in Fact /\ src[n] = x
        /\ b[n] = KeepFact(es, s, fs[n])
    BY <1>1, <1>2, <1>3, <1>5, <2>1, NormalizedFact
  <2>3. M \subseteq 1..(n - 1)
    BY DEF UsableAt
  <2>4. CASE Usable(es, fs[n])
    <3>1. b[n] = Append(s, x)
      BY <2>2, <2>4 DEF KeepFact
    <3>2. UsableAt(es, fs, n) = M \cup {n}
      BY <2>1, <2>4 DEF UsableAt
    <3> HIDE DEF s, x, M
    <3>3. ListedBy(Append(s, x), src, M \cup {n})
      BY <2>1, <2>2, <2>3, ListsMore
    <3>4. QED
      BY <2>1, <3>1, <3>2, <3>3
  <2>5. CASE ~Usable(es, fs[n])
    <3>1. b[n] = s
      BY <2>2, <2>5 DEF KeepFact
    <3>2. UsableAt(es, fs, n) = M
      BY <2>1, <2>5 DEF UsableAt
    <3>3. QED
      BY <2>1, <2>2, <3>1, <3>2
  <2>6. QED
    BY <2>4, <2>5
<1> HIDE DEF S
<1>6. \A n \in 0..N : n \in S
  BY <1>2, <1>4, <1>5, Induct
<1>7. QED
  BY <1>1, <1>2, <1>6 DEF S, N, src

\* The facts of a slot, in their order.
OfSlot(slot, fs, n) == {m \in 1..n : SlotOf(fs[m]) = slot}

LEMMA GroupLists ==
  ASSUME NEW slot, NEW fs \in Seq(Fact)
  PROVE  /\ Group(slot, fs) \in Seq(Fact)
         /\ ListedBy(Group(slot, fs), fs, OfSlot(slot, fs, Len(fs)))
<1> DEFINE b == GroupAfter(slot, fs)
           N == Len(fs)
           S == {n \in 0..N : ListedBy(b[n], fs, OfSlot(slot, fs, n))}
<1>1. /\ b[0] = << >> /\ \A n \in 1..N : b[n] = AddToGroup(slot, b[n - 1], fs[n])
      /\ \A n \in 0..N : b[n] \in Seq(Fact)
      /\ Group(slot, fs) = b[N]
  BY GroupRounds
<1>2. N \in Nat /\ \A n \in 1..N : fs[n] \in Fact
  BY SeqIs
<1> HIDE DEF b, N
<1>4. 0 \in S
  <2>1. OfSlot(slot, fs, 0) = {}
    BY DEF OfSlot
  <2>2. ListedBy(<< >>, fs, {})
    BY ListsNone
  <2>3. b[0] = << >>
    BY <1>1
  <2>4. ListedBy(b[0], fs, OfSlot(slot, fs, 0))
    BY <2>1, <2>2, <2>3
  <2>5. 0 \in 0..N
    BY <1>2
  <2>6. QED
    BY <2>4, <2>5
<1>5. ASSUME NEW n \in 1..N, n - 1 \in S
      PROVE  n \in S
  <2> DEFINE s == b[n - 1]
             x == fs[n]
             M == OfSlot(slot, fs, n - 1)
  <2>1. n - 1 \in 0..N /\ n \in 0..N /\ 1..n = (1..(n - 1)) \cup {n} /\ n \in Nat /\ n >= 1
    BY <1>2
  <2>2. s \in Seq(Fact) /\ ListedBy(s, fs, M) /\ x \in Fact
        /\ b[n] = AddToGroup(slot, s, fs[n])
    BY <1>1, <1>2, <1>5, <2>1
  <2>3. M \subseteq 1..(n - 1)
    BY DEF OfSlot
  <2>4. CASE SlotOf(fs[n]) = slot
    <3>1. b[n] = Append(s, x)
      BY <2>2, <2>4 DEF AddToGroup
    <3>2. OfSlot(slot, fs, n) = M \cup {n}
      BY <2>1, <2>4 DEF OfSlot
    <3>0. fs[n] = x
      OBVIOUS
    <3> HIDE DEF s, x, M
    <3>3. ListedBy(Append(s, x), fs, M \cup {n})
      BY <3>0, <2>1, <2>2, <2>3, ListsMore
    <3>4. QED
      BY <2>1, <3>1, <3>2, <3>3
  <2>5. CASE SlotOf(fs[n]) # slot
    <3>1. b[n] = s
      BY <2>2, <2>5 DEF AddToGroup
    <3>2. OfSlot(slot, fs, n) = M
      BY <2>1, <2>5 DEF OfSlot
    <3>3. QED
      BY <2>1, <2>2, <3>1, <3>2
  <2>6. QED
    BY <2>4, <2>5
<1> HIDE DEF S
<1>6. \A n \in 0..N : n \in S
  BY <1>2, <1>4, <1>5, Induct
<1>7. QED
  BY <1>1, <1>2, <1>6 DEF S, N

-----------------------------------------------------------------------------
(* What the loop over the values of a slot returns.                        *)

SameValue(f, k) == ValueSlot(f.value) = ValueSlot(k.value)

\* The distinct values of the first n facts of a group: first[p] is where the
\* p-th value was first said; its confidence is the highest it got.
CollapsedAt(d, first, g, n) ==
  /\ first \in [1..Len(d) -> 1..n]
  /\ \A p, r \in 1..Len(d) : p < r => first[p] < first[r]
  /\ \A m \in 1..n : \E p \in 1..Len(d) : SameValue(g[m], g[first[p]])
  /\ \A p \in 1..Len(d), k \in 1..n : SameValue(g[k], g[first[p]]) =>
       first[p] <= k /\ g[k].conf <= d[p].conf
  /\ \A p \in 1..Len(d) :
       /\ SlotOf(d[p]) = SlotOf(g[first[p]]) /\ d[p].value = g[first[p]].value
       /\ \E k \in 1..n : SameValue(g[k], g[first[p]]) /\ g[k].conf = d[p].conf

\* The values of a collapsed group are distinct.
LEMMA CollapsedDistinct ==
  ASSUME NEW d \in Seq(Fact), NEW first, NEW g, NEW n \in Nat, CollapsedAt(d, first, g, n)
  PROVE  \A p, r \in 1..Len(d) : SameValue(d[p], d[r]) => p = r
<1> TAKE p, r \in 1..Len(d)
<1> HAVE SameValue(d[p], d[r])
<1>1. first[p] \in 1..n /\ first[r] \in 1..n
  BY DEF CollapsedAt
<1>2. SameValue(g[first[p]], g[first[r]]) /\ SameValue(g[first[r]], g[first[p]])
  BY DEF CollapsedAt, SameValue
<1>3. \A q \in 1..Len(d), k \in 1..n : SameValue(g[k], g[first[q]]) => first[q] <= k
  BY DEF CollapsedAt
<1>4. first[p] = first[r]
  BY <1>1, <1>2, <1>3
<1>5. Len(d) \in Nat
  BY SeqIs
<1>6. ~(first[p] < first[r]) /\ ~(first[r] < first[p])
  BY <1>1, <1>4
<1>7. ~(p < r) /\ ~(r < p)
  BY <1>6 DEF CollapsedAt
<1>8. QED
  BY <1>5, <1>7

\* A fact of a new value.
LEMMA CollapseNew ==
  ASSUME NEW g \in Seq(Fact), NEW n \in 1..Len(g), NEW d \in Seq(Fact), NEW first,
         CollapsedAt(d, first, g, n - 1),
         \A p \in 1..Len(d) : ~SameValue(d[p], g[n])
  PROVE  \E to : CollapsedAt(Append(d, g[n]), to, g, n)
<1> DEFINE r == Append(d, g[n])
           K == Len(d)
           to == [p \in 1..(K + 1) |-> IF p = K + 1 THEN n ELSE first[p]]
<1>1. g[n] \in Fact /\ n \in Nat /\ 1..n = (1..(n - 1)) \cup {n} /\ n \notin 1..(n - 1)
  BY SeqIs
<1>2. /\ K \in Nat /\ Len(r) = K + 1 /\ r[K + 1] = g[n]
      /\ \A p \in 1..K : r[p] = d[p]
  BY <1>1, SeqAppend
<1>3. 1..(K + 1) = (1..K) \cup {K + 1} /\ K + 1 \notin 1..K
  BY <1>2
<1>4. /\ to[K + 1] = n /\ \A p \in 1..K : to[p] = first[p]
      /\ DOMAIN to = 1..(K + 1)
  BY <1>3
<1>5. \A p \in 1..K : first[p] \in 1..(n - 1)
  BY DEF CollapsedAt
<1>6. to \in [1..(K + 1) -> 1..n]
  BY <1>1, <1>3, <1>5
<1> HIDE DEF to, r
<1>7. ASSUME NEW p \in 1..(K + 1), NEW q \in 1..(K + 1), p < q
      PROVE  to[p] < to[q]
  <2>1. p \in 1..K /\ (q \in 1..K \/ q = K + 1)
    BY <1>2, <1>7
  <2>2. CASE q \in 1..K
    BY <1>4, <1>7, <2>1, <2>2 DEF CollapsedAt
  <2>3. CASE q = K + 1
    BY <1>1, <1>4, <1>5, <2>1, <2>3
  <2>4. QED
    BY <2>1, <2>2, <2>3
\* No earlier fact has the new value.
<1>8. \A m \in 1..(n - 1) : ~SameValue(g[m], g[n])
  <2> TAKE m \in 1..(n - 1)
  <2>1. PICK p \in 1..K : SameValue(g[m], g[first[p]])
    BY DEF CollapsedAt
  <2>2. d[p].value = g[first[p]].value
    BY DEF CollapsedAt
  <2>3. QED
    BY <2>1, <2>2 DEF SameValue
<1>9. \A m \in 1..n : \E p \in 1..(K + 1) : SameValue(g[m], g[to[p]])
  <2>1. ASSUME NEW m \in 1..(n - 1) PROVE \E p \in 1..(K + 1) : SameValue(g[m], g[to[p]])
    <3>1. PICK p \in 1..K : SameValue(g[m], g[first[p]])
      BY DEF CollapsedAt
    <3>2. QED
      BY <1>3, <1>4, <3>1
  <2>2. SameValue(g[n], g[to[K + 1]])
    BY <1>4 DEF SameValue
  <2>3. QED
    BY <1>1, <1>3, <2>1, <2>2
<1>10. ASSUME NEW p \in 1..(K + 1), NEW k \in 1..n, SameValue(g[k], g[to[p]])
       PROVE  to[p] <= k /\ g[k].conf <= r[p].conf
  <2>1. CASE p = K + 1
    <3>1. k = n
      BY <1>1, <1>4, <1>8, <1>10, <2>1
    <3>2. g[n].conf \in Nat
      BY <1>1 DEF Fact
    <3>3. QED
      BY <1>1, <1>2, <1>4, <2>1, <3>1, <3>2
  <2>2. CASE p \in 1..K
    <3>1. SameValue(g[k], g[first[p]])
      BY <1>4, <1>10, <2>2
    <3>2. k # n
      <4>1. d[p].value = g[first[p]].value
        BY <2>2 DEF CollapsedAt
      <4>2. QED
        BY <2>2, <3>1, <4>1 DEF SameValue
    <3>3. k \in 1..(n - 1)
      BY <1>1, <3>2
    <3>4. QED
      BY <1>2, <1>4, <2>2, <3>1, <3>3 DEF CollapsedAt
  <2>3. QED
    BY <1>3, <2>1, <2>2
<1>11. ASSUME NEW p \in 1..(K + 1)
       PROVE  /\ SlotOf(r[p]) = SlotOf(g[to[p]]) /\ r[p].value = g[to[p]].value
              /\ \E k \in 1..n : SameValue(g[k], g[to[p]]) /\ g[k].conf = r[p].conf
  <2>1. CASE p = K + 1
    BY <1>1, <1>2, <1>4, <2>1 DEF SameValue
  <2>2. CASE p \in 1..K
    <3>1. r[p] = d[p] /\ to[p] = first[p]
      BY <1>2, <1>4, <2>2
    <3>2. /\ SlotOf(d[p]) = SlotOf(g[first[p]]) /\ d[p].value = g[first[p]].value
          /\ \E k \in 1..(n - 1) : SameValue(g[k], g[first[p]]) /\ g[k].conf = d[p].conf
      BY <2>2 DEF CollapsedAt
    <3>3. QED
      BY <1>1, <3>1, <3>2
  <2>3. QED
    BY <1>3, <2>1, <2>2
<1>12. CollapsedAt(r, to, g, n)
  <2> HIDE DEF K
  <2>1. QED
    BY <1>2, <1>6, <1>7, <1>9, <1>10, <1>11 DEF CollapsedAt
<1>13. QED
  BY <1>12 DEF r

\* A repeat of a value.
LEMMA CollapseRepeat ==
  ASSUME NEW g \in Seq(Fact), NEW n \in 1..Len(g), NEW d \in Seq(Fact), NEW first,
         CollapsedAt(d, first, g, n - 1),
         NEW c \in 1..Len(d), SameValue(d[c], g[n])
  PROVE  CollapsedAt([d EXCEPT ![c] = MergeInto(@, g[n])], first, g, n)
<1> DEFINE r == [d EXCEPT ![c] = MergeInto(@, g[n])]
           K == Len(d)
           m2 == MergeInto(d[c], g[n])
<1>1. g[n] \in Fact /\ n \in Nat /\ 1..n = (1..(n - 1)) \cup {n} /\ n \notin 1..(n - 1)
  BY SeqIs
<1>2. K \in Nat /\ DOMAIN d = 1..K /\ \A p \in 1..K : d[p] \in Fact
  BY SeqIs
<1>3. /\ m2 \in Fact /\ SlotOf(m2) = SlotOf(d[c]) /\ m2.value = d[c].value
      /\ m2.conf = Larger(d[c].conf, g[n].conf)
  BY <1>1, <1>2, MergedFact DEF SlotOf
<1> HIDE DEF m2
<1>4. /\ r[c] = m2 /\ \A p \in 1..K : p # c => r[p] = d[p]
      /\ Len(r) = K
  BY <1>2, <1>3 DEF m2
<1> HIDE DEF r
<1>5. g[n].conf \in Nat /\ d[c].conf \in Nat
  BY <1>1, <1>2 DEF Fact
<1>6. m2.conf \in Nat /\ m2.conf >= g[n].conf /\ m2.conf >= d[c].conf
      /\ m2.conf \in {g[n].conf, d[c].conf}
  BY <1>3, <1>5 DEF Larger
<1>7. \A p \in 1..K : /\ SlotOf(r[p]) = SlotOf(d[p]) /\ r[p].value = d[p].value
  BY <1>3, <1>4
<1>8. \A p \in 1..K : first[p] \in 1..(n - 1)
  BY DEF CollapsedAt
<1>9. first \in [1..Len(r) -> 1..n]
  BY <1>1, <1>4 DEF CollapsedAt
\* The new fact has the value of the c-th only.
<1>10. \A p \in 1..K : SameValue(g[n], g[first[p]]) => p = c
  <2> TAKE p \in 1..K
  <2> HAVE SameValue(g[n], g[first[p]])
  <2>1. d[p].value = g[first[p]].value
    BY DEF CollapsedAt
  <2>2. SameValue(d[p], d[c])
    BY <2>1 DEF SameValue
  <2>3. n - 1 \in Nat
    BY <1>1
  <2>4. QED
    BY <2>2, <2>3, CollapsedDistinct
<1>11. SameValue(g[n], g[first[c]])
  <2>1. d[c].value = g[first[c]].value
    BY DEF CollapsedAt
  <2>2. QED
    BY <2>1 DEF SameValue
<1>12. \A m \in 1..n : \E p \in 1..K : SameValue(g[m], g[first[p]])
  <2>1. \A m \in 1..(n - 1) : \E p \in 1..K : SameValue(g[m], g[first[p]])
    BY DEF CollapsedAt
  <2>2. QED
    BY <1>1, <1>11, <2>1
<1>13. ASSUME NEW p \in 1..K, NEW k \in 1..n, SameValue(g[k], g[first[p]])
       PROVE  first[p] <= k /\ g[k].conf <= r[p].conf
  <2>1. CASE k = n
    <3>1. p = c
      BY <1>10, <1>13, <2>1
    <3>2. first[p] <= n
      BY <1>1, <1>8
    <3>3. g[n].conf <= m2.conf
      BY <1>5, <1>6
    <3>4. QED
      BY <1>4, <2>1, <3>1, <3>2, <3>3
  <2>2. CASE k \in 1..(n - 1)
    <3>1. first[p] <= k /\ g[k].conf <= d[p].conf
      BY <1>13, <2>2 DEF CollapsedAt
    <3>2. CASE p # c
      BY <1>4, <3>1, <3>2
    <3>3. CASE p = c
      <4>1. g[k] \in Fact
        BY <1>1, SeqIs
      <4>2. g[k].conf \in Nat
        BY <4>1 DEF Fact
      <4>3. g[k].conf <= d[c].conf /\ r[p] = m2
        BY <1>4, <3>1, <3>3
      <4>4. g[k].conf <= m2.conf
        BY <1>5, <1>6, <4>2, <4>3
      <4>5. QED
        BY <3>1, <4>3, <4>4
    <3>4. QED
      BY <3>2, <3>3
  <2>3. QED
    BY <1>1, <2>1, <2>2
<1>14. ASSUME NEW p \in 1..K
       PROVE  /\ SlotOf(r[p]) = SlotOf(g[first[p]]) /\ r[p].value = g[first[p]].value
              /\ \E k \in 1..n : SameValue(g[k], g[first[p]]) /\ g[k].conf = r[p].conf
  <2>1. /\ SlotOf(d[p]) = SlotOf(g[first[p]]) /\ d[p].value = g[first[p]].value
        /\ \E k \in 1..(n - 1) : SameValue(g[k], g[first[p]]) /\ g[k].conf = d[p].conf
    BY DEF CollapsedAt
  <2>2. SlotOf(r[p]) = SlotOf(g[first[p]]) /\ r[p].value = g[first[p]].value
    BY <1>7, <2>1
  <2>3. CASE r[p].conf = d[p].conf
    BY <1>1, <2>1, <2>2, <2>3
  <2>4. CASE r[p].conf # d[p].conf
    <3>1. p = c /\ r[p] = m2
      BY <1>4, <2>4
    <3>2. r[p].conf = g[n].conf
      BY <1>6, <2>4, <3>1
    <3>3. QED
      BY <1>1, <1>11, <2>2, <3>1, <3>2
  <2>5. QED
    BY <2>3, <2>4
<1>15. CollapsedAt(r, first, g, n)
  <2>1. \A p, q \in 1..Len(r) : p < q => first[p] < first[q]
    BY <1>4 DEF CollapsedAt
  <2> HIDE DEF K
  <2>2. QED
    BY <1>4, <1>9, <1>12, <1>13, <1>14, <2>1 DEF CollapsedAt
<1>16. QED
  BY <1>15 DEF r

LEMMA CollapseIs ==
  ASSUME NEW g \in Seq(Fact)
  PROVE  /\ Collapse(g) \in Seq(Fact)
         /\ \E first : CollapsedAt(Collapse(g), first, g, Len(g))
<1> DEFINE b == DistinctAfter(g)
           N == Len(g)
           S == {n \in 0..N : \E first : CollapsedAt(b[n], first, g, n)}
<1>1. /\ b[0] = << >> /\ \A n \in 1..N : b[n] = AddValue(b[n - 1], g[n])
      /\ \A n \in 0..N : b[n] \in Seq(Fact)
      /\ Collapse(g) = b[N]
  BY DistinctRounds
<1>2. N \in Nat /\ \A n \in 1..N : g[n] \in Fact
  BY SeqIs
<1> HIDE DEF b
<1>3. 0 \in S
  <2> DEFINE z == b[0]
             at == [p \in {} |-> 0]
  <2>1. Len(z) = 0
    BY <1>1, EmptySeq
  <2>2. 1..Len(z) = {} /\ 1..0 = {}
    BY <2>1
  <2>3. at \in [{} -> {}]
    OBVIOUS
  <2> HIDE DEF z, at
  <2>4. CollapsedAt(z, at, g, 0)
    BY <2>2, <2>3 DEF CollapsedAt
  <2>5. QED
    BY <1>2, <2>4 DEF z
<1>4. ASSUME NEW n \in 1..N, n - 1 \in S
      PROVE  n \in S
  <2> DEFINE d == b[n - 1]
             same == {p \in DOMAIN d : ValueSlot(d[p].value) = ValueSlot(g[n].value)}
             c == CHOOSE p \in same : TRUE
  <2>1. n - 1 \in 0..N /\ n \in 0..N
    BY <1>2
  <2>2. d \in Seq(Fact) /\ b[n] = AddValue(d, g[n])
    BY <1>1, <2>1
  <2>3. PICK first : CollapsedAt(d, first, g, n - 1)
    BY <1>4
  <2>4. DOMAIN d = 1..Len(d)
    BY <2>2, SeqIs
  <2>5. CASE same = {}
    <3>1. b[n] = Append(d, g[n])
      BY <2>2, <2>5 DEF AddValue
    <3>2. \A p \in 1..Len(d) : ~SameValue(d[p], g[n])
      BY <2>4, <2>5 DEF SameValue
    <3> HIDE DEF d, N
    <3>3. \E to : CollapsedAt(Append(d, g[n]), to, g, n)
      BY <2>2, <2>3, <3>2, CollapseNew DEF N
    <3>4. QED
      BY <2>1, <3>1, <3>3
  <2>6. CASE same # {}
    <3>1. c \in same
      BY <2>6
    <3>2. b[n] = [d EXCEPT ![c] = MergeInto(@, g[n])]
      BY <2>2, <2>6 DEF AddValue
    <3>3. c \in 1..Len(d) /\ SameValue(d[c], g[n])
      BY <2>4, <3>1 DEF SameValue
    <3> HIDE DEF c, d, N
    <3>4. CollapsedAt([d EXCEPT ![c] = MergeInto(@, g[n])], first, g, n)
      BY <2>2, <2>3, <3>3, CollapseRepeat DEF N
    <3>5. QED
      BY <2>1, <3>2, <3>4
  <2>7. QED
    BY <2>5, <2>6
<1> HIDE DEF S, N
<1>5. \A n \in 0..N : n \in S
  BY <1>2, <1>3, <1>4, Induct
<1>6. N \in S
  BY <1>2, <1>5
<1>7. QED
  BY <1>1, <1>2, <1>6 DEF S, N

-----------------------------------------------------------------------------
(* What settles of a slot, and types.                                      *)

\* The n-th is the most confident of the first k, and the first said of those.
Best(d, n, k) == \A m \in 1..k : d[m].conf < d[n].conf \/ (d[m].conf = d[n].conf /\ n <= m)

LEMMA BestExists ==
  ASSUME NEW d \in Seq(Fact), Len(d) >= 1
  PROVE  \E n \in 1..Len(d) : Best(d, n, Len(d)) /\ MostConfident(d) = d[n]
<1> DEFINE N == Len(d)
           S == {k \in 0..N : k = 0 \/ \E n \in 1..k : Best(d, n, k)}
<1>1. N \in Nat /\ DOMAIN d = 1..N /\ \A n \in 1..N : d[n] \in Fact
  BY SeqIs
<1>2. \A n \in 1..N : d[n].conf \in Nat
  BY <1>1 DEF Fact
<1> HIDE DEF N
<1>3. 0 \in S
  BY <1>1
<1>4. ASSUME NEW k \in 1..N, k - 1 \in S
      PROVE  k \in S
  <2>1. k \in Nat /\ 1..k = (1..(k - 1)) \cup {k} /\ k \in 0..N /\ 1..k \subseteq 1..N
    BY <1>1
  <2>2. CASE k - 1 = 0
    <3>1. Best(d, k, k) /\ k \in 1..k
      BY <2>1, <2>2 DEF Best
    <3>2. QED
      BY <2>1, <3>1
  <2>3. CASE k - 1 # 0
    <3>1. PICK n \in 1..(k - 1) : Best(d, n, k - 1)
      BY <1>4, <2>3
    <3>2. n \in 1..k /\ k \in 1..k /\ n < k /\ d[n].conf \in Nat /\ d[k].conf \in Nat
      BY <1>2, <2>1
    <3>3. \A m \in 1..(k - 1) : d[m].conf \in Nat /\ m < k
      BY <1>2, <2>1
    <3>4. CASE d[k].conf > d[n].conf
      <4>1. \A m \in 1..(k - 1) : d[m].conf < d[k].conf
        BY <3>1, <3>2, <3>3, <3>4 DEF Best
      <4>2. Best(d, k, k)
        BY <2>1, <3>2, <4>1 DEF Best
      <4>3. QED
        BY <2>1, <3>2, <4>2
    <3>5. CASE ~(d[k].conf > d[n].conf)
      <4>1. d[k].conf < d[n].conf \/ (d[k].conf = d[n].conf /\ n <= k)
        BY <3>2, <3>5
      <4>2. Best(d, n, k)
        BY <2>1, <3>1, <4>1 DEF Best
      <4>3. QED
        BY <2>1, <3>2, <4>2
    <3>6. QED
      BY <3>4, <3>5
  <2>4. QED
    BY <2>2, <2>3
<1> HIDE DEF S
<1>5. \A k \in 0..N : k \in S
  BY <1>1, <1>3, <1>4, Induct
<1>6. \E n \in 1..N : Best(d, n, N)
  BY <1>1, <1>5 DEF S, N
<1> DEFINE w == CHOOSE n \in DOMAIN d :
                  \A k \in DOMAIN d :
                    \/ d[k].conf < d[n].conf
                    \/ d[k].conf = d[n].conf /\ n <= k
<1>7. w \in 1..N /\ Best(d, w, N)
  <2>1. \E n \in DOMAIN d : \A k \in DOMAIN d :
          \/ d[k].conf < d[n].conf
          \/ d[k].conf = d[n].conf /\ n <= k
    BY <1>1, <1>6 DEF Best
  <2>2. QED
    BY <1>1, <2>1 DEF Best
<1>8. MostConfident(d) = d[w]
  BY DEF MostConfident
<1> HIDE DEF w
<1>9. QED
  BY <1>7, <1>8 DEF N

\* What settling keeps of a fact.
SameFact(f, k) == SlotOf(f) = SlotOf(k) /\ f.value = k.value /\ f.conf = k.conf

LEMMA Recarded ==
  ASSUME NEW f \in Fact, NEW card \in {"unset", "one", "many"}
  PROVE  /\ [f EXCEPT !.card = card] \in Fact
         /\ SameFact([f EXCEPT !.card = card], f)
         /\ [f EXCEPT !.card = card].card = card
  BY DEF Fact, SameFact, SlotOf

\* A slot declared single: the most confident value, and it is no list.
LEMMA SettleOne ==
  ASSUME NEW d \in Seq(Fact), Len(d) >= 1
  PROVE  \E n \in 1..Len(d), f \in Fact :
           /\ Best(d, n, Len(d)) /\ SameFact(f, d[n]) /\ f.card # "many"
           /\ Settle("one", d) = <<f>>
<1>1. PICK n \in 1..Len(d) : Best(d, n, Len(d)) /\ MostConfident(d) = d[n]
  BY BestExists
<1> DEFINE card == IF d[n].card = "many" THEN "one" ELSE d[n].card
           f == [d[n] EXCEPT !.card = card]
<1>2. d[n] \in Fact
  BY SeqIs
<1>3. card \in {"unset", "one", "many"} /\ card # "many"
  BY <1>2 DEF Fact
<1>4. Settle("one", d) = <<f>>
  BY <1>1 DEF Settle
<1> HIDE DEF card
<1>5. f \in Fact /\ SameFact(f, d[n]) /\ f.card # "many"
  BY <1>2, <1>3, Recarded
<1> HIDE DEF f
<1>6. QED
  BY <1>1, <1>4, <1>5

\* Any other slot: every value, as a list if it is one.
LEMMA SettleMany ==
  ASSUME NEW d \in Seq(Fact), NEW declared, declared # "one"
  PROVE  LET out == Settle(declared, d) IN
         /\ out \in Seq(Fact) /\ Len(out) = Len(d)
         /\ \A n \in 1..Len(d) : SameFact(out[n], d[n])
         /\ \/ \A n \in 1..Len(d) : out[n].card = "many"
            \/ ~IsList(declared, d) /\ out = d
<1> DEFINE out == Settle(declared, d)
           N == Len(d)
<1>1. N \in Nat /\ DOMAIN d = 1..N /\ \A n \in 1..N : d[n] \in Fact
  BY SeqIs
<1>2. CASE IsList(declared, d)
  <2> DEFINE r == [n \in 1..N |-> [d[n] EXCEPT !.card = "many"]]
  <2>1. out = r
    BY <1>1, <1>2 DEF Settle
  <2>2. \A n \in 1..N : /\ [d[n] EXCEPT !.card = "many"] \in Fact
                        /\ SameFact([d[n] EXCEPT !.card = "many"], d[n])
                        /\ [d[n] EXCEPT !.card = "many"].card = "many"
    BY <1>1, Recarded
  <2>3. r \in [1..N -> Fact]
    BY <2>2
  <2>4. \A n \in 1..N : SameFact(r[n], d[n]) /\ r[n].card = "many"
    BY <2>2
  <2> HIDE DEF r, N, out
  <2>5. r \in Seq(Fact) /\ Len(r) = N
    BY <1>1, <2>3
  <2>6. QED
    BY <2>1, <2>4, <2>5 DEF N, out
<1>3. CASE ~IsList(declared, d)
  <2>1. out = d
    BY <1>3 DEF Settle
  <2>2. QED
    BY <1>3, <2>1 DEF SameFact
<1>4. QED
  BY <1>2, <1>3

LEMMA SettledFacts ==
  ASSUME NEW d \in Seq(Fact), Len(d) >= 1, NEW declared
  PROVE  Settle(declared, d) \in Seq(Fact) /\ Len(Settle(declared, d)) >= 1
<1>1. CASE declared = "one"
  <2>1. PICK f \in Fact : Settle("one", d) = <<f>>
    BY SettleOne
  <2> DEFINE s == <<f>>
  <2>2. s \in Seq(Fact) /\ Len(s) = 1
    OBVIOUS
  <2>3. Settle(declared, d) = s
    BY <1>1, <2>1
  <2> HIDE DEF s
  <2>4. Settle(declared, d) \in Seq(Fact)
    BY <2>2, <2>3
  <2>5. Len(Settle(declared, d)) = 1
    BY <2>2, <2>3
  <2>6. QED
    BY <2>4, <2>5
<1>2. CASE declared # "one"
  BY <1>2, SettleMany
<1>3. QED
  BY <1>1, <1>2

LEMMA CollapseSome ==
  ASSUME NEW g \in Seq(Fact), Len(g) >= 1
  PROVE  Collapse(g) \in Seq(Fact) /\ Len(Collapse(g)) >= 1
<1>1. Collapse(g) \in Seq(Fact)
  BY CollapseIs
<1>2. PICK first : CollapsedAt(Collapse(g), first, g, Len(g))
  BY CollapseIs
<1>3. 1 \in 1..Len(g)
  BY SeqIs
<1>4. \E p \in 1..Len(Collapse(g)) : SameValue(g[1], g[first[p]])
  BY <1>2, <1>3 DEF CollapsedAt
<1>5. Len(Collapse(g)) \in Nat
  BY <1>1, SeqIs
<1>6. QED
  BY <1>1, <1>4, <1>5

LEMMA GroupSome ==
  ASSUME NEW fs \in Seq(Fact), NEW p \in 1..Len(SlotOrder(fs))
  PROVE  LET slot == SlotOrder(fs)[p] IN
         Group(slot, fs) \in Seq(Fact) /\ Len(Group(slot, fs)) >= 1
<1> DEFINE slot == SlotOrder(fs)[p]
           g == Group(slot, fs)
<1>1. PICK m \in 1..Len(fs) : SlotOf(fs[m]) = slot
  BY SlotOrderLists DEF SlotsListed
<1>2. g \in Seq(Fact) /\ ListedBy(g, fs, OfSlot(slot, fs, Len(fs)))
  BY GroupLists
<1>3. m \in OfSlot(slot, fs, Len(fs))
  BY <1>1 DEF OfSlot
<1> HIDE DEF g, slot
<1>4. \E k \in 1..Len(g) : TRUE
  BY <1>2, <1>3 DEF ListedBy, ListsAt
<1>5. Len(g) \in Nat
  BY <1>2, SeqIs
<1>6. QED
  BY <1>2, <1>4, <1>5 DEF g, slot

LEMMA SettledSome ==
  ASSUME NEW es, NEW fs \in Seq(Fact), NEW p \in 1..Len(SlotOrder(fs))
  PROVE  LET slot == SlotOrder(fs)[p] IN
         Settled(es, fs, slot) \in Seq(Fact) /\ Len(Settled(es, fs, slot)) >= 1
<1> DEFINE slot == SlotOrder(fs)[p]
           g == Group(slot, fs)
           d == Collapse(g)
<1>1. g \in Seq(Fact) /\ Len(g) >= 1
  BY GroupSome
<1> HIDE DEF g
<1>2. d \in Seq(Fact) /\ Len(d) >= 1
  BY <1>1, CollapseSome
<1> HIDE DEF d
<1>3. Settle(DeclaredFor(es, slot), d) \in Seq(Fact) /\ Len(Settle(DeclaredFor(es, slot), d)) >= 1
  BY <1>2, SettledFacts
<1>4. QED
  BY <1>3 DEF Settled, g, d

LEMMA ReconcileTyped ==
  ASSUME NEW x \in Extraction
  PROVE  Reconcile(x) \in Extraction
<1> DEFINE es == Entities(x.entities)
           fs == Referenced(es, x.facts)
           slots == SlotOrder(fs)
           b == DoneAfter(es, fs, slots)
<1>1. x.entities \in Seq(Entity) /\ x.facts \in Seq(Fact)
  BY DEF Extraction
<1>2. es \in Seq(Entity)
  <2>1. Len(x.entities) \in 0..Len(x.entities)
    BY <1>1, SeqIs
  <2>2. QED
    BY <1>1, <2>1, KeptRounds
<1>3. Reconcile(x) = [entities |-> es, facts |-> b[Len(slots)]]
  BY DEF Reconcile, Loop, DoneAfter
<1> HIDE DEF es
<1>4. fs \in Seq(Fact)
  BY <1>1, ReferencedLists
<1> HIDE DEF fs
<1>5. slots \in Seq(Slot)
  BY <1>4, SlotOrderLists
<1>6. \A n \in 1..Len(slots) : Settled(es, fs, slots[n]) \in Seq(Fact)
  BY <1>4, SettledSome
<1> HIDE DEF slots
<1>7. \A n \in 0..Len(slots) : b[n] \in Seq(Fact)
  BY <1>5, <1>6, DoneRounds
<1>8. Len(slots) \in 0..Len(slots)
  BY <1>5, SeqIs
<1> HIDE DEF b
<1>9. b[Len(slots)] \in Seq(Fact)
  BY <1>7, <1>8
<1>10. QED
  BY <1>2, <1>3, <1>9 DEF Extraction

LEMMA ReconcileTypeInit == ReconcileInit => ReconcileTypeOK
<1> SUFFICES ASSUME ReconcileInit PROVE ReconcileTypeOK
  OBVIOUS
<1>1. said.entities \in Seq(Entity)
  BY ReconcileAssumption DEF ReconcileInit
<1>2. PICK n \in 0..MaxFacts : said.facts \in [1..n -> FactPool]
  BY DEF ReconcileInit
<1>3. FactPool \subseteq Fact /\ n \in Nat
  BY ReconcileAssumption
<1>4. said.facts \in [1..n -> Fact]
  BY <1>2, <1>3
<1>5. said.facts \in Seq(Fact)
  BY <1>3, <1>4
<1>6. said = [entities |-> said.entities, facts |-> said.facts]
  BY DEF ReconcileInit
<1>7. said \in Extraction
  BY <1>1, <1>5, <1>6 DEF Extraction
<1>8. QED
  BY <1>7 DEF ReconcileInit, ReconcileTypeOK

LEMMA ReconcileTypeStep ==
  ReconcileTypeOK /\ [ReconcileNext]_reconcileVars => ReconcileTypeOK'
<1> SUFFICES ASSUME ReconcileTypeOK, [ReconcileNext]_reconcileVars
             PROVE  ReconcileTypeOK'
  OBVIOUS
<1>1. CASE ReconcilePass
  <2>1. settled2 \in Extraction /\ said \in Extraction
    BY DEF ReconcileTypeOK
  <2>2. Reconcile(settled2) \in Extraction
    BY <2>1, ReconcileTyped
  <2>3. said' \in Extraction /\ settled1' \in Extraction /\ settled2' \in Extraction
    BY <1>1, <2>1, <2>2 DEF ReconcilePass
  <2>4. passes' \in 0..2
    BY <1>1 DEF ReconcilePass, ReconcileTypeOK
  <2>5. QED
    BY <2>3, <2>4 DEF ReconcileTypeOK
<1>2. CASE UNCHANGED reconcileVars
  BY <1>2 DEF reconcileVars, ReconcileTypeOK
<1>3. QED
  BY <1>1, <1>2 DEF ReconcileNext

\* What reconcileExtraction is given and what it returns are extractions:
\* lists of entities and of facts of the declared shape.
THEOREM ReconcileTypesHold == ReconcileSpec => []ReconcileTypeOK
  BY ReconcileTypeInit, ReconcileTypeStep, PTL DEF ReconcileSpec

-----------------------------------------------------------------------------
(* Each loop leaves alone what it would return.                            *)

Prefix(s, n) == [k \in 1..n |-> s[k]]

LEMMA PrefixIs ==
  ASSUME NEW T, NEW s \in Seq(T), NEW n \in 0..Len(s)
  PROVE  /\ Prefix(s, n) \in Seq(T) /\ Len(Prefix(s, n)) = n
         /\ DOMAIN Prefix(s, n) = 1..n
         /\ \A k \in 1..n : Prefix(s, n)[k] = s[k]
<1>1. Len(s) \in Nat /\ \A k \in 1..Len(s) : s[k] \in T
  BY SeqIs
<1>2. n \in Nat /\ \A k \in 1..n : s[k] \in T
  BY <1>1
<1>3. QED
  BY <1>2 DEF Prefix

LEMMA PrefixEnds ==
  ASSUME NEW T, NEW s \in Seq(T)
  PROVE  Prefix(s, 0) = << >> /\ Prefix(s, Len(s)) = s
  BY DEF Prefix

LEMMA PrefixMore ==
  ASSUME NEW T, NEW s \in Seq(T), NEW n \in 1..Len(s)
  PROVE  Append(Prefix(s, n - 1), s[n]) = Prefix(s, n)
<1> DEFINE p == Prefix(s, n - 1)
           r == Append(p, s[n])
           q == Prefix(s, n)
<1>1. Len(s) \in Nat /\ s[n] \in T /\ n - 1 \in 0..Len(s) /\ n \in 0..Len(s)
  BY SeqIs
<1>2. p \in Seq(T) /\ Len(p) = n - 1 /\ \A k \in 1..(n - 1) : p[k] = s[k]
  BY <1>1, PrefixIs
<1>3. q \in Seq(T) /\ Len(q) = n /\ \A k \in 1..n : q[k] = s[k]
  BY <1>1, PrefixIs
<1> HIDE DEF p, q
<1>4. /\ r \in Seq(T) /\ Len(r) = n /\ r[n] = s[n]
      /\ \A k \in 1..(n - 1) : r[k] = p[k]
  BY <1>1, <1>2, SeqAppend
<1> HIDE DEF r
<1>5. 1..n = (1..(n - 1)) \cup {n}
  BY <1>1
<1>6. \A k \in 1..n : r[k] = q[k]
  BY <1>2, <1>3, <1>4, <1>5
<1>7. r = q
  BY <1>3, <1>4, <1>6
<1>8. QED
  BY <1>7 DEF r, q, p

\* Labelled entities of distinct local ids are kept as they are.
LEMMA EntitiesAgain ==
  ASSUME NEW es \in Seq(Entity), \A p \in 1..Len(es) : es[p].labelled,
         \A p, r \in 1..Len(es) : es[p].id = es[r].id => p = r
  PROVE  Entities(es) = es
<1> DEFINE b == KeptAfter(es)
           N == Len(es)
           S == {n \in 0..N : b[n] = Prefix(es, n)}
<1>1. /\ b[0] = << >> /\ \A n \in 1..N : b[n] = KeepEntity(b[n - 1], es[n])
      /\ Entities(es) = b[N]
  BY KeptRounds
<1>2. N \in Nat
  BY SeqIs
<1> HIDE DEF b
<1>3. 0 \in S
  BY <1>1, <1>2, PrefixEnds
<1>4. ASSUME NEW n \in 1..N, n - 1 \in S
      PROVE  n \in S
  <2> DEFINE p == Prefix(es, n - 1)
  <2>1. n - 1 \in 0..N /\ n \in 0..N /\ 1..(n - 1) \subseteq 1..N /\ n \notin 1..(n - 1)
    BY <1>2
  <2>2. DOMAIN p = 1..(n - 1) /\ \A k \in 1..(n - 1) : p[k] = es[k]
    BY <2>1, PrefixIs
  <2>3. Append(p, es[n]) = Prefix(es, n)
    BY PrefixMore
  <2>4. b[n] = KeepEntity(p, es[n])
    BY <1>1, <1>4
  <2> HIDE DEF p
  <2>5. ~\E k \in DOMAIN p : p[k].id = es[n].id
    BY <2>1, <2>2
  <2>6. b[n] = Prefix(es, n)
    BY <2>3, <2>4, <2>5 DEF KeepEntity
  <2>7. QED
    BY <2>1, <2>6
<1> HIDE DEF S
<1>5. \A n \in 0..N : n \in S
  BY <1>2, <1>3, <1>4, Induct
<1>6. b[N] = Prefix(es, N)
  BY <1>2, <1>5 DEF S
<1>7. QED
  BY <1>1, <1>6, PrefixEnds

\* What Entities returns is such a list.
LEMMA EntitiesKept ==
  ASSUME NEW list \in Seq(Entity)
  PROVE  /\ Entities(list) \in Seq(Entity)
         /\ \A p \in 1..Len(Entities(list)) : Entities(list)[p].labelled
         /\ \A p, r \in 1..Len(Entities(list)) :
              Entities(list)[p].id = Entities(list)[r].id => p = r
<1> DEFINE b == KeptAfter(list)
           N == Len(list)
           KeptOf(s) == /\ \A p \in 1..Len(s) : s[p].labelled
                      /\ \A p, r \in 1..Len(s) : s[p].id = s[r].id => p = r
           S == {n \in 0..N : KeptOf(b[n])}
<1>1. /\ b[0] = << >> /\ \A n \in 1..N : b[n] = KeepEntity(b[n - 1], list[n])
      /\ \A n \in 0..N : b[n] \in Seq(Entity)
      /\ Entities(list) = b[N]
  BY KeptRounds
<1>2. N \in Nat /\ \A n \in 1..N : list[n] \in Entity
  BY SeqIs
<1> HIDE DEF b, N
<1>3. 0 \in S
  <2> DEFINE z == b[0]
  <2>1. Len(z) = 0
    BY <1>1, EmptySeq
  <2> HIDE DEF z
  <2>2. KeptOf(z)
    BY <2>1
  <2>3. QED
    BY <1>2, <2>2 DEF z
<1>4. ASSUME NEW n \in 1..N, n - 1 \in S
      PROVE  n \in S
  <2> DEFINE s == b[n - 1]
             e == list[n]
             K == Len(s)
             r == b[n]
  <2>1. n - 1 \in 0..N /\ n \in 0..N
    BY <1>2
  <2>2. s \in Seq(Entity) /\ KeptOf(s) /\ r = KeepEntity(s, e) /\ e \in Entity
    BY <1>1, <1>2, <1>4, <2>1
  <2>3. K \in Nat /\ DOMAIN s = 1..K
    BY <2>2, SeqIs
  <2>4. CASE e.labelled /\ ~\E k \in DOMAIN s : s[k].id = e.id
    <3>1. r = Append(s, e)
      BY <2>2, <2>4 DEF KeepEntity
    <3> HIDE DEF s, r, e
    <3>2. /\ Len(r) = K + 1 /\ r[K + 1] = e
          /\ \A p \in 1..K : r[p] = s[p]
      BY <2>2, <3>1, SeqAppend
    <3>3. 1..Len(r) = (1..K) \cup {K + 1}
      BY <2>3, <3>2
    <3>4. \A p \in 1..K : s[p].labelled /\ s[p].id # e.id
      BY <2>2, <2>3, <2>4
    <3>5. \A p, q \in 1..K : s[p].id = s[q].id => p = q
      BY <2>2
    <3> HIDE DEF K
    <3>6. KeptOf(r)
      BY <2>4, <3>2, <3>3, <3>4, <3>5
    <3>7. QED
      BY <2>1, <3>6 DEF r
  <2>5. CASE ~(e.labelled /\ ~\E k \in DOMAIN s : s[k].id = e.id)
    <3>1. r = s
      BY <2>2, <2>5 DEF KeepEntity
    <3>2. QED
      BY <2>1, <2>2, <3>1
  <2>6. QED
    BY <2>4, <2>5
<1> HIDE DEF S
<1>5. \A n \in 0..N : n \in S
  BY <1>2, <1>3, <1>4, Induct
<1>6. QED
  BY <1>1, <1>2, <1>5 DEF S

LEMMA ReferencedAgain ==
  ASSUME NEW es, NEW fs \in Seq(Fact),
         \A p \in 1..Len(fs) : Usable(es, fs[p]) /\ Normalized(fs[p]) = fs[p]
  PROVE  Referenced(es, fs) = fs
<1> DEFINE b == ReferencedAfter(es, fs)
           N == Len(fs)
           S == {n \in 0..N : b[n] = Prefix(fs, n)}
<1>1. /\ b[0] = << >> /\ \A n \in 1..N : b[n] = KeepFact(es, b[n - 1], fs[n])
      /\ Referenced(es, fs) = b[N]
  BY ReferencedRounds
<1>2. N \in Nat
  BY SeqIs
<1> HIDE DEF b
<1>3. 0 \in S
  BY <1>1, <1>2, PrefixEnds
<1>4. ASSUME NEW n \in 1..N, n - 1 \in S
      PROVE  n \in S
  <2> DEFINE p == Prefix(fs, n - 1)
  <2>1. n \in 0..N
    BY <1>2
  <2>3. Append(p, fs[n]) = Prefix(fs, n)
    BY PrefixMore
  <2>4. b[n] = KeepFact(es, p, fs[n])
    BY <1>1, <1>4
  <2> HIDE DEF p
  <2>6. b[n] = Prefix(fs, n)
    BY <2>3, <2>4 DEF KeepFact
  <2>7. QED
    BY <2>1, <2>6
<1> HIDE DEF S
<1>5. \A n \in 0..N : n \in S
  BY <1>2, <1>3, <1>4, Induct
<1>6. b[N] = Prefix(fs, N)
  BY <1>2, <1>5 DEF S
<1>7. QED
  BY <1>1, <1>6, PrefixEnds

LEMMA CollapseAgain ==
  ASSUME NEW g \in Seq(Fact), \A p, r \in 1..Len(g) : SameValue(g[p], g[r]) => p = r
  PROVE  Collapse(g) = g
<1> DEFINE b == DistinctAfter(g)
           N == Len(g)
           S == {n \in 0..N : b[n] = Prefix(g, n)}
<1>1. /\ b[0] = << >> /\ \A n \in 1..N : b[n] = AddValue(b[n - 1], g[n])
      /\ Collapse(g) = b[N]
  BY DistinctRounds
<1>2. N \in Nat
  BY SeqIs
<1> HIDE DEF b
<1>3. 0 \in S
  BY <1>1, <1>2, PrefixEnds
<1>4. ASSUME NEW n \in 1..N, n - 1 \in S
      PROVE  n \in S
  <2> DEFINE p == Prefix(g, n - 1)
  <2>1. n - 1 \in 0..N /\ n \in 0..N /\ 1..(n - 1) \subseteq 1..N /\ n \notin 1..(n - 1)
    BY <1>2
  <2>2. DOMAIN p = 1..(n - 1) /\ \A k \in 1..(n - 1) : p[k] = g[k]
    BY <2>1, PrefixIs
  <2>3. Append(p, g[n]) = Prefix(g, n)
    BY PrefixMore
  <2>4. b[n] = AddValue(p, g[n])
    BY <1>1, <1>4
  <2> HIDE DEF p
  <2>5. \A k \in DOMAIN p : ~(ValueSlot(p[k].value) = ValueSlot(g[n].value))
    BY <2>1, <2>2 DEF SameValue
  <2>6. {k \in DOMAIN p : ValueSlot(p[k].value) = ValueSlot(g[n].value)} = {}
    BY <2>5
  <2>7. b[n] = Prefix(g, n)
    BY <2>3, <2>4, <2>6 DEF AddValue
  <2>8. QED
    BY <2>1, <2>7
<1> HIDE DEF S
<1>5. \A n \in 0..N : n \in S
  BY <1>2, <1>3, <1>4, Induct
<1>6. b[N] = Prefix(g, N)
  BY <1>2, <1>5 DEF S
<1>7. QED
  BY <1>1, <1>6, PrefixEnds

LEMMA SettleAgain ==
  ASSUME NEW d \in Seq(Fact), Len(d) >= 1, NEW declared
  PROVE  Settle(declared, Settle(declared, d)) = Settle(declared, d)
<1> DEFINE out == Settle(declared, d)
<1>1. CASE declared = "one"
  <2>1. PICK f \in Fact : f.card # "many" /\ Settle("one", d) = <<f>>
    BY SettleOne
  <2> DEFINE s == <<f>>
  <2>2. s \in Seq(Fact) /\ Len(s) = 1 /\ s[1] = f /\ 1..Len(s) = {1}
    OBVIOUS
  <2>3. out = s
    BY <1>1, <2>1
  <2> HIDE DEF s, out
  <2>4. Len(s) >= 1
    BY <2>2
  <2>5. \E n \in 1..Len(s) : MostConfident(s) = s[n]
    BY <2>2, <2>4, BestExists
  <2>6. MostConfident(s) = f
    BY <2>2, <2>5
  <2>7. [f EXCEPT !.card = f.card] = f
    BY DEF Fact
  <2>8. Settle("one", s) = s
    BY <2>1, <2>6, <2>7 DEF Settle, s
  <2>9. QED
    BY <1>1, <2>3, <2>8 DEF out
<1>2. CASE declared # "one"
  <2>1. /\ out \in Seq(Fact) /\ Len(out) = Len(d)
        /\ \/ \A n \in 1..Len(d) : out[n].card = "many"
           \/ ~IsList(declared, d) /\ out = d
    BY <1>2, SettleMany
  <2>2. CASE out = d
    BY <2>2
  <2>3. CASE \A n \in 1..Len(d) : out[n].card = "many"
    <3> HIDE DEF out
    <3>1. Len(out) \in Nat /\ DOMAIN out = 1..Len(out) /\ \A n \in 1..Len(out) : out[n] \in Fact
      BY <2>1, SeqIs
    <3>2. 1 \in DOMAIN out
      BY <2>1, <3>1
    <3>3. IsList(declared, out)
      BY <2>1, <2>3, <3>1, <3>2 DEF IsList
    <3>4. \A n \in DOMAIN out : [out[n] EXCEPT !.card = "many"] = out[n]
      BY <2>1, <2>3, <3>1 DEF Fact
    <3>5. Settle(declared, out) = [n \in DOMAIN out |-> [out[n] EXCEPT !.card = "many"]]
      BY <1>2, <3>3 DEF Settle
    <3>6. [n \in DOMAIN out |-> [out[n] EXCEPT !.card = "many"]] = [n \in DOMAIN out |-> out[n]]
      BY <3>4
    <3>7. [n \in DOMAIN out |-> out[n]] = out
      BY <2>1
    <3>8. QED
      BY <3>5, <3>6, <3>7 DEF out
  <2>4. QED
    BY <2>1, <2>2, <2>3
<1>3. QED
  BY <1>1, <1>2

-----------------------------------------------------------------------------
(* The slots of a result, and their groups, are those it was made of.      *)

LEMMA Concat ==
  ASSUME NEW T, NEW s \in Seq(T), NEW u \in Seq(T)
  PROVE  /\ s \o u \in Seq(T) /\ Len(s \o u) = Len(s) + Len(u)
         /\ \A k \in 1..Len(s) : (s \o u)[k] = s[k]
         /\ \A k \in 1..Len(u) : (s \o u)[Len(s) + k] = u[k]
  OBVIOUS

\* The rounds over the first part of a list.
LEMMA SlotsOfPrefix ==
  ASSUME NEW s \in Seq(Fact), NEW u \in Seq(Fact)
  PROVE  SlotsAfter(s \o u)[Len(s)] = SlotOrder(s)
<1> DEFINE su == s \o u
           b == SlotsAfter(su)
           c == SlotsAfter(s)
           N == Len(s)
           S == {n \in 0..N : b[n] = c[n]}
<1>1. /\ su \in Seq(Fact) /\ N \in Nat /\ Len(u) \in Nat /\ Len(su) = N + Len(u)
      /\ \A n \in 1..N : su[n] = s[n]
  BY Concat, SeqIs
<1> HIDE DEF su
<1>2. b[0] = << >> /\ \A n \in 1..Len(su) : b[n] = AddSlot(b[n - 1], su[n])
  BY <1>1, SlotRounds
<1>3. c[0] = << >> /\ (\A n \in 1..N : c[n] = AddSlot(c[n - 1], s[n])) /\ SlotOrder(s) = c[N]
  BY SlotRounds
<1> HIDE DEF b, c, N
<1>4. 0 \in S
  BY <1>1, <1>2, <1>3
<1>5. \A n \in 1..N : n - 1 \in S => n \in S
  BY <1>1, <1>2, <1>3
<1> HIDE DEF S
<1>6. \A n \in 0..N : n \in S
  BY <1>1, <1>4, <1>5, Induct
<1>7. b[N] = c[N]
  BY <1>1, <1>6 DEF S
<1>8. QED
  BY <1>3, <1>7 DEF b, su, N

LEMMA GroupOfPrefix ==
  ASSUME NEW slot, NEW s \in Seq(Fact), NEW u \in Seq(Fact)
  PROVE  GroupAfter(slot, s \o u)[Len(s)] = Group(slot, s)
<1> DEFINE su == s \o u
           b == GroupAfter(slot, su)
           c == GroupAfter(slot, s)
           N == Len(s)
           S == {n \in 0..N : b[n] = c[n]}
<1>1. /\ su \in Seq(Fact) /\ N \in Nat /\ Len(u) \in Nat /\ Len(su) = N + Len(u)
      /\ \A n \in 1..N : su[n] = s[n]
  BY Concat, SeqIs
<1> HIDE DEF su
<1>2. b[0] = << >> /\ \A n \in 1..Len(su) : b[n] = AddToGroup(slot, b[n - 1], su[n])
  BY <1>1, GroupRounds
<1>3. c[0] = << >> /\ (\A n \in 1..N : c[n] = AddToGroup(slot, c[n - 1], s[n])) /\ Group(slot, s) = c[N]
  BY GroupRounds
<1> HIDE DEF b, c, N
<1>4. 0 \in S
  BY <1>1, <1>2, <1>3
<1>5. \A n \in 1..N : n - 1 \in S => n \in S
  BY <1>1, <1>2, <1>3
<1> HIDE DEF S
<1>6. \A n \in 0..N : n \in S
  BY <1>1, <1>4, <1>5, Induct
<1>7. b[N] = c[N]
  BY <1>1, <1>6 DEF S
<1>8. QED
  BY <1>3, <1>7 DEF b, su, N

\* A block of facts of a new slot adds the slot, once.
LEMMA SlotOrderMore ==
  ASSUME NEW s \in Seq(Fact), NEW u \in Seq(Fact), Len(u) >= 1, NEW slot \in Slot,
         \A k \in 1..Len(u) : SlotOf(u[k]) = slot,
         \A p \in 1..Len(SlotOrder(s)) : SlotOrder(s)[p] # slot
  PROVE  SlotOrder(s \o u) = Append(SlotOrder(s), slot)
<1> DEFINE su == s \o u
           b == SlotsAfter(su)
           o == SlotOrder(s)
           N == Len(s)
           M == Len(u)
           S == {n \in 0..M : n = 0 \/ b[N + n] = Append(o, slot)}
<1>1. /\ su \in Seq(Fact) /\ N \in Nat /\ M \in Nat /\ Len(su) = N + M
      /\ \A k \in 1..M : su[N + k] = u[k]
  BY Concat, SeqIs
<1>2. o \in Seq(Slot) /\ b[N] = o
  BY SlotOrderLists, SlotsOfPrefix
<1>3. o \in Seq(Slot) /\ DOMAIN o = 1..Len(o) /\ Len(o) \in Nat
  BY <1>2, SeqIs
<1> HIDE DEF su, o
<1>4. (\A n \in 1..(N + M) : b[n] = AddSlot(b[n - 1], su[n])) /\ SlotOrder(su) = b[N + M]
  BY <1>1, SlotRounds
<1> HIDE DEF b, N, M
<1>5. ASSUME NEW n \in 1..M, n - 1 \in S
      PROVE  n \in S
  <2>1. N + n \in 1..(N + M) /\ (N + n) - 1 = N + (n - 1) /\ n \in 0..M
    BY <1>1
  <2>2. su[N + n] = u[n] /\ SlotOf(u[n]) = slot
    BY <1>1 DEF M
  <2>3. b[N + n] = AddSlot(b[N + (n - 1)], su[N + n])
    BY <1>4, <2>1
  <2>4. CASE n - 1 = 0
    <3>1. N + (n - 1) = N
      BY <1>1, <2>4
    <3>2. b[N + n] = AddSlot(o, u[n])
      BY <1>2, <2>2, <2>3, <3>1
    <3>3. \A p \in DOMAIN o : o[p] # slot
      BY <1>3 DEF o
    <3>4. b[N + n] = Append(o, slot)
      BY <2>2, <3>2, <3>3 DEF AddSlot
    <3>5. QED
      BY <2>1, <3>4
  <2>5. CASE n - 1 # 0
    <3> DEFINE r == Append(o, slot)
    <3>1. b[N + n] = AddSlot(r, u[n])
      BY <1>5, <2>2, <2>3, <2>5
    <3>2. r[Len(o) + 1] = slot /\ DOMAIN r = 1..(Len(o) + 1) /\ Len(o) + 1 \in 1..(Len(o) + 1)
      BY <1>3, SeqAppend
    <3> HIDE DEF r
    <3>3. b[N + n] = r
      BY <2>2, <3>1, <3>2 DEF AddSlot
    <3>4. QED
      BY <2>1, <3>3 DEF r
  <2>6. QED
    BY <2>4, <2>5
<1>6. 0 \in S
  BY <1>1
<1> HIDE DEF S
<1>7. \A n \in 0..M : n \in S
  BY <1>1, <1>5, <1>6, Induct
<1>8. M \in 0..M /\ M # 0
  BY <1>1 DEF M
<1>9. b[N + M] = Append(o, slot)
  BY <1>7, <1>8 DEF S
<1>10. QED
  BY <1>4, <1>9 DEF o, su

\* A block of other slots leaves a group alone; a group that was empty is the
\* block of its slot.
LEMMA GroupSame ==
  ASSUME NEW s \in Seq(Fact), NEW u \in Seq(Fact), NEW slot,
         \A k \in 1..Len(u) : SlotOf(u[k]) # slot
  PROVE  Group(slot, s \o u) = Group(slot, s)
<1> DEFINE su == s \o u
           b == GroupAfter(slot, su)
           o == Group(slot, s)
           N == Len(s)
           M == Len(u)
           S == {n \in 0..M : b[N + n] = o}
<1>1. /\ su \in Seq(Fact) /\ N \in Nat /\ M \in Nat /\ Len(su) = N + M
      /\ \A k \in 1..M : su[N + k] = u[k]
  BY Concat, SeqIs
<1>2. b[N] = o
  BY GroupOfPrefix
<1> HIDE DEF su, o
<1>4. /\ \A n \in 1..(N + M) : b[n] = AddToGroup(slot, b[n - 1], su[n])
      /\ Group(slot, su) = b[N + M]
  BY <1>1, GroupRounds
<1> HIDE DEF b, N, M
<1>5. ASSUME NEW n \in 1..M, n - 1 \in S
      PROVE  n \in S
  <2>1. N + n \in 1..(N + M) /\ (N + n) - 1 = N + (n - 1) /\ n \in 0..M
    BY <1>1
  <2>2. su[N + n] = u[n] /\ SlotOf(u[n]) # slot
    BY <1>1 DEF M
  <2>3. b[N + n] = AddToGroup(slot, b[N + (n - 1)], su[N + n])
    BY <1>4, <2>1
  <2>4. b[N + n] = o
    BY <1>5, <2>2, <2>3 DEF AddToGroup
  <2>5. QED
    BY <2>1, <2>4
<1>6. 0 \in S
  <2>1. N + 0 = N
    BY <1>1
  <2>2. QED
    BY <1>1, <1>2, <2>1
<1> HIDE DEF S
<1>7. \A n \in 0..M : n \in S
  BY <1>1, <1>5, <1>6, Induct
<1>8. b[N + M] = o
  BY <1>1, <1>7 DEF S
<1>9. QED
  BY <1>4, <1>8 DEF o, su

LEMMA GroupNew ==
  ASSUME NEW s \in Seq(Fact), NEW u \in Seq(Fact), NEW slot, Group(slot, s) = << >>,
         \A k \in 1..Len(u) : SlotOf(u[k]) = slot
  PROVE  Group(slot, s \o u) = u
<1> DEFINE su == s \o u
           b == GroupAfter(slot, su)
           N == Len(s)
           M == Len(u)
           S == {n \in 0..M : b[N + n] = Prefix(u, n)}
<1>1. /\ su \in Seq(Fact) /\ N \in Nat /\ M \in Nat /\ Len(su) = N + M
      /\ \A k \in 1..M : su[N + k] = u[k]
  BY Concat, SeqIs
<1>2. b[N] = << >>
  BY GroupOfPrefix
<1> HIDE DEF su
<1>4. /\ \A n \in 1..(N + M) : b[n] = AddToGroup(slot, b[n - 1], su[n])
      /\ Group(slot, su) = b[N + M]
  BY <1>1, GroupRounds
<1> HIDE DEF b, N
<1>5. ASSUME NEW n \in 1..M, n - 1 \in S
      PROVE  n \in S
  <2>1. N + n \in 1..(N + M) /\ (N + n) - 1 = N + (n - 1) /\ n \in 0..M
    BY <1>1
  <2>2. su[N + n] = u[n] /\ SlotOf(u[n]) = slot
    BY <1>1
  <2>3. b[N + n] = AddToGroup(slot, b[N + (n - 1)], su[N + n])
    BY <1>4, <2>1
  <2>4. b[N + n] = Append(Prefix(u, n - 1), u[n])
    BY <1>5, <2>2, <2>3 DEF AddToGroup
  <2>5. Append(Prefix(u, n - 1), u[n]) = Prefix(u, n)
    BY PrefixMore
  <2>6. QED
    BY <2>1, <2>4, <2>5
<1>6. 0 \in S
  <2>1. N + 0 = N
    BY <1>1
  <2>2. Prefix(u, 0) = << >>
    BY PrefixEnds
  <2>3. QED
    BY <1>1, <1>2, <2>1, <2>2
<1> HIDE DEF S
<1>7. \A n \in 0..M : n \in S
  BY <1>1, <1>5, <1>6, Induct
<1>8. b[N + M] = Prefix(u, M)
  BY <1>1, <1>7 DEF S
<1>9. QED
  BY <1>4, <1>8, PrefixEnds DEF su

LEMMA GroupNone ==
  ASSUME NEW slot
  PROVE  Group(slot, << >>) = << >> /\ SlotOrder(<< >>) = << >>
<1> DEFINE z == << >>
<1>1. z \in Seq(Fact) /\ Len(z) = 0
  BY EmptySeq
<1> HIDE DEF z
<1>2. GroupAfter(slot, z)[0] = << >> /\ Group(slot, z) = GroupAfter(slot, z)[Len(z)]
  BY <1>1, GroupRounds
<1>3. SlotsAfter(z)[0] = << >> /\ SlotOrder(z) = SlotsAfter(z)[Len(z)]
  BY <1>1, SlotRounds
<1>4. Group(slot, z) = << >> /\ SlotOrder(z) = << >>
  BY <1>1, <1>2, <1>3
<1>5. QED
  BY <1>4 DEF z

\* A block of facts for every slot, of distinct values, and the rounds that put
\* the blocks one after the other.
BlockOfEach(slots, block) ==
  /\ \A p, r \in 1..Len(slots) : slots[p] = slots[r] => p = r
  /\ \A t \in 1..Len(slots) :
       /\ block[t] \in Seq(Fact) /\ Len(block[t]) >= 1
       /\ \A k \in 1..Len(block[t]) : SlotOf(block[t][k]) = slots[t]
       /\ \A p, r \in 1..Len(block[t]) : SameValue(block[t][p], block[t][r]) => p = r

Concatenates(done, slots, block) ==
  done[0] = << >> /\ \A t \in 1..Len(slots) : done[t] = done[t - 1] \o block[t]

\* Blocks, one after the other: of each slot, the block is the group.
LEMMA Flattened ==
  ASSUME NEW slots \in Seq(Slot), NEW block, NEW done,
         BlockOfEach(slots, block), Concatenates(done, slots, block)
  PROVE  /\ done[Len(slots)] \in Seq(Fact)
         /\ SlotOrder(done[Len(slots)]) = slots
         /\ \A t \in 1..Len(slots) : Group(slots[t], done[Len(slots)]) = block[t]
<1> DEFINE N == Len(slots)
           Fine(n) ==
             /\ done[n] \in Seq(Fact)
             /\ SlotOrder(done[n]) = Prefix(slots, n)
             /\ \A t \in 1..N : Group(slots[t], done[n]) = IF t <= n THEN block[t] ELSE << >>
           S == {n \in 0..N : Fine(n)}
<1>1. N \in Nat /\ \A t \in 1..N : slots[t] \in Slot
  BY SeqIs
<1>0. /\ \A p, r \in 1..N : slots[p] = slots[r] => p = r
      /\ \A t \in 1..N :
           /\ block[t] \in Seq(Fact) /\ Len(block[t]) >= 1
           /\ \A k \in 1..Len(block[t]) : SlotOf(block[t][k]) = slots[t]
      /\ done[0] = << >> /\ \A t \in 1..N : done[t] = done[t - 1] \o block[t]
  BY DEF BlockOfEach, Concatenates
<1>2. 0 \in S
  <2>1. done[0] \in Seq(Fact)
    BY <1>0, EmptySeq
  <2>2. SlotOrder(done[0]) = Prefix(slots, 0)
    <3>1. Prefix(slots, 0) = << >>
      BY PrefixEnds
    <3>2. SlotOrder(<< >>) = << >>
      BY GroupNone
    <3>3. QED
      BY <1>0, <3>1, <3>2
  <2>3. ASSUME NEW t \in 1..N
        PROVE  Group(slots[t], done[0]) = IF t <= 0 THEN block[t] ELSE << >>
    <3>1. ~(t <= 0)
      BY <1>1
    <3>2. Group(slots[t], << >>) = << >>
      BY GroupNone
    <3>3. QED
      BY <1>0, <3>1, <3>2
  <2>4. Fine(0)
    BY <2>1, <2>2, <2>3
  <2>5. 0 \in 0..N
    BY <1>1
  <2> HIDE DEF Fine
  <2>6. QED
    BY <2>4, <2>5
<1>3. ASSUME NEW n \in 1..N, n - 1 \in S
      PROVE  n \in S
  <2> DEFINE s == done[n - 1]
             u == block[n]
             o == SlotOrder(s)
  <2>1. n \in 0..N /\ n - 1 \in 0..N /\ n \in Nat /\ n \notin 1..(n - 1) /\ 1..(n - 1) \subseteq 1..N
    BY <1>1
  <2>2. /\ s \in Seq(Fact) /\ o = Prefix(slots, n - 1)
        /\ \A t \in 1..N : Group(slots[t], s) = IF t <= n - 1 THEN block[t] ELSE << >>
    BY <1>3
  <2>3. /\ u \in Seq(Fact) /\ Len(u) >= 1 /\ slots[n] \in Slot
        /\ \A k \in 1..Len(u) : SlotOf(u[k]) = slots[n]
        /\ done[n] = s \o u
    BY <1>0, <1>1
  <2> HIDE DEF s, u
  <2>4. done[n] \in Seq(Fact)
    BY <2>2, <2>3, Concat
  <2>5. \A p \in 1..Len(o) : o[p] # slots[n]
    <3>1. Len(o) = n - 1 /\ \A p \in 1..(n - 1) : o[p] = slots[p]
      BY <2>1, <2>2, PrefixIs
    <3>2. QED
      BY <1>0, <2>1, <3>1
  <2>6. SlotOrder(s \o u) = Append(o, slots[n])
    BY <2>2, <2>3, <2>5, SlotOrderMore
  <2>7. Append(Prefix(slots, n - 1), slots[n]) = Prefix(slots, n)
    BY PrefixMore
  <2>8. SlotOrder(done[n]) = Prefix(slots, n)
    BY <2>2, <2>3, <2>6, <2>7
  <2>9. ASSUME NEW t \in 1..N
        PROVE  Group(slots[t], done[n]) = IF t <= n THEN block[t] ELSE << >>
    <3>1. CASE t = n
      <4>1. Group(slots[n], s) = << >>
        BY <2>1, <2>2
      <4>2. Group(slots[n], s \o u) = u
        BY <2>2, <2>3, <4>1, GroupNew
      <4>3. QED
        BY <2>1, <2>3, <3>1, <4>2 DEF u
    <3>2. CASE t # n
      <4>1. \A k \in 1..Len(u) : SlotOf(u[k]) # slots[t]
        BY <1>0, <2>3, <3>2
      <4>2. Group(slots[t], s \o u) = Group(slots[t], s)
        BY <2>2, <2>3, <4>1, GroupSame
      <4>3. t <= n - 1 <=> t <= n
        BY <2>1, <3>2
      <4>4. QED
        BY <2>2, <2>3, <4>2, <4>3
    <3>3. QED
      BY <3>1, <3>2
  <2>10. Fine(n)
    BY <2>4, <2>8, <2>9
  <2>11. QED
    BY <2>1, <2>10
<1> HIDE DEF S
<1>4. \A n \in 0..N : n \in S
  <2> HIDE DEF N
  <2>1. QED
    BY <1>1, <1>2, <1>3, Induct
<1>5. Fine(N)
  BY <1>1, <1>4 DEF S
<1>6. \A t \in 1..N : t <= N
  BY <1>1
<1>7. Prefix(slots, N) = slots
  BY PrefixEnds
<1>8. QED
  BY <1>5, <1>6, <1>7

-----------------------------------------------------------------------------
(* What a result is made of.                                               *)

LEMMA NormalizedIs ==
  ASSUME NEW f \in Fact
  PROVE  /\ Normalized(f).value.form # "raw"
         /\ f.value.form # "raw" => Normalized(f) = f
         /\ \A es : Usable(es, f) => Usable(es, Normalized(f))
  BY DEF Normalized, Usable, Fact, Value

\* Every fact the first filter returns is usable and normalized.
LEMMA ReferencedSound ==
  ASSUME NEW es, NEW raw \in Seq(Fact)
  PROVE  \A m \in 1..Len(Referenced(es, raw)) :
           Usable(es, Referenced(es, raw)[m]) /\ Referenced(es, raw)[m].value.form # "raw"
<1> DEFINE fs == Referenced(es, raw)
           src == NormalizedAt(raw)
           from == UsableAt(es, raw, Len(raw))
<1>1. PICK at : ListsAt(fs, at, src, from)
  BY ReferencedLists DEF ListedBy
<1> TAKE m \in 1..Len(fs)
<1> HIDE DEF fs
<1>3. at[m] \in from /\ fs[m] = src[at[m]]
  BY <1>1 DEF ListsAt
<1>4. at[m] \in 1..Len(raw) /\ Usable(es, raw[at[m]])
  BY <1>3 DEF UsableAt
<1>5. fs[m] = Normalized(raw[at[m]])
  BY <1>3, <1>4 DEF NormalizedAt
<1>6. raw[at[m]] \in Fact
  BY <1>4, SeqIs
<1>7. QED
  BY <1>4, <1>5, <1>6, NormalizedIs DEF fs

\* What settles of a slot: facts of it that were said, of distinct values.
Settles(out, fs, slot) ==
  /\ out \in Seq(Fact) /\ Len(out) >= 1
  /\ \A k \in 1..Len(out) :
       /\ SlotOf(out[k]) = slot
       /\ \E m \in 1..Len(fs) : SlotOf(fs[m]) = slot /\ fs[m].value = out[k].value
  /\ \A p, r \in 1..Len(out) : SameValue(out[p], out[r]) => p = r

LEMMA SettledSound ==
  ASSUME NEW es, NEW fs \in Seq(Fact), NEW t \in 1..Len(SlotOrder(fs))
  PROVE  Settles(Settled(es, fs, SlotOrder(fs)[t]), fs, SlotOrder(fs)[t])
<1> DEFINE slot == SlotOrder(fs)[t]
           g == Group(slot, fs)
           d == Collapse(g)
           declared == DeclaredFor(es, slot)
           out == Settled(es, fs, slot)
           Said(f) == /\ SlotOf(f) = slot
                      /\ \E m \in 1..Len(fs) : SlotOf(fs[m]) = slot /\ fs[m].value = f.value
<1>1. out \in Seq(Fact) /\ Len(out) >= 1
  BY SettledSome
<1>2. g \in Seq(Fact) /\ Len(g) >= 1
  BY GroupSome
<1>3. PICK at : ListsAt(g, at, fs, OfSlot(slot, fs, Len(fs)))
  BY GroupLists DEF ListedBy
<1>4. out = Settle(declared, d)
  BY DEF Settled
<1> HIDE DEF out, g, slot, declared
<1>5. \A i \in 1..Len(g) : at[i] \in 1..Len(fs) /\ SlotOf(fs[at[i]]) = slot /\ g[i] = fs[at[i]]
  BY <1>3 DEF ListsAt, OfSlot
<1>6. d \in Seq(Fact) /\ Len(d) >= 1
  BY <1>2, CollapseSome
<1>7. PICK first : CollapsedAt(d, first, g, Len(g))
  BY <1>2, CollapseIs
<1> HIDE DEF d
<1>8. \A p \in 1..Len(d) : Said(d[p])
  <2> TAKE p \in 1..Len(d)
  <2>1. first[p] \in 1..Len(g)
    BY <1>7 DEF CollapsedAt
  <2>2. SlotOf(d[p]) = SlotOf(g[first[p]]) /\ d[p].value = g[first[p]].value
    BY <1>7 DEF CollapsedAt
  <2>3. QED
    BY <1>5, <2>1, <2>2
<1>9. \A p, r \in 1..Len(d) : SameValue(d[p], d[r]) => p = r
  <2>1. Len(g) \in Nat
    BY <1>2, SeqIs
  <2>2. QED
    BY <1>6, <1>7, <2>1, CollapsedDistinct
<1>10. /\ \A k \in 1..Len(out) : Said(out[k])
       /\ \A p, r \in 1..Len(out) : SameValue(out[p], out[r]) => p = r
  <2>1. CASE declared = "one"
    <3>1. PICK n \in 1..Len(d), f \in Fact : SameFact(f, d[n]) /\ Settle("one", d) = <<f>>
      BY <1>6, SettleOne
    <3> DEFINE s == <<f>>
    <3>2. Len(s) = 1 /\ s[1] = f
      OBVIOUS
    <3>3. out = s
      BY <1>4, <2>1, <3>1
    <3> HIDE DEF s, Said
    <3>4. Len(out) = 1 /\ out[1] = f
      BY <3>2, <3>3
    <3>5. Said(f)
      BY <1>8, <3>1 DEF Said, SameFact
    <3>6. QED
      BY <3>4, <3>5
  <2>2. CASE declared # "one"
    <3>1. Len(out) = Len(d) /\ \A n \in 1..Len(d) : SameFact(out[n], d[n])
      BY <1>4, <1>6, <2>2, SettleMany
    <3>2. \A k \in 1..Len(out) : Said(out[k])
      BY <1>8, <3>1 DEF SameFact
    <3>3. \A p, r \in 1..Len(out) : SameValue(out[p], out[r]) => SameValue(d[p], d[r])
      BY <3>1 DEF SameFact, SameValue
    <3>4. QED
      BY <1>9, <3>1, <3>2, <3>3
  <2>3. QED
    BY <2>1, <2>2
<1>11. QED
  BY <1>1, <1>10 DEF out, slot, Settles

\* The blocks, one after the other: every fact of theirs, each at one place.
LEMMA DoneLists ==
  ASSUME NEW slots \in Seq(Slot), NEW block, NEW done,
         BlockOfEach(slots, block), Concatenates(done, slots, block)
  PROVE  LET F == done[Len(slots)] IN
         /\ F \in Seq(Fact)
         /\ \A p \in 1..Len(F) : \E t \in 1..Len(slots) : \E k \in 1..Len(block[t]) :
              F[p] = block[t][k]
         /\ \A t \in 1..Len(slots) : \A k \in 1..Len(block[t]) :
              \E p \in 1..Len(F) : F[p] = block[t][k]
         /\ \A p, r \in 1..Len(F) :
              SlotOf(F[p]) = SlotOf(F[r]) /\ SameValue(F[p], F[r]) => p = r
<1> DEFINE N == Len(slots)
           Onto(F, n) == \A p \in 1..Len(F) : \E t \in 1..n : \E k \in 1..Len(block[t]) :
                           F[p] = block[t][k]
           Into(F, n) == \A t \in 1..n : \A k \in 1..Len(block[t]) :
                           \E p \in 1..Len(F) : F[p] = block[t][k]
           Once(F) == \A p, r \in 1..Len(F) :
                        SlotOf(F[p]) = SlotOf(F[r]) /\ SameValue(F[p], F[r]) => p = r
           Fine(n) == done[n] \in Seq(Fact) /\ Onto(done[n], n) /\ Into(done[n], n) /\ Once(done[n])
           S == {n \in 0..N : Fine(n)}
<1>1. N \in Nat
  BY SeqIs
<1>0. /\ \A p, r \in 1..N : slots[p] = slots[r] => p = r
      /\ \A t \in 1..N :
           /\ block[t] \in Seq(Fact)
           /\ \A k \in 1..Len(block[t]) : SlotOf(block[t][k]) = slots[t]
           /\ \A p, r \in 1..Len(block[t]) : SameValue(block[t][p], block[t][r]) => p = r
      /\ done[0] = << >> /\ \A t \in 1..N : done[t] = done[t - 1] \o block[t]
  BY DEF BlockOfEach, Concatenates
<1>2. 0 \in S
  <2> DEFINE F == done[0]
  <2>1. F \in Seq(Fact) /\ Len(F) = 0
    BY <1>0, EmptySeq
  <2> HIDE DEF F
  <2>2. 1..Len(F) = {} /\ 1..0 = {}
    BY <2>1
  <2>3. Onto(F, 0) /\ Into(F, 0) /\ Once(F)
    BY <2>2
  <2>4. Fine(0)
    BY <2>1, <2>3 DEF F
  <2>5. 0 \in 0..N
    BY <1>1
  <2> HIDE DEF Fine
  <2>6. QED
    BY <2>4, <2>5
<1>3. ASSUME NEW n \in 1..N, n - 1 \in S
      PROVE  n \in S
  <2> DEFINE s == done[n - 1]
             u == block[n]
             F == s \o u
             K == Len(s)
             M == Len(u)
  <2>1. n \in 0..N /\ n - 1 \in 0..N /\ 1..n = (1..(n - 1)) \cup {n} /\ n \notin 1..(n - 1)
        /\ 1..(n - 1) \subseteq 1..N
    BY <1>1
  <2>2. s \in Seq(Fact) /\ Onto(s, n - 1) /\ Into(s, n - 1) /\ Once(s)
    BY <1>3
  <2>3. /\ u \in Seq(Fact) /\ done[n] = F
        /\ \A k \in 1..M : SlotOf(u[k]) = slots[n]
        /\ \A p, r \in 1..M : SameValue(u[p], u[r]) => p = r
    BY <1>0, <1>1
  <2> HIDE DEF s
  <2>4. /\ F \in Seq(Fact) /\ Len(F) = K + M /\ K \in Nat /\ M \in Nat
        /\ \A k \in 1..K : F[k] = s[k]
        /\ \A k \in 1..M : F[K + k] = u[k]
    BY <2>2, <2>3, Concat, SeqIs
  <2>5. \A p \in 1..(K + M) : p \in 1..K \/ (p - K \in 1..M /\ p = K + (p - K))
    BY <2>4
  <2>6. (\A p \in 1..K : p \in 1..(K + M)) /\ \A p \in 1..M : K + p \in 1..(K + M)
    BY <2>4
  <2> HIDE DEF F, K, M, u
  <2>7. \A p \in 1..K : \E t \in 1..(n - 1) : F[p] = s[p] /\ SlotOf(F[p]) = slots[t]
    <3> TAKE p \in 1..K
    <3>1. PICK t \in 1..(n - 1) : \E k \in 1..Len(block[t]) : s[p] = block[t][k]
      BY <2>2 DEF K
    <3>2. SlotOf(s[p]) = slots[t]
      BY <1>0, <2>1, <3>1
    <3>3. QED
      BY <2>4, <3>2
  <2>8. \A p \in 1..K : F[p] = s[p] /\ SlotOf(F[p]) # slots[n]
    BY <1>0, <2>1, <2>7
  <2>9. Onto(F, n)
    <3> SUFFICES ASSUME NEW p \in 1..(K + M)
                 PROVE  \E t \in 1..n : \E k \in 1..Len(block[t]) : F[p] = block[t][k]
      BY <2>4
    <3>1. CASE p \in 1..K
      <4>1. \E t \in 1..(n - 1) : \E k \in 1..Len(block[t]) : s[p] = block[t][k]
        BY <2>2, <3>1 DEF K
      <4>2. QED
        BY <2>1, <2>8, <3>1, <4>1
    <3>2. CASE p - K \in 1..M /\ p = K + (p - K)
      <4>1. F[p] = u[p - K]
        BY <2>4, <3>2
      <4>2. QED
        BY <2>1, <3>2, <4>1 DEF u, M
    <3>3. QED
      BY <2>5, <3>1, <3>2
  <2>10. Into(F, n)
    <3>1. ASSUME NEW t \in 1..n, NEW k \in 1..Len(block[t])
          PROVE  \E p \in 1..(K + M) : F[p] = block[t][k]
      <4>1. CASE t \in 1..(n - 1)
        <5>1. \E p \in 1..K : s[p] = block[t][k]
          BY <2>2, <4>1 DEF K
        <5>2. QED
          BY <2>6, <2>8, <5>1
      <4>2. CASE t = n
        <5>1. k \in 1..M /\ block[t][k] = u[k]
          BY <4>2 DEF M, u
        <5>2. QED
          BY <2>4, <2>6, <5>1
      <4>3. QED
        BY <2>1, <4>1, <4>2
    <3>2. Len(F) = K + M
      BY <2>4
    <3>3. QED
      BY <3>1, <3>2
  <2>11. Once(F)
    <3> SUFFICES ASSUME NEW p \in 1..(K + M), NEW r \in 1..(K + M),
                        SlotOf(F[p]) = SlotOf(F[r]), SameValue(F[p], F[r])
                 PROVE  p = r
      BY <2>4
    <3>1. \A q \in 1..(K + M) : q \notin 1..K =>
            q - K \in 1..M /\ F[q] = u[q - K] /\ SlotOf(F[q]) = slots[n]
      BY <2>3, <2>4, <2>5
    <3>2. CASE p \in 1..K /\ r \in 1..K
      BY <2>2, <2>8, <3>2 DEF K
    <3>3. CASE p \notin 1..K /\ r \notin 1..K
      <4>1. p - K = r - K
        BY <2>3, <3>1, <3>3
      <4>2. QED
        BY <2>4, <4>1
    <3>4. QED
      BY <2>8, <3>1, <3>2, <3>3
  <2>12. Fine(n)
    BY <2>3, <2>4, <2>9, <2>10, <2>11
  <2> HIDE DEF Fine
  <2>13. QED
    BY <2>1, <2>12
<1> HIDE DEF S
<1>4. \A n \in 0..N : n \in S
  <2> HIDE DEF N
  <2>1. QED
    BY <1>1, <1>2, <1>3, Induct
<1>5. Fine(N)
  <2> HIDE DEF N, Fine
  <2>1. N \in S
    BY <1>1, <1>4
  <2>2. QED
    BY <2>1 DEF S
<1>6. QED
  BY <1>5

-----------------------------------------------------------------------------
(* A second pass changes nothing.                                          *)

Blocks(es, fs) == [t \in 1..Len(SlotOrder(fs)) |-> Settled(es, fs, SlotOrder(fs)[t])]

\* What reconcileExtraction returns, slot by slot.
LEMMA ReconciledIs ==
  ASSUME NEW x \in Extraction
  PROVE  LET es == Entities(x.entities)
             fs == Referenced(es, x.facts)
             slots == SlotOrder(fs)
             block == Blocks(es, fs)
             F == Reconcile(x).facts
         IN /\ es \in Seq(Entity) /\ fs \in Seq(Fact) /\ F \in Seq(Fact)
            /\ Reconcile(x).entities = es
            /\ F = DoneAfter(es, fs, slots)[Len(slots)]
            /\ SlotOrder(F) = slots
            /\ \A t \in 1..Len(slots) : Group(slots[t], F) = block[t]
            /\ \A p \in 1..Len(F) : \E t \in 1..Len(slots) : \E k \in 1..Len(block[t]) :
                 F[p] = block[t][k]
            /\ \A t \in 1..Len(slots) : \A k \in 1..Len(block[t]) :
                 \E p \in 1..Len(F) : F[p] = block[t][k]
            /\ \A p, r \in 1..Len(F) :
                 SlotOf(F[p]) = SlotOf(F[r]) /\ SameValue(F[p], F[r]) => p = r
<1> DEFINE es == Entities(x.entities)
           fs == Referenced(es, x.facts)
           slots == SlotOrder(fs)
           block == Blocks(es, fs)
           done == DoneAfter(es, fs, slots)
           F == Reconcile(x).facts
<1>1. x.entities \in Seq(Entity) /\ x.facts \in Seq(Fact)
  BY DEF Extraction
<1>2. Reconcile(x) = [entities |-> es, facts |-> done[Len(slots)]]
  BY DEF Reconcile, Loop, DoneAfter
<1>3. es \in Seq(Entity)
  BY <1>1, EntitiesKept
<1> HIDE DEF es
<1>4. fs \in Seq(Fact)
  BY <1>1, ReferencedLists
<1>5. F = done[Len(slots)] /\ Reconcile(x).entities = es
  BY <1>2
<1> HIDE DEF fs, F
<1>6. /\ slots \in Seq(Slot)
      /\ \A p, r \in 1..Len(slots) : slots[p] = slots[r] => p = r
  BY <1>4, SlotOrderLists DEF SlotsListed
<1>7. \A t \in 1..Len(slots) : block[t] = Settled(es, fs, slots[t]) /\ Settles(block[t], fs, slots[t])
  BY <1>4, SettledSound DEF Blocks
<1> HIDE DEF slots, block
<1>8. BlockOfEach(slots, block)
  <2>1. \A t \in 1..Len(slots) :
          /\ block[t] \in Seq(Fact) /\ Len(block[t]) >= 1
          /\ \A k \in 1..Len(block[t]) : SlotOf(block[t][k]) = slots[t]
          /\ \A p, r \in 1..Len(block[t]) : SameValue(block[t][p], block[t][r]) => p = r
    BY <1>7 DEF Settles
  <2>2. QED
    BY <1>6, <2>1 DEF BlockOfEach
<1>9. Concatenates(done, slots, block)
  <2>1. \A t \in 1..Len(slots) : Settled(es, fs, slots[t]) \in Seq(Fact)
    BY <1>7 DEF Settles
  <2>2. /\ done[0] = << >>
        /\ \A t \in 1..Len(slots) : done[t] = done[t - 1] \o Settled(es, fs, slots[t])
        /\ \A t \in 0..Len(slots) : done[t] \in Seq(Fact)
    BY <1>6, <2>1, DoneRounds
  <2> HIDE DEF done
  <2>3. QED
    BY <1>7, <2>2 DEF Concatenates
<1> HIDE DEF done
<1> DEFINE G == done[Len(slots)]
<1>10. SlotOrder(G) = slots /\ \A t \in 1..Len(slots) : Group(slots[t], G) = block[t]
  BY <1>6, <1>8, <1>9, Flattened
<1>11. /\ G \in Seq(Fact)
       /\ \A p \in 1..Len(G) : \E t \in 1..Len(slots) : \E k \in 1..Len(block[t]) :
            G[p] = block[t][k]
       /\ \A t \in 1..Len(slots) : \A k \in 1..Len(block[t]) :
            \E p \in 1..Len(G) : G[p] = block[t][k]
       /\ \A p, r \in 1..Len(G) :
            SlotOf(G[p]) = SlotOf(G[r]) /\ SameValue(G[p], G[r]) => p = r
  BY <1>6, <1>8, <1>9, DoneLists
<1>12. F = G
  BY <1>5
<1> HIDE DEF G
<1>13. QED
  BY <1>3, <1>4, <1>5, <1>10, <1>11, <1>12 DEF es, fs, slots, block, done, F

LEMMA UsableSame ==
  ASSUME NEW es, NEW f, NEW k, SlotOf(f) = SlotOf(k), f.value = k.value, Usable(es, f)
  PROVE  Usable(es, k)
  BY DEF Usable, SlotOf

\* A second pass finds the entities, the facts, their slots and the groups it
\* would make itself.
LEMMA ReconcileAgain ==
  ASSUME NEW x \in Extraction
  PROVE  Reconcile(Reconcile(x)) = Reconcile(x)
<1> DEFINE es == Entities(x.entities)
           fs == Referenced(es, x.facts)
           slots == SlotOrder(fs)
           block == Blocks(es, fs)
           y == Reconcile(x)
           F == y.facts
<1>1. /\ es \in Seq(Entity) /\ fs \in Seq(Fact) /\ F \in Seq(Fact)
      /\ y.entities = es
      /\ F = DoneAfter(es, fs, slots)[Len(slots)]
      /\ SlotOrder(F) = slots
      /\ \A t \in 1..Len(slots) : Group(slots[t], F) = block[t]
      /\ \A p \in 1..Len(F) : \E t \in 1..Len(slots) : \E k \in 1..Len(block[t]) :
           F[p] = block[t][k]
  BY ReconciledIs
<1>2. x.entities \in Seq(Entity) /\ x.facts \in Seq(Fact)
  BY DEF Extraction
<1>3. Entities(es) = es
  BY <1>2, EntitiesKept, EntitiesAgain
<1>4. y = [entities |-> es, facts |-> F]
  <2>1. y = [entities |-> y.entities, facts |-> y.facts]
    BY DEF Reconcile
  <2>2. QED
    BY <1>1, <2>1
<1>5. \A m \in 1..Len(fs) : Usable(es, fs[m]) /\ fs[m].value.form # "raw"
  BY <1>2, ReferencedSound
<1> HIDE DEF es, fs, y, F
<1>6. slots \in Seq(Slot)
  BY <1>1, SlotOrderLists
<1>7. \A t \in 1..Len(slots) : block[t] = Settled(es, fs, slots[t]) /\ Settles(block[t], fs, slots[t])
  BY <1>1, SettledSound DEF Blocks
<1> HIDE DEF slots, block
<1>8. \A p \in 1..Len(F) : Usable(es, F[p]) /\ Normalized(F[p]) = F[p]
  <2> TAKE p \in 1..Len(F)
  <2>1. PICK t \in 1..Len(slots) : \E k \in 1..Len(block[t]) : F[p] = block[t][k]
    BY <1>1
  <2> DEFINE out == block[t]
  <2>2. \E m \in 1..Len(fs) : SlotOf(fs[m]) = SlotOf(F[p]) /\ fs[m].value = F[p].value
    <3>1. Settles(out, fs, slots[t])
      BY <1>7
    <3>2. PICK k \in 1..Len(out) : F[p] = out[k]
      BY <2>1
    <3> HIDE DEF out
    <3>3. SlotOf(out[k]) = slots[t]
          /\ \E m \in 1..Len(fs) : SlotOf(fs[m]) = slots[t] /\ fs[m].value = out[k].value
      BY <3>1, <3>2 DEF Settles
    <3>4. QED
      BY <3>2, <3>3
  <2>3. F[p] \in Fact
    BY <1>1, SeqIs
  <2>4. Usable(es, F[p])
    BY <1>5, <2>2, UsableSame
  <2>5. F[p].value.form # "raw"
    BY <1>5, <2>2
  <2>6. QED
    BY <2>3, <2>4, <2>5, NormalizedIs
<1>9. Referenced(es, F) = F
  BY <1>1, <1>8, ReferencedAgain
<1>10. \A t \in 1..Len(slots) : Settled(es, F, slots[t]) = Settled(es, fs, slots[t])
  <2> TAKE t \in 1..Len(slots)
  <2> DEFINE declared == DeclaredFor(es, slots[t])
             d == Collapse(Group(slots[t], fs))
  <2>1. Collapse(Group(slots[t], F)) = block[t]
    <3>1. Group(slots[t], F) = block[t]
      BY <1>1
    <3>2. block[t] \in Seq(Fact)
          /\ \A p, r \in 1..Len(block[t]) : SameValue(block[t][p], block[t][r]) => p = r
      BY <1>7 DEF Settles
    <3>3. QED
      BY <3>1, <3>2, CollapseAgain
  <2>2. Settled(es, F, slots[t]) = Settle(declared, block[t])
    BY <2>1 DEF Settled
  <2>3. block[t] = Settle(declared, d)
    BY <1>7 DEF Settled
  <2>4. d \in Seq(Fact) /\ Len(d) >= 1
    <3>1. Group(slots[t], fs) \in Seq(Fact) /\ Len(Group(slots[t], fs)) >= 1
      BY <1>1, GroupSome DEF slots
    <3>2. QED
      BY <3>1, CollapseSome
  <2> HIDE DEF d, declared
  <2>5. Settle(declared, Settle(declared, d)) = Settle(declared, d)
    BY <2>4, SettleAgain
  <2>6. QED
    BY <1>7, <2>2, <2>3, <2>5
<1>11. DoneAfter(es, F, slots)[Len(slots)] = DoneAfter(es, fs, slots)[Len(slots)]
  <2> DEFINE N == Len(slots)
             b == DoneAfter(es, F, slots)
             c == DoneAfter(es, fs, slots)
             S == {n \in 0..N : b[n] = c[n]}
  <2>1. N \in Nat
    BY <1>6, SeqIs
  <2>2. c[0] = << >> /\ \A t \in 1..N : c[t] = c[t - 1] \o Settled(es, fs, slots[t])
    <3>1. \A t \in 1..N : Settled(es, fs, slots[t]) \in Seq(Fact)
      BY <1>7 DEF Settles
    <3>2. QED
      BY <1>6, <3>1, DoneRounds
  <2>3. b[0] = << >> /\ \A t \in 1..N : b[t] = b[t - 1] \o Settled(es, F, slots[t])
    <3>1. \A t \in 1..N : Settled(es, F, slots[t]) \in Seq(Fact)
      BY <1>7, <1>10 DEF Settles
    <3>2. QED
      BY <1>6, <3>1, DoneRounds
  <2> HIDE DEF b, c, N
  <2>4. 0 \in S
    BY <2>1, <2>2, <2>3
  <2>5. \A n \in 1..N : n - 1 \in S => n \in S
    <3> SUFFICES ASSUME NEW n \in 1..N, b[n - 1] = c[n - 1]
                 PROVE  b[n] = c[n]
      BY <2>1
    <3>1. Settled(es, F, slots[n]) = Settled(es, fs, slots[n])
      BY <1>10 DEF N
    <3>2. QED
      BY <2>2, <2>3, <3>1
  <2> HIDE DEF S
  <2>6. \A n \in 0..N : n \in S
    BY <2>1, <2>4, <2>5, Induct
  <2>7. b[N] = c[N]
    BY <2>1, <2>6 DEF S
  <2>8. QED
    BY <2>7 DEF b, c, N
<1>12. Reconcile(y) = [entities |-> es, facts |-> F]
  <2>1. Reconcile(y) = [entities |-> Entities(y.entities),
                        facts |-> DoneAfter(Entities(y.entities),
                                    Referenced(Entities(y.entities), y.facts),
                                    SlotOrder(Referenced(Entities(y.entities), y.facts)))
                                  [Len(SlotOrder(Referenced(Entities(y.entities), y.facts)))]]
    BY DEF Reconcile, Loop, DoneAfter
  <2>2. Entities(y.entities) = es /\ y.facts = F
    BY <1>1, <1>3 DEF F
  <2>3. Reconcile(y) = [entities |-> es, facts |-> DoneAfter(es, F, slots)[Len(slots)]]
    BY <1>1, <1>9, <2>1, <2>2
  <2>4. QED
    BY <1>1, <1>11, <2>3
<1>13. QED
  BY <1>4, <1>12 DEF y

\* The state after each pass.
ReconcileInv ==
  /\ ReconcileTypeOK
  /\ passes = 0 => settled2 = said
  /\ passes = 1 => settled2 = Reconcile(said)
  /\ passes = 2 => settled1 = Reconcile(said) /\ settled2 = Reconcile(Reconcile(said))

LEMMA ReconcileInvHolds == ReconcileSpec => []ReconcileInv
<1>1. ReconcileInit => ReconcileInv
  BY ReconcileTypeInit DEF ReconcileInit, ReconcileInv
<1>2. ReconcileInv /\ [ReconcileNext]_reconcileVars => ReconcileInv'
  <2> SUFFICES ASSUME ReconcileInv, [ReconcileNext]_reconcileVars
               PROVE  ReconcileInv'
    OBVIOUS
  <2>1. ReconcileTypeOK'
    BY ReconcileTypeStep DEF ReconcileInv
  <2>2. passes \in 0..2
    BY DEF ReconcileInv, ReconcileTypeOK
  <2>3. CASE ReconcilePass
    BY <2>1, <2>2, <2>3 DEF ReconcilePass, ReconcileInv
  <2>4. CASE UNCHANGED reconcileVars
    BY <2>1, <2>4 DEF reconcileVars, ReconcileInv
  <2>5. QED
    BY <2>3, <2>4 DEF ReconcileNext
<1>3. QED
  BY <1>1, <1>2, PTL DEF ReconcileSpec

\* reconcileExtraction is idempotent: reconciling what it returned returns it
\* again, every fact with its cardinality and in its place.
THEOREM SecondPassChangesNothing == ReconcileSpec => []ReconcileIsStable
<1>1. ReconcileInv => ReconcileIsStable
  <2> SUFFICES ASSUME ReconcileInv, passes = 2 PROVE settled2 = settled1
    BY DEF ReconcileIsStable
  <2>1. said \in Extraction
    BY DEF ReconcileInv, ReconcileTypeOK
  <2>2. Reconcile(Reconcile(said)) = Reconcile(said)
    BY <2>1, ReconcileAgain
  <2>3. QED
    BY <2>2 DEF ReconcileInv
<1>2. QED
  BY <1>1, ReconcileInvHolds, PTL

-----------------------------------------------------------------------------
(* What was promised, position by position of the message.                 *)

\* What Promised says of a message, of its facts' positions.
Heard(es, raw) == UsableAt(es, raw, Len(raw))
SaidAlike(es, raw, n) ==
  {k \in Heard(es, raw) :
     /\ SlotOf(Normalized(raw[k])) = SlotOf(Normalized(raw[n]))
     /\ ValueSlot(Normalized(raw[k]).value) = ValueSlot(Normalized(raw[n]).value)}
FirstSaid(es, raw) == {n \in Heard(es, raw) : \A k \in SaidAlike(es, raw, n) : n <= k}
BestOf(es, raw, n) ==
  CHOOSE c \in {Normalized(raw[k]).conf : k \in SaidAlike(es, raw, n)} :
    \A k \in SaidAlike(es, raw, n) : Normalized(raw[k]).conf <= c
Rivals(es, raw, n) ==
  {k \in FirstSaid(es, raw) : SlotOf(Normalized(raw[k])) = SlotOf(Normalized(raw[n]))}
Wins(es, raw, n) ==
  \A k \in Rivals(es, raw, n) :
    \/ BestOf(es, raw, k) < BestOf(es, raw, n)
    \/ BestOf(es, raw, k) = BestOf(es, raw, n) /\ n <= k
KeptOf(es, raw) ==
  {n \in FirstSaid(es, raw) :
     DeclaredFor(es, SlotOf(Normalized(raw[n]))) = "one" => Wins(es, raw, n)}
PromisedOf(es, raw, n) ==
  <<SlotOf(Normalized(raw[n])), Normalized(raw[n]).value, BestOf(es, raw, n)>>

LEMMA PromisedIs ==
  ASSUME said.facts \in Seq(Fact)
  PROVE  Promised = {PromisedOf(Entities(said.entities), said.facts, n) :
                       n \in KeptOf(Entities(said.entities), said.facts)}
<1>1. DOMAIN said.facts = 1..Len(said.facts)
  BY SeqIs
<1>2. QED
  BY <1>1 DEF Promised, PromisedOf, KeptOf, Wins, Rivals, BestOf, FirstSaid, SaidAlike, Heard, UsableAt

Triple(f) == <<SlotOf(f), f.value, f.conf>>

\* w says where in the message each fact of the slot's group was said.
FromMessage(g, w, es, raw, slot) ==
  /\ w \in [1..Len(g) -> Heard(es, raw)]
  /\ \A p, r \in 1..Len(g) : p < r => w[p] < w[r]
  /\ \A p \in 1..Len(g) :
       g[p] = Normalized(raw[w[p]]) /\ SlotOf(Normalized(raw[w[p]])) = slot
  /\ \A n \in Heard(es, raw) :
       SlotOf(Normalized(raw[n])) = slot => \E p \in 1..Len(g) : w[p] = n

LEMMA GroupFrom ==
  ASSUME NEW es, NEW raw \in Seq(Fact), NEW slot
  PROVE  \E w : FromMessage(Group(slot, Referenced(es, raw)), w, es, raw, slot)
<1> DEFINE fs == Referenced(es, raw)
           g == Group(slot, fs)
           src == NormalizedAt(raw)
           of == OfSlot(slot, fs, Len(fs))
<1>1. fs \in Seq(Fact)
  BY ReferencedLists
<1>2. PICK at : ListsAt(fs, at, src, Heard(es, raw))
  BY ReferencedLists DEF ListedBy, Heard
<1>3. g \in Seq(Fact) /\ ListedBy(g, fs, of)
  BY <1>1, GroupLists
<1>4. PICK ag : ListsAt(g, ag, fs, of)
  BY <1>3 DEF ListedBy
<1> DEFINE w == [p \in 1..Len(g) |-> at[ag[p]]]
<1>5. \A n \in Heard(es, raw) : n \in 1..Len(raw) /\ src[n] = Normalized(raw[n])
  BY DEF Heard, UsableAt, NormalizedAt
<1> HIDE DEF src
<1>6. of = {m \in 1..Len(fs) : SlotOf(fs[m]) = slot}
  BY DEF OfSlot
<1> HIDE DEF fs, g, of
<1>7. \A m \in 1..Len(fs) : at[m] \in Heard(es, raw) /\ fs[m] = Normalized(raw[at[m]])
  BY <1>2, <1>5 DEF ListsAt
<1>8. \A p \in 1..Len(g) : /\ ag[p] \in 1..Len(fs) /\ SlotOf(fs[ag[p]]) = slot /\ g[p] = fs[ag[p]]
  BY <1>4, <1>6 DEF ListsAt
<1>9. w \in [1..Len(g) -> Heard(es, raw)]
  BY <1>7, <1>8
<1>10. \A p \in 1..Len(g) : w[p] = at[ag[p]]
  OBVIOUS
<1> HIDE DEF w
<1>11. \A p, r \in 1..Len(g) : p < r => w[p] < w[r]
  <2> TAKE p, r \in 1..Len(g)
  <2> HAVE p < r
  <2>1. ag[p] < ag[r]
    BY <1>4 DEF ListsAt
  <2>2. at[ag[p]] < at[ag[r]]
    BY <1>2, <1>8, <2>1 DEF ListsAt
  <2>3. QED
    BY <1>10, <2>2
<1>12. \A p \in 1..Len(g) :
         g[p] = Normalized(raw[w[p]]) /\ SlotOf(Normalized(raw[w[p]])) = slot
  BY <1>7, <1>8, <1>10
<1>13. \A n \in Heard(es, raw) :
         SlotOf(Normalized(raw[n])) = slot => \E p \in 1..Len(g) : w[p] = n
  <2> TAKE n \in Heard(es, raw)
  <2> HAVE SlotOf(Normalized(raw[n])) = slot
  <2>1. PICK m \in 1..Len(fs) : at[m] = n
    BY <1>2 DEF ListsAt
  <2>2. m \in of
    BY <1>6, <1>7, <2>1
  <2>3. PICK p \in 1..Len(g) : ag[p] = m
    BY <1>4, <2>2 DEF ListsAt
  <2>4. QED
    BY <1>10, <2>1, <2>3
<1>14. FromMessage(g, w, es, raw, slot)
  BY <1>9, <1>11, <1>12, <1>13 DEF FromMessage
<1>15. QED
  BY <1>14 DEF g, fs

\* The values of a collapsed group and the facts that said them first.
StandsFor(d, w, first, es, raw, slot) ==
  /\ \A p \in 1..Len(d) :
       /\ w[first[p]] \in FirstSaid(es, raw)
       /\ SlotOf(Normalized(raw[w[first[p]]])) = slot
       /\ SlotOf(d[p]) = slot
       /\ d[p].value = Normalized(raw[w[first[p]]]).value
       /\ d[p].conf = BestOf(es, raw, w[first[p]])
  /\ \A p, r \in 1..Len(d) : p < r => w[first[p]] < w[first[r]]
  /\ \A n \in FirstSaid(es, raw) :
       SlotOf(Normalized(raw[n])) = slot => \E p \in 1..Len(d) : n = w[first[p]]

LEMMA CollapsedStandsFor ==
  ASSUME NEW es, NEW raw \in Seq(Fact), NEW slot, NEW g \in Seq(Fact), NEW w,
         FromMessage(g, w, es, raw, slot),
         NEW d \in Seq(Fact), NEW first, CollapsedAt(d, first, g, Len(g))
  PROVE  StandsFor(d, w, first, es, raw, slot)
<1> DEFINE norm(n) == Normalized(raw[n])
           M == Len(g)
<1>1. M \in Nat
  BY SeqIs
<1>2. \A n \in Heard(es, raw) : n \in Nat /\ norm(n) \in Fact /\ norm(n).conf \in Nat
  <2> TAKE n \in Heard(es, raw)
  <2>1. n \in 1..Len(raw)
    BY DEF Heard, UsableAt
  <2>2. raw[n] \in Fact
    BY <2>1, SeqIs
  <2>3. norm(n) \in Fact
    BY <2>2, NormalizedFact
  <2>4. QED
    BY <2>1, <2>3 DEF Fact
<1>3. /\ \A i \in 1..M : w[i] \in Heard(es, raw) /\ g[i] = norm(w[i]) /\ SlotOf(norm(w[i])) = slot
      /\ \A i, j \in 1..M : i < j => w[i] < w[j]
      /\ \A n \in Heard(es, raw) : SlotOf(norm(n)) = slot => \E i \in 1..M : w[i] = n
  BY DEF FromMessage
<1>4. \A i, j \in 1..M : i <= j => w[i] <= w[j]
  <2> TAKE i, j \in 1..M
  <2> HAVE i <= j
  <2>1. w[i] \in Nat /\ w[j] \in Nat
    BY <1>2, <1>3
  <2>2. i = j \/ i < j
    BY <1>1
  <2>3. QED
    BY <1>3, <2>1, <2>2
<1> HIDE DEF norm, M
\* The positions of the message that say what the j-th of the group says.
<1>5. \A j \in 1..M : SaidAlike(es, raw, w[j]) = {w[i] : i \in {i \in 1..M : SameValue(g[i], g[j])}}
  <2> TAKE j \in 1..M
  <2>1. SaidAlike(es, raw, w[j]) =
          {k \in Heard(es, raw) : SlotOf(norm(k)) = SlotOf(norm(w[j]))
                                  /\ ValueSlot(norm(k).value) = ValueSlot(norm(w[j]).value)}
    BY DEF SaidAlike, norm
  <2>2. \A i \in 1..M : SameValue(g[i], g[j]) <=>
                          ValueSlot(norm(w[i]).value) = ValueSlot(norm(w[j]).value)
    BY <1>3 DEF SameValue
  <2>3. SlotOf(norm(w[j])) = slot
    BY <1>3
  <2>4. ASSUME NEW k \in SaidAlike(es, raw, w[j])
        PROVE  \E i \in 1..M : SameValue(g[i], g[j]) /\ k = w[i]
    <3>1. k \in Heard(es, raw) /\ SlotOf(norm(k)) = slot
          /\ ValueSlot(norm(k).value) = ValueSlot(norm(w[j]).value)
      BY <2>1, <2>3
    <3>2. PICK i \in 1..M : w[i] = k
      BY <1>3, <3>1
    <3>3. QED
      BY <2>2, <3>1, <3>2
  <2>5. ASSUME NEW i \in 1..M, SameValue(g[i], g[j])
        PROVE  w[i] \in SaidAlike(es, raw, w[j])
    BY <1>3, <2>1, <2>2, <2>5
  <2>6. QED
    BY <2>4, <2>5
<1>6. ASSUME NEW p \in 1..Len(d)
      PROVE  /\ first[p] \in 1..M
             /\ w[first[p]] \in FirstSaid(es, raw)
             /\ d[p].conf = BestOf(es, raw, w[first[p]])
             /\ SlotOf(d[p]) = slot
             /\ d[p].value = norm(w[first[p]]).value
  <2> DEFINE j == first[p]
             n == w[j]
             same == {i \in 1..M : SameValue(g[i], g[j])}
  <2>1. j \in 1..M
    BY DEF CollapsedAt, M
  <2>2. \A i \in same : j <= i /\ g[i].conf <= d[p].conf
    BY DEF CollapsedAt, M
  <2>3. \E i \in same : g[i].conf = d[p].conf
    BY DEF CollapsedAt, M
  <2>4. SlotOf(d[p]) = SlotOf(g[j]) /\ d[p].value = g[j].value
    BY DEF CollapsedAt
  <2> HIDE DEF j
  <2>5. SaidAlike(es, raw, n) = {w[i] : i \in same}
    BY <1>5, <2>1
  <2>6. n \in FirstSaid(es, raw)
    <3>1. n \in Heard(es, raw)
      BY <1>3, <2>1
    <3>2. \A k \in SaidAlike(es, raw, n) : n <= k
      BY <1>4, <2>1, <2>2, <2>5
    <3>3. QED
      BY <3>1, <3>2 DEF FirstSaid
  <2> DEFINE confs == {norm(k).conf : k \in SaidAlike(es, raw, n)}
  <2>7. \A i \in same : norm(w[i]).conf = g[i].conf /\ g[i].conf \in Nat
    BY <1>2, <1>3
  <2>8. d[p].conf \in confs /\ d[p].conf \in Nat
    BY <2>3, <2>5, <2>7
  <2>9. \A k \in SaidAlike(es, raw, n) : norm(k).conf <= d[p].conf /\ norm(k).conf \in Nat
    BY <2>2, <2>5, <2>7
  <2>10. BestOf(es, raw, n) = CHOOSE c \in confs : \A k \in SaidAlike(es, raw, n) : norm(k).conf <= c
    BY DEF BestOf, norm
  <2>11. \A c \in confs : c \in Nat /\ c <= d[p].conf
    BY <2>9
  <2>12. \A c \in confs : (\A k \in SaidAlike(es, raw, n) : norm(k).conf <= c) => d[p].conf <= c
    BY <2>8
  <2> HIDE DEF confs
  <2>13. BestOf(es, raw, n) \in confs
         /\ \A k \in SaidAlike(es, raw, n) : norm(k).conf <= BestOf(es, raw, n)
    BY <2>8, <2>9, <2>10
  <2>14. BestOf(es, raw, n) = d[p].conf
    BY <2>8, <2>11, <2>12, <2>13
  <2>15. SlotOf(d[p]) = slot /\ d[p].value = norm(n).value
    BY <1>3, <2>1, <2>4
  <2>16. QED
    BY <2>1, <2>6, <2>14, <2>15 DEF j
<1>7. ASSUME NEW p \in 1..Len(d), NEW r \in 1..Len(d), p < r
      PROVE  w[first[p]] < w[first[r]]
  <2>1. first[p] < first[r]
    BY <1>7 DEF CollapsedAt
  <2>2. QED
    BY <1>3, <1>6, <2>1
<1>8. ASSUME NEW n \in FirstSaid(es, raw), SlotOf(norm(n)) = slot
      PROVE  \E p \in 1..Len(d) : n = w[first[p]]
  <2>1. n \in Heard(es, raw) /\ \A k \in SaidAlike(es, raw, n) : n <= k
    BY DEF FirstSaid
  <2>2. PICK m \in 1..M : w[m] = n
    BY <1>3, <1>8, <2>1
  <2>3. PICK p \in 1..Len(d) : SameValue(g[m], g[first[p]])
    BY DEF CollapsedAt, M
  <2>4. first[p] \in 1..M
    BY <1>6
  <2>5. SameValue(g[first[p]], g[m])
    BY <2>3 DEF SameValue
  <2>6. w[first[p]] \in SaidAlike(es, raw, n)
    BY <1>5, <2>2, <2>4, <2>5
  <2>7. first[p] <= m
    BY <2>3 DEF CollapsedAt, M
  <2>8. w[first[p]] <= n /\ n <= w[first[p]]
    BY <1>4, <2>1, <2>2, <2>4, <2>6, <2>7
  <2>9. w[first[p]] \in Nat /\ n \in Nat
    BY <1>2, <1>3, <2>1, <2>4
  <2>10. QED
    BY <2>8, <2>9
<1>9. \A p \in 1..Len(d) : SlotOf(norm(w[first[p]])) = slot
  BY <1>3, <1>6
<1>10. QED
  BY <1>6, <1>7, <1>8, <1>9 DEF StandsFor, norm

-----------------------------------------------------------------------------
(* A first pass keeps the promise.                                         *)

\* A settled slot is what was promised of it.
LEMMA SettledPromised ==
  ASSUME NEW es, NEW raw \in Seq(Fact), NEW t \in 1..Len(SlotOrder(Referenced(es, raw)))
  PROVE  LET slot == SlotOrder(Referenced(es, raw))[t]
             out == Settled(es, Referenced(es, raw), slot)
         IN /\ \A k \in 1..Len(out) : \E n \in KeptOf(es, raw) : Triple(out[k]) = PromisedOf(es, raw, n)
            /\ \A n \in KeptOf(es, raw) : SlotOf(Normalized(raw[n])) = slot =>
                 \E k \in 1..Len(out) : Triple(out[k]) = PromisedOf(es, raw, n)
<1> DEFINE fs == Referenced(es, raw)
           slot == SlotOrder(fs)[t]
           g == Group(slot, fs)
           d == Collapse(g)
           declared == DeclaredFor(es, slot)
           out == Settled(es, fs, slot)
           Said(f, n) == Triple(f) = PromisedOf(es, raw, n)
<1>1. fs \in Seq(Fact)
  BY ReferencedLists
<1>2. g \in Seq(Fact) /\ Len(g) >= 1
  BY <1>1, GroupSome
<1>3. PICK w : FromMessage(g, w, es, raw, slot)
  BY GroupFrom
<1>4. out = Settle(declared, d)
  BY DEF Settled
<1> HIDE DEF out, g
<1>5. d \in Seq(Fact) /\ Len(d) >= 1
  BY <1>2, CollapseSome
<1>6. PICK first : CollapsedAt(d, first, g, Len(g))
  BY <1>2, CollapseIs
<1> HIDE DEF d, slot, fs
<1>7. StandsFor(d, w, first, es, raw, slot)
  BY <1>2, <1>3, <1>5, <1>6, CollapsedStandsFor
<1> DEFINE from(p) == w[first[p]]
<1>8. \A p \in 1..Len(d) :
        /\ from(p) \in FirstSaid(es, raw)
        /\ SlotOf(Normalized(raw[from(p)])) = slot
        /\ Said(d[p], from(p))
        /\ d[p].conf = BestOf(es, raw, from(p))
  BY <1>7 DEF StandsFor, Triple, PromisedOf
<1>9. \A p, r \in 1..Len(d) : p < r => from(p) < from(r)
  BY <1>7 DEF StandsFor
<1>10. \A n \in FirstSaid(es, raw) :
         SlotOf(Normalized(raw[n])) = slot => \E p \in 1..Len(d) : n = from(p)
  BY <1>7 DEF StandsFor
<1>11. Len(d) \in Nat /\ \A p \in 1..Len(d) : d[p] \in Fact /\ d[p].conf \in Nat
  <2>1. Len(d) \in Nat /\ \A p \in 1..Len(d) : d[p] \in Fact
    BY <1>5, SeqIs
  <2>2. \A f \in Fact : f.conf \in Nat
    BY DEF Fact
  <2>3. QED
    BY <2>1, <2>2
<1>12. \A f, k, n : SameFact(f, k) /\ Said(k, n) => Said(f, n)
  BY DEF SameFact, Triple
<1> HIDE DEF from, Said, declared
<1>13. CASE declared # "one"
  <2>1. Len(out) = Len(d) /\ \A p \in 1..Len(d) : SameFact(out[p], d[p])
    BY <1>4, <1>5, <1>13, SettleMany
  <2>2. \A p \in 1..Len(d) : Said(out[p], from(p))
    BY <1>8, <1>12, <2>1
  <2>3. \A p \in 1..Len(d) : from(p) \in KeptOf(es, raw)
    BY <1>8, <1>13 DEF KeptOf, declared
  <2>4. \A k \in 1..Len(out) : \E n \in KeptOf(es, raw) : Said(out[k], n)
    BY <2>1, <2>2, <2>3
  <2>5. ASSUME NEW n \in KeptOf(es, raw), SlotOf(Normalized(raw[n])) = slot
        PROVE  \E k \in 1..Len(out) : Said(out[k], n)
    <3>1. n \in FirstSaid(es, raw)
      BY DEF KeptOf
    <3>2. PICK p \in 1..Len(d) : n = from(p)
      BY <1>10, <2>5, <3>1
    <3>3. QED
      BY <2>1, <2>2, <3>2
  <2>6. QED
    BY <2>4, <2>5 DEF Said, out, slot, fs
<1>14. CASE declared = "one"
  <2>1. PICK q \in 1..Len(d), f \in Fact :
          Best(d, q, Len(d)) /\ SameFact(f, d[q]) /\ Settle("one", d) = <<f>>
    BY <1>5, SettleOne
  <2> DEFINE s == <<f>>
  <2>2. Len(s) = 1 /\ s[1] = f
    OBVIOUS
  <2>3. out = s
    BY <1>4, <1>14, <2>1
  <2> HIDE DEF s
  <2>4. Len(out) = 1 /\ out[1] = f
    BY <2>2, <2>3
  <2>5. Said(f, from(q))
    BY <1>8, <1>12, <2>1
  <2>6. \A p, r \in 1..Len(d) : p <= r => from(p) <= from(r)
    <3> TAKE p, r \in 1..Len(d)
    <3> HAVE p <= r
    <3>1. p = r \/ p < r
      BY <1>11
    <3>2. from(p) \in Nat /\ from(r) \in Nat
      BY <1>8 DEF FirstSaid, Heard, UsableAt
    <3>3. QED
      BY <1>9, <3>1, <3>2
  <2>7. \A p \in 1..Len(d) : \/ d[p].conf < d[q].conf
                             \/ d[p].conf = d[q].conf /\ from(q) <= from(p)
    BY <2>1, <2>6 DEF Best
  <2>8. ASSUME NEW n \in FirstSaid(es, raw), SlotOf(Normalized(raw[n])) = slot
        PROVE  Rivals(es, raw, n) = {from(p) : p \in 1..Len(d)}
    <3>1. Rivals(es, raw, n) =
            {k \in FirstSaid(es, raw) : SlotOf(Normalized(raw[k])) = slot}
      BY <2>8 DEF Rivals
    <3>2. QED
      BY <1>8, <1>10, <3>1
  <2>9. from(q) \in KeptOf(es, raw)
    <3>1. \A k \in Rivals(es, raw, from(q)) :
            \/ BestOf(es, raw, k) < BestOf(es, raw, from(q))
            \/ BestOf(es, raw, k) = BestOf(es, raw, from(q)) /\ from(q) <= k
      BY <1>8, <2>7, <2>8
    <3>2. QED
      BY <1>8, <3>1 DEF KeptOf, Wins
  <2>10. ASSUME NEW n \in KeptOf(es, raw), SlotOf(Normalized(raw[n])) = slot
         PROVE  n = from(q)
    <3>1. n \in FirstSaid(es, raw) /\ Wins(es, raw, n)
      BY <1>14, <2>10 DEF KeptOf, declared
    <3>2. PICK p \in 1..Len(d) : n = from(p)
      BY <1>10, <2>10, <3>1
    <3>3. from(q) \in Rivals(es, raw, n)
      BY <2>8, <2>10, <3>1
    <3>4. \/ BestOf(es, raw, from(q)) < BestOf(es, raw, n)
          \/ BestOf(es, raw, from(q)) = BestOf(es, raw, n) /\ n <= from(q)
      BY <3>1, <3>3 DEF Wins
    <3>5. d[q].conf < d[p].conf \/ (d[q].conf = d[p].conf /\ n <= from(q))
      BY <1>8, <3>2, <3>4
    <3>6. d[p].conf \in Nat /\ d[q].conf \in Nat
      BY <1>11
    <3>7. d[p].conf = d[q].conf /\ n <= from(q) /\ from(q) <= n
      BY <2>7, <3>2, <3>5, <3>6
    <3>8. n \in Nat /\ from(q) \in Nat
      BY <1>8, <3>1 DEF FirstSaid, Heard, UsableAt
    <3>9. QED
      BY <3>7, <3>8
  <2>11. \A k \in 1..Len(out) : \E n \in KeptOf(es, raw) : Said(out[k], n)
    BY <2>4, <2>5, <2>9
  <2>12. \A n \in KeptOf(es, raw) : SlotOf(Normalized(raw[n])) = slot =>
           \E k \in 1..Len(out) : Said(out[k], n)
    BY <2>4, <2>5, <2>10
  <2>13. QED
    BY <2>11, <2>12 DEF Said, out, slot, fs
<1>15. QED
  BY <1>13, <1>14

\* A usable fact's slot has a place in the order.
LEMMA SlotOfHeard ==
  ASSUME NEW es, NEW raw \in Seq(Fact), NEW n \in Heard(es, raw)
  PROVE  \E t \in 1..Len(SlotOrder(Referenced(es, raw))) :
           SlotOrder(Referenced(es, raw))[t] = SlotOf(Normalized(raw[n]))
<1> DEFINE fs == Referenced(es, raw)
           src == NormalizedAt(raw)
<1>1. fs \in Seq(Fact)
  BY ReferencedLists
<1>2. PICK at : ListsAt(fs, at, src, Heard(es, raw))
  BY ReferencedLists DEF ListedBy, Heard
<1>3. src[n] = Normalized(raw[n])
  BY DEF Heard, UsableAt, NormalizedAt
<1> HIDE DEF fs, src
<1>4. PICK m \in 1..Len(fs) : at[m] = n
  BY <1>2 DEF ListsAt
<1>5. fs[m] = Normalized(raw[n])
  BY <1>2, <1>3, <1>4 DEF ListsAt
<1>6. \E t \in 1..Len(SlotOrder(fs)) : SlotOrder(fs)[t] = SlotOf(fs[m])
  BY <1>1, SlotOrderLists DEF SlotsListed
<1>7. QED
  BY <1>5, <1>6 DEF fs

LEMMA ReconcilePromised ==
  ASSUME NEW x \in Extraction
  PROVE  LET es == Entities(x.entities)
             F == Reconcile(x).facts
             P == {PromisedOf(es, x.facts, n) : n \in KeptOf(es, x.facts)}
         IN /\ {Triple(F[p]) : p \in 1..Len(F)} = P
            /\ Len(F) = Cardinality(P) /\ DOMAIN F = 1..Len(F)
<1> DEFINE es == Entities(x.entities)
           raw == x.facts
           fs == Referenced(es, raw)
           slots == SlotOrder(fs)
           block == Blocks(es, fs)
           F == Reconcile(x).facts
           P == {PromisedOf(es, raw, n) : n \in KeptOf(es, raw)}
<1>1. /\ F \in Seq(Fact)
      /\ \A p \in 1..Len(F) : \E t \in 1..Len(slots) : \E k \in 1..Len(block[t]) :
           F[p] = block[t][k]
      /\ \A t \in 1..Len(slots) : \A k \in 1..Len(block[t]) :
           \E p \in 1..Len(F) : F[p] = block[t][k]
      /\ \A p, r \in 1..Len(F) :
           SlotOf(F[p]) = SlotOf(F[r]) /\ SameValue(F[p], F[r]) => p = r
  BY ReconciledIs
<1>2. raw \in Seq(Fact)
  BY DEF Extraction
<1> HIDE DEF es, raw, F
<1>3. \A t \in 1..Len(slots) :
        /\ \A k \in 1..Len(block[t]) :
             \E n \in KeptOf(es, raw) : Triple(block[t][k]) = PromisedOf(es, raw, n)
        /\ \A n \in KeptOf(es, raw) : SlotOf(Normalized(raw[n])) = slots[t] =>
             \E k \in 1..Len(block[t]) : Triple(block[t][k]) = PromisedOf(es, raw, n)
  <2> TAKE t \in 1..Len(slots)
  <2>1. block[t] = Settled(es, fs, slots[t])
    BY DEF Blocks
  <2>2. LET out == Settled(es, fs, slots[t])
        IN /\ \A k \in 1..Len(out) : \E n \in KeptOf(es, raw) : Triple(out[k]) = PromisedOf(es, raw, n)
           /\ \A n \in KeptOf(es, raw) : SlotOf(Normalized(raw[n])) = slots[t] =>
                \E k \in 1..Len(out) : Triple(out[k]) = PromisedOf(es, raw, n)
    BY <1>2, SettledPromised
  <2> HIDE DEF block, slots, fs
  <2>3. QED
    BY <2>1, <2>2
<1>4. \A n \in KeptOf(es, raw) : \E t \in 1..Len(slots) : slots[t] = SlotOf(Normalized(raw[n]))
  BY <1>2, SlotOfHeard DEF KeptOf, FirstSaid
<1> HIDE DEF fs, slots, block
<1>5. \A p \in 1..Len(F) : Triple(F[p]) \in P
  BY <1>1, <1>3
<1>6. ASSUME NEW n \in KeptOf(es, raw)
      PROVE  \E p \in 1..Len(F) : Triple(F[p]) = PromisedOf(es, raw, n)
  <2>1. PICK t \in 1..Len(slots) : slots[t] = SlotOf(Normalized(raw[n]))
    BY <1>4
  <2>2. PICK k \in 1..Len(block[t]) : Triple(block[t][k]) = PromisedOf(es, raw, n)
    BY <1>3, <2>1
  <2>3. PICK p \in 1..Len(F) : F[p] = block[t][k]
    BY <1>1
  <2>4. QED
    BY <2>2, <2>3
<1>7. \A c \in P : \E p \in 1..Len(F) : Triple(F[p]) = c
  BY <1>6
<1> HIDE DEF P
<1>8. \A p, r \in 1..Len(F) : Triple(F[p]) = Triple(F[r]) => p = r
  BY <1>1 DEF Triple, SameValue
<1> DEFINE h == [p \in 1..Len(F) |-> Triple(F[p])]
<1>9. h \in Bijection(1..Len(F), P)
  <2>1. h \in [1..Len(F) -> P]
    BY <1>5
  <2>2. \A p \in 1..Len(F) : h[p] = Triple(F[p])
    OBVIOUS
  <2> HIDE DEF h
  <2>3. \A p, r \in 1..Len(F) : h[p] = h[r] => p = r
    BY <1>8, <2>2
  <2>4. \A c \in P : \E p \in 1..Len(F) : h[p] = c
    BY <1>7, <2>2
  <2>5. QED
    BY <2>1, <2>3, <2>4 DEF Bijection, Injection, Surjection, IsInjective
<1>10. Len(F) \in Nat /\ DOMAIN F = 1..Len(F)
  BY <1>1, SeqIs
<1>11. Cardinality(P) = Len(F)
  <2>1. ExistsBijection(1..Len(F), P)
    BY <1>9 DEF ExistsBijection
  <2>2. QED
    BY <1>10, <2>1, FS_CountingElements
<1>12. {Triple(F[p]) : p \in 1..Len(F)} = P
  BY <1>5, <1>7
<1>13. QED
  BY <1>10, <1>11, <1>12 DEF P, F, es, raw

\* One pass over any message returns exactly what the passage promises, each
\* fact once: of a slot declared single the most confident value, the first
\* said of those; of any other slot every value, at its highest confidence.
THEOREM FirstPassKeepsThePromise == ReconcileSpec => []ReconcileMeetsReference
<1>1. ReconcileInv => ReconcileMeetsReference
  <2> SUFFICES ASSUME ReconcileInv, passes = 1 PROVE ReconcileMeetsReference
    BY DEF ReconcileMeetsReference
  <2> DEFINE F == settled2.facts
  <2>1. said \in Extraction /\ settled2 = Reconcile(said)
    BY DEF ReconcileInv, ReconcileTypeOK
  <2>2. said.facts \in Seq(Fact)
    BY <2>1 DEF Extraction
  <2>3. /\ {Triple(F[p]) : p \in 1..Len(F)} = Promised
        /\ Len(F) = Cardinality(Promised) /\ DOMAIN F = 1..Len(F)
    BY <2>1, <2>2, ReconcilePromised, PromisedIs
  <2>4. {Triple(F[p]) : p \in DOMAIN F} = Promised
    BY <2>3
  <2> HIDE DEF F
  <2>5. {<<SlotOf(F[n]), F[n].value, F[n].conf>> : n \in DOMAIN F} = Promised
    BY <2>4 DEF Triple
  <2>6. QED
    BY <2>3, <2>5 DEF ReconcileMeetsReference, F
<1>2. QED
  BY <1>1, ReconcileInvHolds, PTL
================================================================================
