--------------------------- MODULE TableRowsProofs ---------------------------
(***************************************************************************)
(* Proposals, human edits and the rows of entities, for any users,         *)
(* projections, sheets and contents, and any number of operations.         *)
(***************************************************************************)
EXTENDS TableRows, FiniteSetTheorems, TLAPS

-----------------------------------------------------------------------------
(* The inductive invariant.  D is what rows, versions and requests may     *)
(* hold: it grows with what is written.                                    *)

RowOf(D) ==
  [status : {"accepted", "proposed"}, data : D, entity : Entities \cup {NoOne},
   edited : BOOLEAN, target : Nat, agent : BOOLEAN, typed : D]

ProjectorRow ==
  [step : {"idle", "rows", "create", "update"},
   facts : [Entities -> Cells \cup {NoOne}],
   create : SUBSET Entities,
   update : SUBSET (Nat \X (Entities \X (Cells \cup {NoOne})))]
SyncRow ==
  [step : {"idle", "propose"}, facts : [Entities -> Cells \cup {NoOne}],
   create : SUBSET Data, update : SUBSET (Nat \X Data)]
PropRow(D) == [id : Nat, target : Nat, data : D]
UserRow(D) ==
  [step : {"idle", "add", "edit", "delete", "apply", "drop", "wipe", "refill",
           "version"},
   row : Nat, data : D, props : SUBSET PropRow(D), snap : Seq(D)]

\* Row r is there, or was, and waits for nobody's decision.
Settled(rs, r) == r \in DOMAIN rs /\ rs[r].status # "proposed"

\* A projection may rewrite row r: no unplanned edit is lost by it.
Spare(rs, r) == rs[r].edited => rs[r].typed = NoOne

\* What r asks for is a new row, or a change of a live one; only proposals ask.
TargetOk(x, rs) ==
  IF x.status = "proposed"
    THEN /\ x.target = NoRow \/ (x.target \in DOMAIN rs
                                  /\ rs[x.target].status = "accepted")
         /\ x.entity = NoOne
    ELSE x.target = NoRow
TypedOk(x) == x.edited /\ x.typed # NoOne => x.data = x.typed

RowsOk(rs, D) ==
  /\ rs \in Seq(RowOf(D) \cup {Gone})
  /\ \A r \in DOMAIN rs : TargetOk(rs[r], rs) /\ TypedOk(rs[r])

\* What a projection has planned, a sync read, and a user asked for, names rows
\* that have not become something else.
PlanOk(w, rs) == \A x \in w.update : Settled(rs, x[1]) /\ Spare(rs, x[1])
SyncOk(w, rs) == /\ IsFiniteSet(w.create) /\ IsFiniteSet(w.update)
                 /\ \A x \in w.update : Settled(rs, x[1])
AskOk(x, rs) ==
  /\ x.step \in {"edit", "delete"} => Settled(rs, x.row)
  /\ x.step = "drop" => x.row \in DOMAIN rs
  /\ \A p \in x.props : /\ p.id \in DOMAIN rs
                        /\ p.target # NoRow => Settled(rs, p.target)

WorkOk(w, rs) ==
  /\ w \in [Workers -> ProjectorRow \cup SyncRow]
  /\ \A p \in Projectors : w[p] \in ProjectorRow /\ PlanOk(w[p], rs)
  /\ w[Sync] \in SyncRow /\ SyncOk(w[Sync], rs)
UsersOk(x, rs, D) ==
  x \in [Users -> UserRow(D)] /\ \A u \in Users : AskOk(x[u], rs)

Good(D) ==
  /\ Data \subseteq D /\ NoOne \in D
  /\ shows \in [Entities -> Cells]
  /\ RowsOk(rows, D)
  /\ snaps \subseteq Seq(D)
  /\ WorkOk(work, rows)
  /\ UsersOk(user, rows, D)

TablesInv == \E D : Good(D)

-----------------------------------------------------------------------------
(* How rows change.                                                        *)

\* No settled row becomes a proposal, and none is lost from the list.
Kept(rs, rs2) == \A r \in DOMAIN rs : /\ r \in DOMAIN rs2
                                      /\ Settled(rs, r) => Settled(rs2, r)
SparesKept(w, rs, rs2) ==
  \A p \in Projectors : \A x \in w[p].update :
    Spare(rs, x[1]) => Spare(rs2, x[1])

\* No row of an entity comes into being.
NoneLinked(rs, rs2) ==
  \A r \in DOMAIN rs2 :
    rs2[r].status = "accepted" /\ rs2[r].entity # NoOne =>
      /\ r \in DOMAIN rs
      /\ rs[r].status = "accepted" /\ rs[r].entity = rs2[r].entity

\* No proposal ends but those of S and those whose target goes.
OnlyEnds(rs, rs2, S) ==
  \A r \in DOMAIN rs : rs[r].status = "proposed" =>
    \/ r \in DOMAIN rs2 /\ rs2[r].status = "proposed"
    \/ r \in S
    \/ rs[r].target # NoRow /\ rs2[rs[r].target] = Gone

LEMMA GoneIs ==
  /\ Gone.status = "gone" /\ Gone.target = NoRow /\ ~Gone.edited
  /\ Gone.typed = NoOne
  /\ \A D : Gone \notin RowOf(D)
BY DEF Gone, RowOf, NoRow

LEMMA RowsAre ==
  ASSUME NEW D, NEW rs, RowsOk(rs, D)
  PROVE  /\ Len(rs) \in Nat /\ DOMAIN rs = 1..Len(rs)
         /\ \A r \in DOMAIN rs : rs[r] \in RowOf(D) \/ rs[r] = Gone
         /\ \A r \in DOMAIN rs : rs[r] # Gone => rs[r] \in RowOf(D)
BY DEF RowsOk

LEMMA SameRows ==
  ASSUME NEW rs
  PROVE  /\ Kept(rs, rs) /\ NoneLinked(rs, rs) /\ OnlyEnds(rs, rs, {})
         /\ \A w : SparesKept(w, rs, rs)
BY DEF Kept, NoneLinked, OnlyEnds, SparesKept

\* New rows behind those there are.
LEMMA RowsAppend ==
  ASSUME NEW D, NEW rs, RowsOk(rs, D), NEW new \in Seq(RowOf(D)),
         \A k \in DOMAIN new : TargetOk(new[k], rs) /\ ~new[k].edited
  PROVE  /\ RowsOk(rs \o new, D) /\ Kept(rs, rs \o new)
         /\ OnlyEnds(rs, rs \o new, {})
         /\ \A w : (\A p \in Projectors : \A x \in w[p].update : x[1] \in DOMAIN rs)
                     => SparesKept(w, rs, rs \o new)
         /\ (\A k \in DOMAIN new : new[k].entity = NoOne) => NoneLinked(rs, rs \o new)
         /\ DOMAIN (rs \o new) = 1..(Len(rs) + Len(new))
         /\ \A r \in DOMAIN rs : r \in DOMAIN (rs \o new) /\ (rs \o new)[r] = rs[r]
         /\ \A r \in DOMAIN (rs \o new) \ DOMAIN rs :
              r - Len(rs) \in DOMAIN new /\ (rs \o new)[r] = new[r - Len(rs)]
  <1>1. /\ Len(rs) \in Nat /\ DOMAIN rs = 1..Len(rs)
        /\ Len(new) \in Nat /\ DOMAIN new = 1..Len(new)
    BY RowsAre
  <1> DEFINE two == rs \o new
  <1>2. two \in Seq(RowOf(D) \cup {Gone}) /\ DOMAIN two = 1..(Len(rs) + Len(new))
    BY <1>1 DEF RowsOk
  <1>3. \A r \in DOMAIN rs : r \in DOMAIN two /\ two[r] = rs[r]
    BY <1>1, <1>2 DEF RowsOk
  <1>4. \A r \in DOMAIN two \ DOMAIN rs :
          r - Len(rs) \in DOMAIN new /\ two[r] = new[r - Len(rs)]
    BY <1>1, <1>2 DEF RowsOk
  <1> HIDE DEF two
  <1>5. \A x : TargetOk(x, rs) => TargetOk(x, two)
    BY <1>3 DEF TargetOk
  <1>6. RowsOk(two, D)
    BY <1>2, <1>3, <1>4, <1>5 DEF RowsOk, TypedOk
  <1>7. Kept(rs, two) /\ OnlyEnds(rs, two, {})
    BY <1>3 DEF Kept, Settled, OnlyEnds
  <1>8. \A w : (\A p \in Projectors : \A x \in w[p].update : x[1] \in DOMAIN rs)
                  => SparesKept(w, rs, two)
    BY <1>3 DEF SparesKept, Spare
  <1>9. (\A k \in DOMAIN new : new[k].entity = NoOne) => NoneLinked(rs, two)
    BY <1>3, <1>4 DEF NoneLinked
  <1> QED
    BY <1>2, <1>3, <1>4, <1>6, <1>7, <1>8, <1>9 DEF two

\* Rows go, and the proposals that target them.
LEMMA RowsGo ==
  ASSUME NEW D, RowsOk(rows, D), NEW gone, NoRow \notin gone
  PROVE  /\ RowsOk(Without(gone), D) /\ Kept(rows, Without(gone))
         /\ OnlyEnds(rows, Without(gone), gone)
         /\ \A w : (\A p \in Projectors : \A x \in w[p].update : x[1] \in DOMAIN rows)
                     => SparesKept(w, rows, Without(gone))
         /\ NoneLinked(rows, Without(gone))
  <1> DEFINE two == Without(gone)
             going(r) == r \in gone \/ rows[r].target \in gone
  <1>1. Len(rows) \in Nat /\ DOMAIN rows = 1..Len(rows)
    BY RowsAre
  <1>2. /\ DOMAIN two = DOMAIN rows
        /\ \A r \in DOMAIN rows : two[r] = IF going(r) THEN Gone ELSE rows[r]
    BY DEF Without
  <1>3. two \in Seq(RowOf(D) \cup {Gone})
    <2>1. \A r \in 1..Len(rows) : two[r] \in RowOf(D) \cup {Gone}
      BY <1>1, <1>2, RowsAre
    <2>2. two = [r \in 1..Len(rows) |-> IF going(r) THEN Gone ELSE rows[r]]
      BY <1>1 DEF Without
    <2> HIDE DEF two, going
    <2> QED
      BY <1>1, <2>1, <2>2
  <1> HIDE DEF two
  <1>4. ASSUME NEW r \in DOMAIN rows
        PROVE  TargetOk(two[r], two) /\ TypedOk(two[r])
    <2>1. CASE going(r)
      BY <1>2, <2>1, GoneIs DEF TargetOk, TypedOk
    <2>2. CASE ~going(r)
      <3>1. two[r] = rows[r] /\ TargetOk(rows[r], rows) /\ TypedOk(rows[r])
        BY <1>2, <2>2 DEF RowsOk
      <3>2. ASSUME rows[r].status = "proposed", rows[r].target # NoRow
            PROVE  /\ rows[r].target \in DOMAIN two
                   /\ two[rows[r].target].status = "accepted"
        <4> DEFINE t == rows[r].target
        <4>1. t \in DOMAIN rows /\ rows[t].status = "accepted" /\ t \notin gone
          BY <2>2, <3>1, <3>2 DEF TargetOk
        <4>2. rows[t].target = NoRow
          BY <4>1 DEF RowsOk, TargetOk
        <4> QED
          BY <1>2, <4>1, <4>2
      <3> QED
        BY <3>1, <3>2 DEF TargetOk
    <2> QED
      BY <2>1, <2>2
  <1>5. Kept(rows, two)
    BY <1>2, GoneIs DEF Kept, Settled
  <1>6. OnlyEnds(rows, two, gone)
    <2> SUFFICES ASSUME NEW r \in DOMAIN rows, rows[r].status = "proposed",
                        ~going(r) \/ (r \notin gone /\ rows[r].target \in gone)
                 PROVE  \/ r \in DOMAIN two /\ two[r].status = "proposed"
                        \/ rows[r].target # NoRow /\ two[rows[r].target] = Gone
      BY <1>2 DEF OnlyEnds
    <2>1. CASE ~going(r)
      BY <1>2, <2>1
    <2>2. CASE r \notin gone /\ rows[r].target \in gone
      BY <1>2, <2>2 DEF RowsOk, TargetOk
    <2> QED
      BY <2>1, <2>2
  <1>7. \A w : (\A p \in Projectors : \A x \in w[p].update : x[1] \in DOMAIN rows)
                  => SparesKept(w, rows, two)
    BY <1>2, GoneIs DEF SparesKept, Spare
  <1>8. NoneLinked(rows, two)
    BY <1>2, GoneIs DEF NoneLinked
  <1>9. RowsOk(two, D)
    BY <1>2, <1>3, <1>4 DEF RowsOk
  <1> QED
    BY <1>5, <1>6, <1>7, <1>8, <1>9 DEF two

\* One row is written.
LEMMA RowChanges ==
  ASSUME NEW D, NEW rs, RowsOk(rs, D), NEW r \in DOMAIN rs, rs[r] # Gone,
         NEW x \in RowOf(D), x.entity = rs[r].entity, TypedOk(x),
         \/ x.status = rs[r].status /\ x.target = rs[r].target
         \/ x.status = "accepted" /\ x.target = NoRow
  PROVE  LET two == [rs EXCEPT ![r] = x]
         IN /\ RowsOk(two, D) /\ Kept(rs, two) /\ NoneLinked(rs, two)
            /\ OnlyEnds(rs, two, {r})
            /\ x.status = rs[r].status => OnlyEnds(rs, two, {})
            /\ \A w : (\A p \in Projectors : \A q \in w[p].update : q[1] = r =>
                         (Spare(rs, r) => (x.edited => x.typed = NoOne)))
                      => SparesKept(w, rs, two)
  <1> DEFINE two == [rs EXCEPT ![r] = x]
  <1>1. /\ DOMAIN two = DOMAIN rs /\ two[r] = x
        /\ \A q \in DOMAIN rs : q # r => two[q] = rs[q]
    OBVIOUS
  <1>2. two \in Seq(RowOf(D) \cup {Gone})
    BY DEF RowsOk
  <1> HIDE DEF two
  <1>3. rs[r] \in RowOf(D) /\ TargetOk(rs[r], rs)
    BY RowsAre DEF RowsOk
  <1>4. \A q \in DOMAIN rs : rs[q].status = "accepted" => two[q].status = "accepted"
    BY <1>1, <1>3 DEF RowOf
  <1>5. ASSUME NEW q \in DOMAIN rs
        PROVE  TargetOk(two[q], two) /\ TypedOk(two[q])
    <2>1. CASE q # r
      <3>1. two[q] = rs[q] /\ TargetOk(rs[q], rs) /\ TypedOk(rs[q])
        BY <1>1, <2>1 DEF RowsOk
      <3> QED
        BY <1>1, <1>4, <3>1 DEF TargetOk
    <2>2. CASE q = r
      <3>1. TargetOk(x, two)
        BY <1>1, <1>3, <1>4 DEF TargetOk
      <3> QED
        BY <1>1, <2>2, <3>1
    <2> QED
      BY <2>1, <2>2
  <1>6. Kept(rs, two)
    BY <1>1, <1>3 DEF Kept, Settled, RowOf
  <1>7. NoneLinked(rs, two)
    <2> SUFFICES ASSUME NEW q \in DOMAIN rs, two[q].status = "accepted",
                        two[q].entity # NoOne
                 PROVE  rs[q].status = "accepted" /\ rs[q].entity = two[q].entity
      BY <1>1 DEF NoneLinked
    <2>1. CASE q # r
      BY <1>1, <2>1
    <2>2. CASE q = r
      BY <1>1, <1>3, <2>2 DEF TargetOk, RowOf
    <2> QED
      BY <2>1, <2>2
  <1>8. /\ OnlyEnds(rs, two, {r})
        /\ x.status = rs[r].status => OnlyEnds(rs, two, {})
    BY <1>1 DEF OnlyEnds
  <1>9. \A w : (\A p \in Projectors : \A q \in w[p].update : q[1] = r =>
                    (Spare(rs, r) => (x.edited => x.typed = NoOne)))
                 => SparesKept(w, rs, two)
    <2> SUFFICES ASSUME NEW w, NEW p \in Projectors, NEW q \in w[p].update,
                        q[1] = r =>
                          (Spare(rs, r) => (x.edited => x.typed = NoOne)),
                        Spare(rs, q[1])
                 PROVE  Spare(two, q[1])
      BY DEF SparesKept
    <2>1. CASE q[1] = r
      BY <1>1, <2>1 DEF Spare
    <2>2. CASE q[1] # r
      <3>1. two[q[1]] = rs[q[1]]
        BY <2>2 DEF two
      <3> QED
        BY <3>1 DEF Spare
    <2> QED
      BY <2>1, <2>2
  <1> QED
    BY <1>1, <1>2, <1>5, <1>6, <1>7, <1>8, <1>9 DEF RowsOk, two

-----------------------------------------------------------------------------
(* What workers and users hold.                                            *)

LEMMA WorkKept ==
  ASSUME NEW w, NEW rs, NEW rs2, WorkOk(w, rs), Kept(rs, rs2), SparesKept(w, rs, rs2)
  PROVE  WorkOk(w, rs2)
  <1>1. \A r : Settled(rs, r) => Settled(rs2, r)
    BY DEF Kept, Settled
  <1> QED
    BY <1>1 DEF WorkOk, PlanOk, SyncOk, SparesKept

LEMMA UsersKept ==
  ASSUME NEW x, NEW rs, NEW rs2, NEW D, UsersOk(x, rs, D), Kept(rs, rs2)
  PROVE  UsersOk(x, rs2, D)
  <1>1. \A r : Settled(rs, r) => Settled(rs2, r)
    BY DEF Kept, Settled
  <1>2. \A r \in DOMAIN rs : r \in DOMAIN rs2
    BY DEF Kept
  <1>3. \A u \in Users : AskOk(x[u], rs2)
    BY <1>1, <1>2 DEF UsersOk, AskOk
  <1> QED
    BY <1>3 DEF UsersOk

LEMMA UpdatesAreRows ==
  ASSUME NEW w, NEW rs, WorkOk(w, rs)
  PROVE  \A p \in Projectors : \A x \in w[p].update : x[1] \in DOMAIN rs
  BY DEF WorkOk, PlanOk, Settled

LEMMA ProjectorTurns ==
  ASSUME NEW w, NEW rs, WorkOk(w, rs), NEW p \in Projectors, NEW x \in ProjectorRow,
         PlanOk(x, rs)
  PROVE  WorkOk([w EXCEPT ![p] = x], rs)
  BY TableAssumption DEF TableAssumption, WorkOk, Workers

LEMMA SyncTurns ==
  ASSUME NEW w, NEW rs, WorkOk(w, rs), NEW x \in SyncRow, SyncOk(x, rs)
  PROVE  WorkOk([w EXCEPT ![Sync] = x], rs)
  BY TableAssumption DEF TableAssumption, WorkOk, Workers

LEMMA UserTurns ==
  ASSUME NEW x, NEW rs, NEW D, UsersOk(x, rs, D), NEW u \in Users, NEW y \in UserRow(D),
         AskOk(y, rs)
  PROVE  UsersOk([x EXCEPT ![u] = y], rs, D)
  BY DEF UsersOk

LEMMA IdleIsOk ==
  /\ Idle \in ProjectorRow /\ Idle \in SyncRow
  /\ \A rs : PlanOk(Idle, rs) /\ SyncOk(Idle, rs)
  BY FS_EmptySet DEF Idle, ProjectorRow, SyncRow, PlanOk, SyncOk

LEMMA NoRequestIsOk ==
  ASSUME NEW D, NoOne \in D
  PROVE  NoRequest \in UserRow(D) /\ \A rs : AskOk(NoRequest, rs)
  BY DEF NoRequest, UserRow, AskOk, NoRow

\* What is written may be anything.
LEMMA MoreData ==
  ASSUME NEW D, NEW E, Good(D), D \subseteq E
  PROVE  Good(E)
  <1>1. RowOf(D) \subseteq RowOf(E)
    BY DEF RowOf
  <1>2. RowsOk(rows, E)
    BY <1>1 DEF Good, RowsOk
  <1>3. \A s \in Seq(D) : s \in Seq(E)
    OBVIOUS
  <1>4. UserRow(D) \subseteq UserRow(E)
    <2>1. PropRow(D) \subseteq PropRow(E)
      BY DEF PropRow
    <2> QED
      BY <1>3, <2>1 DEF UserRow
  <1>5. UsersOk(user, rows, E)
    BY <1>4 DEF Good, UsersOk
  <1> QED
    BY <1>2, <1>3, <1>5 DEF Good

-----------------------------------------------------------------------------
\* What a step owes: the invariant, the proposals it ends, the rows it links.
Awaited ==
  \A r \in Proposed \ Proposed' :
    \/ \E u \in Users : DecidesOn(u, r)
    \/ rows[r].target # NoRow /\ rows'[rows[r].target] = Gone
    \/ \E u \in Users : Reject(u)
Owed == TablesInv' /\ Awaited /\ NoneLinked(rows, rows')

LEMMA Lasts ==
  ASSUME NEW D, Data \subseteq D, NoOne \in D, shows' \in [Entities -> Cells],
         RowsOk(rows', D), snaps' \subseteq Seq(D), WorkOk(work', rows'),
         UsersOk(user', rows', D)
  PROVE  TablesInv'
  BY DEF TablesInv, Good

LEMMA Awaits ==
  ASSUME NEW S, OnlyEnds(rows, rows', S),
         \A r \in S : r \in Proposed =>
           (\E u \in Users : DecidesOn(u, r)) \/ (\E u \in Users : Reject(u))
  PROVE  Awaited
  BY DEF Awaited, OnlyEnds, Proposed

\* A step that leaves the rows alone.
LEMMA RowsStand ==
  ASSUME NEW D, Good(D), UNCHANGED rows, shows' \in [Entities -> Cells],
         snaps' \subseteq Seq(D), WorkOk(work', rows), UsersOk(user', rows, D)
  PROVE  Owed
  <1>1. TablesInv'
    BY Lasts DEF Good
  <1>2. NoneLinked(rows, rows') /\ OnlyEnds(rows, rows', {})
    BY SameRows
  <1>3. Awaited
    BY <1>2, Awaits
  <1> QED
    BY <1>1, <1>2, <1>3 DEF Owed

LEMMA FactsStep ==
  ASSUME NEW D, Good(D), FactsChange
  PROVE  Owed
  <1>1. shows' \in [Entities -> Cells] /\ UNCHANGED <<rows, snaps, work, user>>
    BY DEF FactsChange, Good, Operation, Count
  <1> QED
    BY <1>1, RowsStand DEF Good

-----------------------------------------------------------------------------
(* projectEntitiesToDataset and the sync.                                  *)

LEMMA ReadFactsStep ==
  ASSUME NEW D, Good(D), NEW p \in Projectors, ReadFacts(p)
  PROVE  Owed
  <1> DEFINE seen == [e \in Entities |-> IF Seen(e) THEN shows[e] ELSE NoOne]
             x == [Idle EXCEPT !.step = "rows", !.facts = seen]
  <1>1. work' = [work EXCEPT ![p] = x] /\ UNCHANGED <<shows, rows, snaps, user>>
    BY DEF ReadFacts, tables
  <1>2. x \in ProjectorRow /\ PlanOk(x, rows)
    <2>1. seen \in [Entities -> Cells \cup {NoOne}]
      BY DEF Good
    <2> HIDE DEF seen
    <2> QED
      BY <2>1 DEF Idle, ProjectorRow, PlanOk
  <1>3. WorkOk(work', rows)
    <2> HIDE DEF x
    <2> QED
      BY <1>1, <1>2, ProjectorTurns DEF Good
  <1> QED
    BY <1>1, <1>3, RowsStand DEF Good

LEMMA ReadRowsStep ==
  ASSUME NEW D, Good(D), NEW p \in Projectors, ReadRows(p)
  PROVE  Owed
  <1> DEFINE facts == work[p].facts
             seen == {e \in Entities : facts[e] # NoOne}
             unpicked(pick) == {e \in seen : pick[e] = NoRow}
             plan(pick) == {<<pick[e], <<e, facts[e]>>>> :
                 e \in {e \in seen \ unpicked(pick) : Rewritable(p, pick[e])}}
  <1>1. PICK pick \in [seen -> Ids \cup {NoRow}] :
          /\ \A e \in seen : IF RowsOf(e) = {} THEN pick[e] = NoRow
                                               ELSE pick[e] \in RowsOf(e)
          /\ work' = [work EXCEPT ![p] = [@ EXCEPT !.step = "create",
               !.create = unpicked(pick), !.update = plan(pick)]]
          /\ UNCHANGED <<shows, rows, snaps, user>>
    BY DEF ReadRows
  <1> DEFINE new == unpicked(pick)
             todo == plan(pick)
             x == [work[p] EXCEPT !.step = "create", !.create = new, !.update = todo]
  <1>2. \A y \in todo : /\ y \in Nat \X (Entities \X (Cells \cup {NoOne}))
                       /\ Settled(rows, y[1]) /\ Spare(rows, y[1])
    <2> SUFFICES ASSUME NEW e \in seen, e \notin new, Rewritable(p, pick[e])
                 PROVE  /\ pick[e] \in Nat /\ facts[e] \in Cells \cup {NoOne}
                        /\ Settled(rows, pick[e]) /\ Spare(rows, pick[e])
      OBVIOUS
    <2>1. pick[e] \in Accepted
      BY <1>1 DEF RowsOf
    <2>2. facts \in [Entities -> Cells \cup {NoOne}]
      BY DEF Good, WorkOk, ProjectorRow
    <2> QED
      BY <2>1, <2>2, RowsAre DEF Settled, Spare, Rewritable, Accepted, Good
  <1>3. work[p] \in ProjectorRow /\ work \in [Workers -> ProjectorRow \cup SyncRow]
    BY DEF Good, WorkOk
  <1>4. work' = [work EXCEPT ![p] = x]
    BY <1>1, <1>3 DEF Workers
  <1>5. new \subseteq Entities
    OBVIOUS
  <1> HIDE DEF facts, seen, plan, unpicked, new, todo
  <1>6. x \in ProjectorRow /\ x.update = todo
    BY <1>2, <1>3, <1>5 DEF ProjectorRow
  <1>7. PlanOk(x, rows)
    BY <1>2, <1>6 DEF PlanOk
  <1> HIDE DEF x
  <1>8. WorkOk(work', rows)
    BY <1>4, <1>6, <1>7, ProjectorTurns DEF Good
  <1> QED
    BY <1>1, <1>8, RowsStand DEF Good

\* The sequences of new rows are sequences, of every row once.
LEMMA OrdersAre ==
  ASSUME NEW S, IsFiniteSet(S), NEW new \in Orders(S)
  PROVE  /\ new \in Seq(S)
         /\ \A j, k \in DOMAIN new : new[j] = new[k] => j = k
  <1>1. Cardinality(S) \in Nat
    BY FS_CardinalityType
  <1> QED
    BY <1>1 DEF Orders

LEMMA ByHandIs ==
  ASSUME NEW D, NoOne \in D, NEW d \in D, NEW e \in Entities \cup {NoOne}
  PROVE  /\ ByHand(d) \in RowOf(D) /\ ~ByHand(d).edited /\ ByHand(d).entity = NoOne
         /\ \A rs : TargetOk(ByHand(d), rs)
         /\ [ByHand(d) EXCEPT !.entity = e] \in RowOf(D)
         /\ [ByHand(d) EXCEPT !.entity = e].entity = e
         /\ ~[ByHand(d) EXCEPT !.entity = e].edited
         /\ \A rs : TargetOk([ByHand(d) EXCEPT !.entity = e], rs)
  BY DEF ByHand, RowOf, TargetOk, NoRow

\* CreateRows links rows, as MoveRows does; they are rows of what was to be
\* created, each once.
LEMMA CreateRowsStep ==
  ASSUME NEW D, Good(D), NEW p \in Projectors, CreateRows(p)
  PROVE  /\ TablesInv' /\ Awaited
         /\ UNCHANGED <<shows, snaps, user>>
         /\ work' = [work EXCEPT ![p] = [@ EXCEPT !.step = "update", !.create = {}]]
         /\ \A r \in DOMAIN rows : r \in DOMAIN rows' /\ rows'[r] = rows[r]
         /\ \A r \in DOMAIN rows' \ DOMAIN rows : rows'[r].entity \in work[p].create
         /\ \A q, r \in DOMAIN rows' \ DOMAIN rows :
              rows'[q].entity = rows'[r].entity => q = r
  <1> DEFINE todo == work[p].create
             row(e) == [ByHand(<<e, work[p].facts[e]>>) EXCEPT !.entity = e]
             S == {row(e) : e \in todo}
             x == [work[p] EXCEPT !.step = "update", !.create = {}]
  <1>0. work[p] \in ProjectorRow /\ work \in [Workers -> ProjectorRow \cup SyncRow]
        /\ todo \subseteq Entities /\ IsFiniteSet(todo)
    BY TableAssumption, FS_Subset DEF Good, WorkOk, ProjectorRow, TableAssumption
  <1>1. PICK E : E = D \cup {<<e, work[p].facts[e]>> : e \in todo}
    OBVIOUS
  <1>2. Good(E)
    BY <1>1, MoreData
  <1>3. \A e \in todo : /\ row(e) \in RowOf(E) /\ row(e).entity = e /\ ~row(e).edited
                        /\ TargetOk(row(e), rows)
    BY <1>0, <1>1, <1>2, ByHandIs DEF Good
  <1>4. IsFiniteSet(S)
    <2> DEFINE f == [e \in todo |-> row(e)]
    <2>1. f \in Surjection(todo, S)
      <3> HIDE DEF row, todo
      <3> QED
        BY DEF Surjection
    <2> HIDE DEF f, S, row, todo
    <2> QED
      BY <1>0, <2>1, FS_Surjection
  <1>5. PICK new \in Orders(S) : rows' = rows \o new
    BY DEF CreateRows, Create
  <1> HIDE DEF row, todo
  <1>6. /\ new \in Seq(S)
        /\ \A j, k \in DOMAIN new : new[j] = new[k] => j = k
    <2> HIDE DEF S
    <2> QED
      BY <1>4, <1>5, OrdersAre
  <1>7. \A k \in DOMAIN new : new[k] \in S
    <2> HIDE DEF S
    <2> QED
      BY <1>6
  <1>8. \A k \in DOMAIN new : \E e \in todo : new[k] = row(e)
    BY <1>7
  <1>9. new \in Seq(RowOf(E))
    <2>1. S \subseteq RowOf(E)
      BY <1>3
    <2> HIDE DEF S
    <2> QED
      BY <1>6, <2>1
  <1>10. \A k \in DOMAIN new : TargetOk(new[k], rows) /\ ~new[k].edited
    BY <1>3, <1>8
  <1>11. RowsOk(rows, E) /\ WorkOk(work, rows) /\ UsersOk(user, rows, E)
    BY <1>2 DEF Good
  <1>12. /\ RowsOk(rows', E) /\ Kept(rows, rows') /\ OnlyEnds(rows, rows', {})
         /\ SparesKept(work, rows, rows')
         /\ \A r \in DOMAIN rows : r \in DOMAIN rows' /\ rows'[r] = rows[r]
         /\ \A r \in DOMAIN rows' \ DOMAIN rows :
              r - Len(rows) \in DOMAIN new /\ rows'[r] = new[r - Len(rows)]
         /\ DOMAIN rows' = 1..(Len(rows) + Len(new))
    <2> HIDE DEF S
    <2> QED
      BY <1>5, <1>9, <1>10, <1>11, RowsAppend, UpdatesAreRows
  <1>13. /\ UNCHANGED <<shows, snaps, user>>
         /\ work' = [work EXCEPT ![p] = x]
    BY <1>0 DEF CreateRows, Workers, aside
  <1>14. WorkOk(work', rows')
    <2>1. WorkOk(work, rows')
      BY <1>11, <1>12, WorkKept
    <2>2. x \in ProjectorRow /\ x.update = work[p].update
      BY <1>0 DEF ProjectorRow
    <2>3. PlanOk(x, rows')
      BY <2>1, <2>2 DEF WorkOk, PlanOk
    <2> HIDE DEF x
    <2> QED
      BY <1>13, <2>1, <2>2, <2>3, ProjectorTurns
  <1>15. UsersOk(user', rows', E)
    BY <1>11, <1>12, <1>13, UsersKept
  <1>16. TablesInv'
    BY <1>2, <1>12, <1>13, <1>14, <1>15, Lasts DEF Good
  <1>17. Awaited
    BY <1>12, Awaits
  <1>18. \A r \in DOMAIN rows' \ DOMAIN rows : rows'[r].entity \in todo
    BY <1>3, <1>8, <1>12
  <1>19. ASSUME NEW q \in DOMAIN rows' \ DOMAIN rows,
                NEW r \in DOMAIN rows' \ DOMAIN rows, rows'[q].entity = rows'[r].entity
         PROVE  q = r
    <2>1. rows'[q] = rows'[r]
      BY <1>3, <1>8, <1>12, <1>19
    <2>2. q - Len(rows) = r - Len(rows)
      BY <1>6, <1>12, <2>1
    <2>3. q \in Int /\ r \in Int /\ Len(rows) \in Int
      BY <1>11, <1>12, RowsAre
    <2> QED
      BY <2>2, <2>3
  <1> QED
    BY <1>12, <1>13, <1>16, <1>17, <1>18, <1>19 DEF todo

\* A step that moves rows; S are the proposals it decides.
LEMMA RowsMove ==
  ASSUME NEW D, Good(D), NEW S, RowsOk(rows', D), OnlyEnds(rows, rows', S),
         \A r \in S : r \in Proposed =>
           (\E u \in Users : DecidesOn(u, r)) \/ (\E u \in Users : Reject(u)),
         NoneLinked(rows, rows'), UNCHANGED <<shows, snaps>>,
         WorkOk(work', rows'), UsersOk(user', rows', D)
  PROVE  Owed
  <1>1. TablesInv'
    BY Lasts DEF Good
  <1>2. Awaited
    BY Awaits
  <1> QED
    BY <1>1, <1>2 DEF Owed

LEMMA RowsMoveQuietly ==
  ASSUME NEW D, Good(D), RowsOk(rows', D), OnlyEnds(rows, rows', {}),
         NoneLinked(rows, rows'), shows' = shows, snaps' = snaps,
         WorkOk(work', rows'), UsersOk(user', rows', D)
  PROVE  Owed
  <1>1. \A r \in {} : r \in Proposed =>
          (\E u \in Users : DecidesOn(u, r)) \/ (\E u \in Users : Reject(u))
    OBVIOUS
  <1>2. UNCHANGED <<shows, snaps>>
    OBVIOUS
  <1> QED
    BY <1>1, <1>2, RowsMove

LEMMA UpdateRowStep ==
  ASSUME NEW D, Good(D), NEW p \in Projectors, UpdateRow(p)
  PROVE  Owed
  <1>1. PICK u \in work[p].update :
          /\ Exists(u[1])
          /\ rows' = [rows EXCEPT ![u[1]].data = u[2]]
          /\ work' = [work EXCEPT ![p].update = @ \ {u}]
          /\ UNCHANGED <<shows, snaps, user>>
    BY DEF UpdateRow, aside
  <1> DEFINE r == u[1]
             d == u[2]
             x == [rows[r] EXCEPT !.data = d]
             y == [work[p] EXCEPT !.update = @ \ {u}]
  <1>2. PICK E : E = D \cup {d}
    OBVIOUS
  <1>3. Good(E) /\ d \in E
    BY <1>2, MoreData
  <1>4. RowsOk(rows, E) /\ WorkOk(work, rows) /\ UsersOk(user, rows, E)
    BY <1>3 DEF Good
  <1>5. r \in DOMAIN rows /\ rows[r] # Gone /\ Spare(rows, r)
    BY <1>1, <1>4 DEF Exists, WorkOk, PlanOk, Settled
  <1>6. rows[r] \in RowOf(E)
    BY <1>4, <1>5, RowsAre
  <1>7. /\ x \in RowOf(E) /\ x.entity = rows[r].entity /\ x.target = rows[r].target
        /\ x.status = rows[r].status /\ x.edited = rows[r].edited
        /\ x.typed = rows[r].typed
    BY <1>3, <1>6 DEF RowOf
  <1>8. TypedOk(x)
    BY <1>5, <1>7 DEF TypedOk, Spare
  <1>9. rows' = [rows EXCEPT ![r] = x]
    BY <1>1, <1>5
  <1> HIDE DEF x, r, d
  <1>10. /\ RowsOk(rows', E) /\ Kept(rows, rows') /\ NoneLinked(rows, rows')
         /\ OnlyEnds(rows, rows', {}) /\ SparesKept(work, rows, rows')
    BY <1>4, <1>5, <1>7, <1>8, <1>9, RowChanges DEF Spare
  <1>11. WorkOk(work, rows') /\ UsersOk(user, rows', E)
    BY <1>4, <1>10, WorkKept, UsersKept
  <1>12. work[p] \in ProjectorRow /\ PlanOk(work[p], rows')
         /\ work \in [Workers -> ProjectorRow \cup SyncRow]
    BY <1>11 DEF WorkOk
  <1>13. y \in ProjectorRow /\ PlanOk(y, rows') /\ work' = [work EXCEPT ![p] = y]
    BY <1>1, <1>12 DEF ProjectorRow, PlanOk, Workers
  <1> HIDE DEF y
  <1>14. WorkOk(work', rows')
    BY <1>11, <1>13, ProjectorTurns
  <1>15. UsersOk(user', rows', E) /\ shows' = shows /\ snaps' = snaps
    BY <1>1, <1>11
  <1> QED
    BY <1>3, <1>10, <1>14, <1>15, RowsMoveQuietly

LEMMA ReadTableStep ==
  ASSUME NEW D, Good(D), ReadTable
  PROVE  Owed
  <1>1. PICK sheet \in Sheets : \E row \in [sheet -> Ids \cup {NoRow}] :
          /\ \A d \in sheet : Match(d, row[d])
          /\ work' = [work EXCEPT ![Sync] =
               [@ EXCEPT !.step = "propose",
                         !.create = {d \in sheet : row[d] = NoRow},
                         !.update = {<<row[d], d>> : d \in {d \in sheet :
                                       row[d] # NoRow /\ rows[row[d]].data # d}}]]
          /\ UNCHANGED <<shows, rows, snaps, user>>
    BY DEF ReadTable, tables
  <1>2. PICK row \in [sheet -> Ids \cup {NoRow}] :
          /\ \A d \in sheet : Match(d, row[d])
          /\ work' = [work EXCEPT ![Sync] =
               [@ EXCEPT !.step = "propose",
                         !.create = {d \in sheet : row[d] = NoRow},
                         !.update = {<<row[d], d>> : d \in {d \in sheet :
                                       row[d] # NoRow /\ rows[row[d]].data # d}}]]
    BY <1>1
  <1> DEFINE new == {d \in sheet : row[d] = NoRow}
             changed == {d \in sheet : row[d] # NoRow /\ rows[row[d]].data # d}
             plan == {<<row[d], d>> : d \in changed}
             x == [work[Sync] EXCEPT !.step = "propose", !.create = new,
                                     !.update = plan]
  <1>3. sheet \subseteq Data /\ IsFiniteSet(sheet)
    BY TableAssumption DEF TableAssumption
  <1>4. IsFiniteSet(new) /\ IsFiniteSet(changed)
    BY <1>3, FS_Subset
  <1>5. \A d \in changed : d \in Data /\ row[d] \in Nat /\ Settled(rows, row[d])
    BY <1>2, <1>3 DEF Match, Settled, Accepted, Ids, NoRow
  <1>6. IsFiniteSet(plan)
    <2> DEFINE f == [d \in changed |-> <<row[d], d>>]
    <2> HIDE DEF changed
    <2>1. f \in Surjection(changed, plan)
      BY DEF Surjection
    <2> HIDE DEF f, plan
    <2> QED
      BY <1>4, <2>1, FS_Surjection
  <1>7. plan \subseteq Nat \X Data /\ \A q \in plan : Settled(rows, q[1])
    <2> HIDE DEF changed
    <2> QED
      BY <1>5
  <1>8. new \subseteq Data
    BY <1>3
  <1>9. work[Sync] \in SyncRow /\ work \in [Workers -> ProjectorRow \cup SyncRow]
    BY DEF Good, WorkOk
  <1>10. work' = [work EXCEPT ![Sync] = x]
    BY <1>2, <1>9 DEF Workers
  <1> HIDE DEF new, plan
  <1>11. x \in SyncRow /\ x.create = new /\ x.update = plan
    BY <1>7, <1>8, <1>9 DEF SyncRow
  <1>12. SyncOk(x, rows)
    BY <1>4, <1>6, <1>7, <1>11 DEF SyncOk, new
  <1> HIDE DEF x
  <1>13. WorkOk(work', rows)
    BY <1>10, <1>11, <1>12, SyncTurns DEF Good
  <1> QED
    BY <1>1, <1>13, RowsStand DEF Good

LEMMA ProposalIs ==
  ASSUME NEW D, NoOne \in D, NEW d \in D, NEW t \in Nat
  PROVE  /\ Proposal(d, t) \in RowOf(D) /\ ~Proposal(d, t).edited
         /\ Proposal(d, t).entity = NoOne
         /\ \A rs : t = NoRow \/ (t \in DOMAIN rs /\ rs[t].status = "accepted")
                      => TargetOk(Proposal(d, t), rs)
  BY DEF Proposal, ByHand, RowOf, TargetOk, NoRow

LEMMA ProposeStep ==
  ASSUME NEW D, Good(D), Propose
  PROVE  Owed
  <1> DEFINE A == {Proposal(d, NoRow) : d \in work[Sync].create}
             B == {Proposal(q[2], q[1]) : q \in work[Sync].update}
             S == A \cup B
  <1>1. /\ RowsOk(rows, D) /\ WorkOk(work, rows) /\ UsersOk(user, rows, D)
        /\ Data \subseteq D /\ NoOne \in D
    BY DEF Good
  <1>2. work[Sync] \in SyncRow /\ SyncOk(work[Sync], rows)
    BY <1>1 DEF WorkOk
  <1>3. /\ \A q \in work[Sync].update : Exists(q[1])
        /\ UNCHANGED <<shows, snaps, user>>
        /\ work' = [work EXCEPT ![Sync] = Idle]
    BY DEF Propose, aside
  <1>4. PICK new \in Orders(S) : rows' = rows \o new
    BY DEF Propose, Create
  <1>5. IsFiniteSet(S)
    <2> DEFINE f == [d \in work[Sync].create |-> Proposal(d, NoRow)]
               g == [q \in work[Sync].update |-> Proposal(q[2], q[1])]
    <2>1. f \in Surjection(work[Sync].create, A)
      BY DEF Surjection
    <2>2. g \in Surjection(work[Sync].update, B)
      BY DEF Surjection
    <2> HIDE DEF f, g, A, B
    <2>3. IsFiniteSet(A) /\ IsFiniteSet(B)
      BY <1>2, <2>1, <2>2, FS_Surjection DEF SyncOk
    <2> QED
      BY <2>3, FS_Union
  <1>6. ASSUME NEW x \in S
        PROVE  x \in RowOf(D) /\ ~x.edited /\ x.entity = NoOne /\ TargetOk(x, rows)
    <2>1. CASE x \in A
      <3>1. PICK d \in work[Sync].create : x = Proposal(d, NoRow)
        BY <2>1
      <3>2. d \in D
        BY <1>1, <1>2 DEF SyncRow
      <3> QED
        BY <1>1, <3>1, <3>2, ProposalIs DEF NoRow
    <2>2. CASE x \in B
      <3>1. PICK q \in work[Sync].update : x = Proposal(q[2], q[1])
        BY <2>2
      <3>2. q[1] \in Nat /\ q[2] \in D /\ Settled(rows, q[1]) /\ rows[q[1]] # Gone
        BY <1>1, <1>2, <1>3 DEF SyncRow, SyncOk, Exists
      <3>3. rows[q[1]].status = "accepted"
        BY <1>1, <3>2, RowsAre DEF Settled, RowOf
      <3> QED
        BY <1>1, <3>1, <3>2, <3>3, ProposalIs DEF Settled
    <2> QED
      BY <2>1, <2>2
  <1> HIDE DEF A, B
  <1>7. new \in Seq(S)
    <2> HIDE DEF S
    <2> QED
      BY <1>4, <1>5, OrdersAre
  <1>8. new \in Seq(RowOf(D)) /\ \A k \in DOMAIN new : new[k] \in S
    <2>1. S \subseteq RowOf(D)
      BY <1>6
    <2> HIDE DEF S
    <2> QED
      BY <1>7, <2>1
  <1>9. \A k \in DOMAIN new : /\ TargetOk(new[k], rows) /\ ~new[k].edited
                              /\ new[k].entity = NoOne
    BY <1>6, <1>8
  <1> HIDE DEF S
  <1>10. /\ RowsOk(rows', D) /\ Kept(rows, rows') /\ OnlyEnds(rows, rows', {})
         /\ SparesKept(work, rows, rows') /\ NoneLinked(rows, rows')
    BY <1>1, <1>4, <1>8, <1>9, RowsAppend, UpdatesAreRows
  <1>11. WorkOk(work, rows') /\ UsersOk(user', rows', D)
    BY <1>1, <1>3, <1>10, WorkKept, UsersKept
  <1>12. WorkOk(work', rows')
    BY <1>3, <1>11, SyncTurns, IdleIsOk
  <1> QED
    BY <1>3, <1>10, <1>11, <1>12, RowsMoveQuietly

LEMMA WorkEndsStep ==
  ASSUME NEW D, Good(D), NEW w \in Workers,
         work' = [work EXCEPT ![w] = Idle], UNCHANGED <<shows, rows, snaps, user>>
  PROVE  Owed
  <1>1. WorkOk(work', rows)
    BY ProjectorTurns, SyncTurns, IdleIsOk DEF Good, Workers
  <1> QED
    BY <1>1, RowsStand DEF Good

-----------------------------------------------------------------------------
(* Merges and prunes.                                                      *)

\* An entity's rows become another's, or nobody's: nothing else of them changes.
LEMMA RelinkStep ==
  ASSUME NEW D, Good(D), NEW l \in Entities, NEW w \in Entities \cup {NoOne},
         rows' = Relinked(l, w), UNCHANGED <<shows, snaps, work, user>>
  PROVE  /\ TablesInv' /\ Awaited
         /\ DOMAIN rows' = DOMAIN rows
         /\ \A r \in DOMAIN rows :
              /\ rows'[r].status = rows[r].status
              /\ rows'[r].entity = IF rows[r].entity = l THEN w ELSE rows[r].entity
  <1> DEFINE two == Relinked(l, w)
  <1>1. RowsOk(rows, D) /\ WorkOk(work, rows) /\ UsersOk(user, rows, D)
    BY DEF Good
  <1>2. l # NoOne /\ Gone.entity # l
    BY TableAssumption DEF TableAssumption, Gone
  <1>3. /\ DOMAIN two = DOMAIN rows
        /\ \A r \in DOMAIN rows : two[r] =
             IF rows[r].entity = l THEN [rows[r] EXCEPT !.entity = w] ELSE rows[r]
    BY DEF Relinked
  <1>4. ASSUME NEW r \in DOMAIN rows
        PROVE  /\ two[r] \in RowOf(D) \cup {Gone}
               /\ two[r].status = rows[r].status /\ two[r].data = rows[r].data
               /\ two[r].target = rows[r].target /\ two[r].edited = rows[r].edited
               /\ two[r].typed = rows[r].typed
               /\ two[r].entity = IF rows[r].entity = l THEN w ELSE rows[r].entity
               /\ two[r].status = "proposed" => two[r].entity = rows[r].entity
    <2>1. CASE rows[r].entity # l
      BY <1>1, <1>3, <2>1, RowsAre
    <2>2. CASE rows[r].entity = l
      <3>1. rows[r] \in RowOf(D)
        BY <1>1, <1>2, <2>2, RowsAre
      <3>2. rows[r].status # "proposed"
        BY <1>1, <1>2, <2>2 DEF RowsOk, TargetOk
      <3> QED
        BY <1>3, <2>2, <3>1, <3>2 DEF RowOf
    <2> QED
      BY <2>1, <2>2
  <1>5. two \in Seq(RowOf(D) \cup {Gone})
    <2>1. Len(rows) \in Nat /\ DOMAIN rows = 1..Len(rows)
      BY <1>1, RowsAre
    <2>2. two = [r \in 1..Len(rows) |-> two[r]]
      BY <2>1 DEF Relinked
    <2> HIDE DEF two
    <2> QED
      BY <1>4, <2>1, <2>2
  <1>6. rows' = two
    OBVIOUS
  <1> HIDE DEF two
  <1>7. RowsOk(two, D)
    <2> SUFFICES ASSUME NEW r \in DOMAIN two
                 PROVE  TargetOk(two[r], two) /\ TypedOk(two[r])
      BY <1>5 DEF RowsOk
    <2>1. TargetOk(rows[r], rows) /\ TypedOk(rows[r])
      BY <1>1, <1>3 DEF RowsOk
    <2> QED
      BY <1>3, <1>4, <2>1 DEF TargetOk, TypedOk
  <1>8. Kept(rows, two) /\ OnlyEnds(rows, two, {})
    BY <1>3, <1>4 DEF Kept, Settled, OnlyEnds
  <1>9. SparesKept(work, rows, two)
    BY <1>1, <1>3, <1>4, UpdatesAreRows DEF SparesKept, Spare
  <1>10. WorkOk(work', rows') /\ UsersOk(user', rows', D) /\ RowsOk(rows', D)
    BY <1>1, <1>6, <1>7, <1>8, <1>9, WorkKept, UsersKept
  <1>11. TablesInv'
    BY <1>10, Lasts DEF Good
  <1>12. Awaited
    BY <1>6, <1>8, Awaits
  <1> QED
    BY <1>3, <1>4, <1>6, <1>11, <1>12

LEMMA PruneStep ==
  ASSUME NEW D, Good(D), PruneEntity
  PROVE  Owed
  <1>1. PICK e \in Entities : /\ rows' = Relinked(e, NoOne)
                              /\ UNCHANGED <<shows, snaps, work, user>>
    BY DEF PruneEntity
  <1>2. /\ TablesInv' /\ Awaited /\ DOMAIN rows' = DOMAIN rows
        /\ \A r \in DOMAIN rows :
             /\ rows'[r].status = rows[r].status
             /\ rows'[r].entity = IF rows[r].entity = e THEN NoOne
                                                       ELSE rows[r].entity
    BY <1>1, RelinkStep
  <1>3. NoneLinked(rows, rows')
    BY <1>2 DEF NoneLinked
  <1> QED
    BY <1>2, <1>3 DEF Owed

-----------------------------------------------------------------------------
(* The dashboard's actions.                                                *)

LEMMA UserIs ==
  ASSUME NEW D, Good(D), NEW u \in Users
  PROVE  /\ user \in [Users -> UserRow(D)] /\ user[u] \in UserRow(D)
         /\ AskOk(user[u], rows)
  BY DEF Good, UsersOk

\* The version that is saved is a sequence of what the rows hold.
LEMMA ContentsAre ==
  ASSUME NEW D, Good(D)
  PROVE  \E E : /\ Good(E) /\ D \subseteq E /\ Contents \in Seq(E)
                /\ Baseline \subseteq Seq(E)
  <1> DEFINE n == Cardinality(Accepted)
  <1>1. n \in Nat
    <2>1. Accepted \subseteq 1..Len(rows) /\ Len(rows) \in Nat
      BY RowsAre DEF Good, Accepted
    <2>2. IsFiniteSet(1..Len(rows))
      BY <2>1, FS_Interval
    <2>3. IsFiniteSet(Accepted)
      BY <2>1, <2>2, FS_Subset
    <2> QED
      BY <2>3, FS_CardinalityType
  <1>2. PICK E : E = D \cup {rows[Accepts(k)].data : k \in 1..n}
    OBVIOUS
  <1>3. Good(E) /\ D \subseteq E
    BY <1>2, MoreData
  <1>4. Contents = [k \in 1..n |-> rows[Accepts(k)].data]
    BY DEF Contents
  <1> HIDE DEF n
  <1>5. Contents \in Seq(E)
    BY <1>1, <1>2, <1>4
  <1>6. Baseline \subseteq Seq(E)
    BY <1>3, <1>5 DEF Good, Baseline
  <1> QED
    BY <1>3, <1>5, <1>6

\* Users who go on to the next step hold what they held.
LEMMA StepsOn ==
  ASSUME NEW D, NEW rs, UsersOk(user, rs, D), NEW u \in Users,
         NEW s \in {"apply", "refill", "version"}, Go(u, s)
  PROVE  UsersOk(user', rs, D)
  <1> DEFINE y == [user[u] EXCEPT !.step = s]
  <1>1. user[u] \in UserRow(D) /\ AskOk(user[u], rs) /\ user \in [Users -> UserRow(D)]
    BY DEF UsersOk
  <1>2. y \in UserRow(D) /\ AskOk(y, rs) /\ user' = [user EXCEPT ![u] = y]
    BY <1>1 DEF UserRow, AskOk, Go
  <1> HIDE DEF y
  <1> QED
    BY <1>2, UserTurns

LEMMA BeginChangeStep ==
  ASSUME NEW D, Good(D), NEW u \in Users, BeginChange(u)
  PROVE  Owed
  <1>1. PICK step \in {"add", "edit", "delete"}, r \in Accepted \cup {NoRow},
             d \in Typed \cup {NoOne} :
          /\ r = NoRow <=> step = "add"
          /\ snaps' = Baseline
          /\ user' = [user EXCEPT ![u] = [NoRequest EXCEPT !.step = step, !.row = r,
                                                           !.data = d]]
          /\ UNCHANGED <<shows, rows, work>>
    BY DEF BeginChange
  <1>2. PICK E : Good(E) /\ D \subseteq E /\ Baseline \subseteq Seq(E)
    BY ContentsAre
  <1> DEFINE y == [NoRequest EXCEPT !.step = step, !.row = r, !.data = d]
  <1>3. r \in Nat /\ (r # NoRow => Settled(rows, r))
    BY <1>2, RowsAre DEF Good, Accepted, Settled, NoRow
  <1>4. y \in UserRow(E)
    <2>1. d \in E
      BY <1>2, TableAssumption DEF TableAssumption, Good
    <2> QED
      BY <1>2, <1>3, <2>1, NoRequestIsOk DEF Good, UserRow
  <1>5. y.step = step /\ y.row = r /\ y.props = {}
    BY DEF NoRequest
  <1>6. AskOk(y, rows)
    BY <1>1, <1>3, <1>5 DEF AskOk
  <1> HIDE DEF y
  <1>7. UsersOk(user', rows, E)
    BY <1>1, <1>2, <1>4, <1>6, UserTurns DEF y, Good
  <1> QED
    BY <1>1, <1>2, <1>7, RowsStand DEF Good

LEMMA InsertRowStep ==
  ASSUME NEW D, Good(D), NEW u \in Users, InsertRow(u)
  PROVE  Owed
  <1>1. /\ rows' = rows \o <<ByHand(user[u].data)>> /\ Go(u, "version")
        /\ shows' = shows /\ snaps' = snaps /\ work' = work
    BY DEF InsertRow, Create, aside
  <1>2. user[u].data \in D
    BY UserIs DEF UserRow
  <1> DEFINE x == ByHand(user[u].data)
             new == <<x>>
  <1>3. x \in RowOf(D) /\ ~x.edited /\ x.entity = NoOne /\ TargetOk(x, rows)
    BY <1>2, ByHandIs DEF Good
  <1> HIDE DEF x
  <1>4. new \in Seq(RowOf(D)) /\ DOMAIN new = {1} /\ new[1] = x
    BY <1>3
  <1>5. rows' = rows \o new
    BY <1>1 DEF x
  <1> HIDE DEF new
  <1>6. /\ RowsOk(rows, D) /\ WorkOk(work, rows) /\ UsersOk(user, rows, D)
    BY DEF Good
  <1>7. /\ RowsOk(rows', D) /\ Kept(rows, rows') /\ OnlyEnds(rows, rows', {})
        /\ SparesKept(work, rows, rows') /\ NoneLinked(rows, rows')
    BY <1>3, <1>4, <1>5, <1>6, RowsAppend, UpdatesAreRows
  <1>8. WorkOk(work', rows') /\ UsersOk(user, rows', D)
    BY <1>1, <1>6, <1>7, WorkKept, UsersKept
  <1>9. UsersOk(user', rows', D)
    BY <1>1, <1>8, StepsOn
  <1> QED
    BY <1>1, <1>7, <1>8, <1>9, RowsMoveQuietly

LEMMA EditRowStep ==
  ASSUME NEW D, Good(D), NEW u \in Users, EditRow(u)
  PROVE  Owed
  <1> DEFINE r == user[u].row
             d == user[u].data
             raced == \E p \in Projectors : \E q \in work[p].update : q[1] = r
             t == IF raced THEN NoOne ELSE d
             x == [rows[r] EXCEPT !.data = d, !.edited = TRUE, !.typed = t]
  <1>1. /\ user[u].step = "edit" /\ rows[r] # Gone
        /\ rows' = [rows EXCEPT ![r].data = d, ![r].edited = TRUE, ![r].typed = t]
        /\ Go(u, "version") /\ shows' = shows /\ snaps' = snaps /\ work' = work
    BY DEF EditRow, On, Exists, aside
  <1>2. /\ RowsOk(rows, D) /\ WorkOk(work, rows) /\ UsersOk(user, rows, D)
        /\ NoOne \in D
    BY DEF Good
  <1>3. r \in DOMAIN rows /\ d \in D
    BY <1>1, UserIs DEF AskOk, Settled, UserRow
  <1>4. rows[r] \in RowOf(D)
    BY <1>1, <1>2, <1>3, RowsAre
  <1>5. t \in D /\ (raced => t = NoOne) /\ (t = NoOne \/ t = d)
    BY <1>2, <1>3
  <1>6. rows' = [rows EXCEPT ![r] = x]
    BY <1>1, <1>3
  <1> HIDE DEF t, d, raced
  <1>7. /\ x \in RowOf(D) /\ x.entity = rows[r].entity /\ x.target = rows[r].target
        /\ x.status = rows[r].status /\ x.typed = t /\ x.data = d /\ x.edited
    BY <1>3, <1>4, <1>5 DEF RowOf
  <1>8. TypedOk(x)
    BY <1>5, <1>7 DEF TypedOk
  <1> HIDE DEF x
  <1>9. /\ \A p \in Projectors : \A q \in work[p].update : q[1] = r =>
              (Spare(rows, r) => (x.edited => x.typed = NoOne))
        /\ rows[r] # Gone
    BY <1>1, <1>5, <1>7 DEF raced
  <1> HIDE DEF r
  <1>10. /\ RowsOk(rows', D) /\ Kept(rows, rows') /\ NoneLinked(rows, rows')
         /\ OnlyEnds(rows, rows', {}) /\ SparesKept(work, rows, rows')
    BY <1>2, <1>3, <1>6, <1>7, <1>8, <1>9, RowChanges
  <1>11. WorkOk(work', rows') /\ UsersOk(user, rows', D)
    BY <1>1, <1>2, <1>10, WorkKept, UsersKept
  <1>12. UsersOk(user', rows', D)
    BY <1>1, <1>11, StepsOn
  <1> QED
    BY <1>1, <1>10, <1>11, <1>12, RowsMoveQuietly

\* A step that deletes rows; of the proposals, only such as are decided.
LEMMA Deletes ==
  ASSUME NEW D, Good(D), NEW gone, NoRow \notin gone, rows' = Without(gone),
         shows' = shows, snaps' = snaps, work' = work,
         user' = user \/ \E u \in Users : \E s \in {"apply", "refill", "version"} :
                           Go(u, s),
         \A r \in gone : r \in Proposed =>
           (\E u \in Users : DecidesOn(u, r)) \/ (\E u \in Users : Reject(u))
  PROVE  Owed
  <1>1. RowsOk(rows, D) /\ WorkOk(work, rows) /\ UsersOk(user, rows, D)
    BY DEF Good
  <1>2. /\ RowsOk(rows', D) /\ Kept(rows, rows') /\ OnlyEnds(rows, rows', gone)
        /\ SparesKept(work, rows, rows') /\ NoneLinked(rows, rows')
    BY <1>1, RowsGo, UpdatesAreRows
  <1>3. WorkOk(work', rows') /\ UsersOk(user, rows', D)
    BY <1>1, <1>2, WorkKept, UsersKept
  <1>4. UsersOk(user', rows', D)
    BY <1>3, StepsOn
  <1>5. UNCHANGED <<shows, snaps>>
    OBVIOUS
  <1> QED
    BY <1>2, <1>3, <1>4, <1>5, RowsMove

LEMMA DeleteRowStep ==
  ASSUME NEW D, Good(D), NEW u \in Users, DeleteRow(u)
  PROVE  Owed
  <1> DEFINE gone == {user[u].row}
  <1>1. /\ user[u].step = "delete" /\ rows' = Without(gone) /\ Go(u, "version")
        /\ shows' = shows /\ snaps' = snaps /\ work' = work
    BY DEF DeleteRow, On, aside
  <1>2. Settled(rows, user[u].row)
    BY <1>1, UserIs DEF AskOk
  <1>3. NoRow \notin gone
    BY <1>2, RowsAre DEF Good, Settled, NoRow
  <1>4. \A r \in gone : r \notin Proposed
    BY <1>2 DEF Settled, Proposed
  <1> HIDE DEF gone
  <1> QED
    BY <1>1, <1>3, <1>4, Deletes

LEMMA DropProposalStep ==
  ASSUME NEW D, Good(D), NEW u \in Users, DropProposal(u)
  PROVE  Owed
  <1> DEFINE gone == {user[u].row}
  <1>1. /\ On(u, "drop") /\ rows' = Without(gone) /\ Go(u, "apply")
        /\ shows' = shows /\ snaps' = snaps /\ work' = work
    BY DEF DropProposal, aside
  <1>2. user[u].row \in DOMAIN rows
    BY <1>1, UserIs DEF AskOk, On
  <1>3. NoRow \notin gone
    BY <1>2, RowsAre DEF Good, NoRow
  <1>4. \A r \in gone : DecidesOn(u, r)
    BY <1>1 DEF DecidesOn
  <1> HIDE DEF gone
  <1> QED
    BY <1>1, <1>3, <1>4, Deletes

LEMMA RejectStep ==
  ASSUME NEW D, Good(D), NEW u \in Users, Reject(u)
  PROVE  Owed
  <1>1. PICK ids \in SUBSET Asked :
          /\ rows' = Without(ids)
          /\ shows' = shows /\ snaps' = snaps /\ work' = work /\ user' = user
    BY DEF Reject, aside
  <1>2. NoRow \notin ids
    BY <1>1, RowsAre DEF Good, Asked, NoRow
  <1> QED
    BY <1>1, <1>2, Deletes

LEMMA WipeStep ==
  ASSUME NEW D, Good(D), NEW u \in Users, Wipe(u)
  PROVE  Owed
  <1>1. /\ rows' = Without(Accepted) /\ Go(u, "refill")
        /\ shows' = shows /\ snaps' = snaps /\ work' = work
    BY DEF Wipe, Wiped, aside
  <1>2. NoRow \notin Accepted
    BY RowsAre DEF Good, Accepted, NoRow
  <1>3. \A r \in Accepted : r \notin Proposed
    BY DEF Accepted, Proposed
  <1> QED
    BY <1>1, <1>2, <1>3, Deletes

LEMMA BeginAcceptStep ==
  ASSUME NEW D, Good(D), NEW u \in Users, BeginAccept(u)
  PROVE  Owed
  <1>1. PICK ids \in SUBSET Asked :
          /\ user' = [user EXCEPT ![u] = [NoRequest EXCEPT !.step = "apply",
               !.props = {[id |-> r, target |-> rows[r].target,
                           data |-> rows[r].data] : r \in ids}]]
          /\ shows' = shows /\ rows' = rows /\ snaps' = snaps /\ work' = work
    BY DEF BeginAccept, tables
  <1> DEFINE props == {[id |-> r, target |-> rows[r].target,
                        data |-> rows[r].data] : r \in ids}
             y == [NoRequest EXCEPT !.step = "apply", !.props = props]
  <1>2. RowsOk(rows, D) /\ UsersOk(user, rows, D) /\ NoOne \in D
    BY DEF Good
  <1>3. ASSUME NEW r \in ids
        PROVE  /\ r \in DOMAIN rows /\ r \in Nat /\ rows[r] \in RowOf(D)
               /\ rows[r].target # NoRow => Settled(rows, rows[r].target)
    <2>1. r \in DOMAIN rows /\ rows[r].agent
      BY DEF Asked
    <2>2. rows[r] # Gone
      BY <2>1 DEF Gone
    <2> QED
      BY <1>2, <2>1, <2>2, RowsAre DEF RowsOk, TargetOk, Settled
  <1>4. \A p \in props : /\ p \in PropRow(D) /\ p.id \in DOMAIN rows
                         /\ p.target # NoRow => Settled(rows, p.target)
    BY <1>3 DEF RowOf, PropRow
  <1> HIDE DEF props
  <1>5. y \in UserRow(D) /\ y.step = "apply" /\ y.props = props
    BY <1>2, <1>4, NoRequestIsOk DEF UserRow
  <1>6. AskOk(y, rows)
    BY <1>4, <1>5 DEF AskOk
  <1>7. user' = [user EXCEPT ![u] = y]
    BY <1>1 DEF props
  <1> HIDE DEF y
  <1>8. UsersOk(user', rows, D)
    BY <1>2, <1>5, <1>6, <1>7, UserTurns
  <1> QED
    BY <1>1, <1>8, RowsStand DEF Good

LEMMA WriteTargetStep ==
  ASSUME NEW D, Good(D), NEW u \in Users, WriteTarget(u)
  PROVE  Owed
  <1>1. PICK p \in user[u].props :
          /\ user[u].step = "apply" /\ p.target # NoRow /\ rows[p.target] # Gone
          /\ rows' = [rows EXCEPT ![p.target].data = p.data,
                                  ![p.target].edited = FALSE,
                                  ![p.target].typed = NoOne]
          /\ user' = [user EXCEPT ![u].step = "drop", ![u].row = p.id,
                                  ![u].props = @ \ {p}]
          /\ shows' = shows /\ snaps' = snaps /\ work' = work
    BY DEF WriteTarget, On, Exists, aside
  <1> DEFINE r == p.target
             x == [rows[r] EXCEPT !.data = p.data, !.edited = FALSE, !.typed = NoOne]
             y == [user[u] EXCEPT !.step = "drop", !.row = p.id, !.props = @ \ {p}]
  <1>2. /\ RowsOk(rows, D) /\ WorkOk(work, rows) /\ UsersOk(user, rows, D)
        /\ NoOne \in D
    BY DEF Good
  <1>3. /\ user \in [Users -> UserRow(D)] /\ user[u] \in UserRow(D)
        /\ AskOk(user[u], rows)
    BY UserIs
  <1>4. /\ p \in PropRow(D) /\ r \in DOMAIN rows
        /\ p.id \in DOMAIN rows
    BY <1>1, <1>3 DEF UserRow, AskOk, Settled
  <1>5. rows[r] \in RowOf(D)
    BY <1>1, <1>2, <1>4, RowsAre
  <1>6. rows' = [rows EXCEPT ![r] = x]
    BY <1>1, <1>4
  <1>7. user' = [user EXCEPT ![u] = y]
    BY <1>1, <1>3
  <1>8. /\ x \in RowOf(D) /\ x.entity = rows[r].entity /\ x.target = rows[r].target
        /\ x.status = rows[r].status /\ ~x.edited
    BY <1>2, <1>4, <1>5 DEF RowOf, PropRow
  <1>9. TypedOk(x)
    BY <1>8 DEF TypedOk
  <1> HIDE DEF x
  <1>10. /\ RowsOk(rows', D) /\ Kept(rows, rows') /\ NoneLinked(rows, rows')
         /\ OnlyEnds(rows, rows', {}) /\ SparesKept(work, rows, rows')
    <2>1. rows[r] # Gone
      BY <1>1
    <2> HIDE DEF r
    <2> QED
      BY <1>2, <1>4, <1>6, <1>8, <1>9, <2>1, RowChanges
  <1>11. WorkOk(work', rows') /\ UsersOk(user, rows', D)
    BY <1>1, <1>2, <1>10, WorkKept, UsersKept
  <1>12. y \in UserRow(D)
    BY <1>3, <1>4 DEF UserRow, PropRow
  <1>13. AskOk(y, rows')
    <2>1. y.step = "drop" /\ y.row = p.id /\ y.props \subseteq user[u].props
      BY <1>3 DEF UserRow
    <2>2. AskOk(user[u], rows') /\ p.id \in DOMAIN rows'
      BY <1>4, <1>10, <1>11 DEF UsersOk, Kept
    <2> HIDE DEF y
    <2> QED
      BY <2>1, <2>2 DEF AskOk
  <1> HIDE DEF y
  <1>14. UsersOk(user', rows', D)
    BY <1>7, <1>11, <1>12, <1>13, UserTurns
  <1> QED
    BY <1>1, <1>10, <1>11, <1>14, RowsMoveQuietly

LEMMA AdmitStep ==
  ASSUME NEW D, Good(D), NEW u \in Users, Admit(u)
  PROVE  Owed
  <1>1. PICK p \in user[u].props :
          /\ On(u, "apply") /\ p.target = NoRow /\ rows[p.id] # Gone
          /\ rows' = [rows EXCEPT ![p.id].status = "accepted", ![p.id].target = NoRow]
          /\ user' = [user EXCEPT ![u].props = @ \ {p}]
          /\ shows' = shows /\ snaps' = snaps /\ work' = work
    BY DEF Admit, Exists, aside
  <1> DEFINE r == p.id
             x == [rows[r] EXCEPT !.status = "accepted", !.target = NoRow]
             y == [user[u] EXCEPT !.props = @ \ {p}]
  <1>2. /\ RowsOk(rows, D) /\ WorkOk(work, rows) /\ UsersOk(user, rows, D)
        /\ NoOne \in D
    BY DEF Good
  <1>3. /\ user \in [Users -> UserRow(D)] /\ user[u] \in UserRow(D)
        /\ AskOk(user[u], rows)
    BY UserIs
  <1>4. r \in DOMAIN rows
    BY <1>1, <1>3 DEF AskOk
  <1>5. rows[r] \in RowOf(D) /\ TypedOk(rows[r])
    BY <1>1, <1>2, <1>4, RowsAre DEF RowsOk
  <1>6. rows' = [rows EXCEPT ![r] = x]
    BY <1>1, <1>4
  <1>7. user' = [user EXCEPT ![u] = y]
    BY <1>1, <1>3
  <1>8. /\ x \in RowOf(D) /\ x.entity = rows[r].entity /\ x.target = NoRow
        /\ x.status = "accepted" /\ x.edited = rows[r].edited
        /\ x.typed = rows[r].typed /\ TypedOk(x)
    BY <1>5 DEF RowOf, NoRow, TypedOk
  <1> HIDE DEF x
  <1>9. rows[r] # Gone
    BY <1>1
  <1>10. /\ RowsOk(rows', D) /\ Kept(rows, rows') /\ NoneLinked(rows, rows')
         /\ OnlyEnds(rows, rows', {r}) /\ SparesKept(work, rows, rows')
    <2> HIDE DEF r
    <2> QED
      BY <1>2, <1>4, <1>6, <1>8, <1>9, RowChanges DEF Spare
  <1>11. WorkOk(work', rows') /\ UsersOk(user, rows', D)
    BY <1>1, <1>2, <1>10, WorkKept, UsersKept
  <1>12. y \in UserRow(D) /\ y.step = user[u].step /\ y.row = user[u].row
         /\ y.props \subseteq user[u].props
    BY <1>3 DEF UserRow
  <1>13. AskOk(user[u], rows')
    BY <1>11 DEF UsersOk
  <1> HIDE DEF y
  <1>14. AskOk(y, rows')
    BY <1>12, <1>13 DEF AskOk
  <1>15. UsersOk(user', rows', D)
    BY <1>7, <1>11, <1>12, <1>14, UserTurns
  <1>16. \A q \in {r} : DecidesOn(u, q)
    BY DEF DecidesOn
  <1>17. UNCHANGED <<shows, snaps>>
    BY <1>1
  <1>18. WorkOk(work', rows')
    BY <1>11
  <1>19. \A q \in {r} : q \in Proposed =>
           (\E v \in Users : DecidesOn(v, q)) \/ (\E v \in Users : Reject(v))
    BY <1>16
  <1> HIDE DEF r
  <1> QED
    BY <1>10, <1>15, <1>17, <1>18, <1>19, RowsMove

LEMMA BeginRestoreStep ==
  ASSUME NEW D, Good(D), NEW u \in Users, BeginRestore(u)
  PROVE  Owed
  <1>1. PICK snap \in snaps :
          /\ user' = [user EXCEPT ![u] = [NoRequest EXCEPT !.step = "wipe",
                                                           !.snap = snap]]
          /\ shows' = shows /\ rows' = rows /\ snaps' = snaps /\ work' = work
    BY DEF BeginRestore, tables
  <1> DEFINE y == [NoRequest EXCEPT !.step = "wipe", !.snap = snap]
  <1>2. UsersOk(user, rows, D) /\ NoOne \in D /\ snap \in Seq(D)
    BY DEF Good
  <1>3. y \in UserRow(D) /\ y.step = "wipe" /\ y.props = {}
    BY <1>2, NoRequestIsOk DEF NoRequest, UserRow
  <1>4. AskOk(y, rows) /\ user' = [user EXCEPT ![u] = y]
    BY <1>1, <1>3 DEF AskOk
  <1> HIDE DEF y
  <1>5. UsersOk(user', rows, D)
    BY <1>2, <1>3, <1>4, UserTurns
  <1> QED
    BY <1>1, <1>5, RowsStand DEF Good

LEMMA RefillStep ==
  ASSUME NEW D, Good(D), NEW u \in Users, Refill(u)
  PROVE  Owed
  <1> DEFINE snap == user[u].snap
             new == [k \in DOMAIN snap |-> ByHand(snap[k])]
  <1>1. /\ rows' = rows \o new /\ Go(u, "version")
        /\ shows' = shows /\ snaps' = snaps /\ work' = work
    BY DEF Refill, Create, aside
  <1>2. snap \in Seq(D)
    BY UserIs DEF UserRow
  <1> HIDE DEF snap
  <1>3. DOMAIN new = DOMAIN snap /\ \A k \in DOMAIN new : new[k] = ByHand(snap[k])
    OBVIOUS
  <1>4. \A k \in DOMAIN new :
          /\ new[k] \in RowOf(D) /\ ~new[k].edited
          /\ new[k].entity = NoOne /\ TargetOk(new[k], rows)
    <2>1. \A k \in DOMAIN snap : snap[k] \in D
      BY <1>2
    <2> QED
      BY <1>3, <2>1, ByHandIs DEF Good
  <1>5. new \in Seq(RowOf(D))
    <2>1. Len(snap) \in Nat /\ DOMAIN new = 1..Len(snap)
      BY <1>2, <1>3
    <2>2. new = [k \in 1..Len(snap) |-> new[k]]
      BY <2>1
    <2> HIDE DEF new
    <2> QED
      BY <1>4, <2>1, <2>2
  <1> HIDE DEF new
  <1>6. /\ RowsOk(rows, D) /\ WorkOk(work, rows) /\ UsersOk(user, rows, D)
    BY DEF Good
  <1>7. /\ RowsOk(rows', D) /\ Kept(rows, rows') /\ OnlyEnds(rows, rows', {})
        /\ SparesKept(work, rows, rows') /\ NoneLinked(rows, rows')
    BY <1>1, <1>4, <1>5, <1>6, RowsAppend, UpdatesAreRows
  <1>8. WorkOk(work', rows') /\ UsersOk(user, rows', D)
    BY <1>1, <1>6, <1>7, WorkKept, UsersKept
  <1>9. UsersOk(user', rows', D)
    BY <1>1, <1>8, StepsOn
  <1> QED
    BY <1>1, <1>7, <1>8, <1>9, RowsMoveQuietly

\* A user's request ends.
LEMMA UserEndsStep ==
  ASSUME NEW D, Good(D), NEW u \in Users,
         user' = [user EXCEPT ![u] = NoRequest], shows' = shows, rows' = rows,
         work' = work, snaps' = snaps \/ snaps' = Baseline \cup {Contents}
  PROVE  Owed
  <1>1. PICK E : /\ Good(E) /\ Contents \in Seq(E) /\ Baseline \subseteq Seq(E)
    BY ContentsAre
  <1>2. snaps' \subseteq Seq(E)
    BY <1>1 DEF Good
  <1>3. UsersOk(user', rows, E)
    BY <1>1, UserTurns, NoRequestIsOk DEF Good
  <1> QED
    BY <1>1, <1>2, <1>3, RowsStand DEF Good

-----------------------------------------------------------------------------
(* The invariant, and what follows from it.                                *)

LEMMA InitTables == Init => TablesInv
  <1> SUFFICES ASSUME Init PROVE TablesInv
    OBVIOUS
  <1>1. PICK D : D = Data \cup {NoOne}
    OBVIOUS
  <1>2. RowsOk(rows, D)
    BY DEF Init, RowsOk
  <1>3. WorkOk(work, rows)
    BY IdleIsOk DEF Init, WorkOk, Workers
  <1>4. UsersOk(user, rows, D)
    BY <1>1, NoRequestIsOk DEF Init, UsersOk
  <1>5. shows \in [Entities -> Cells] /\ snaps \subseteq Seq(D)
    BY DEF Init
  <1> QED
    BY <1>1, <1>2, <1>3, <1>4, <1>5 DEF TablesInv, Good

\* Every step but CreateRows and MoveRows owes the same.
LEMMA StepOwes ==
  ASSUME TablesInv, Next, ~MoveRows, \A p \in Projectors : ~CreateRows(p)
  PROVE  Owed
  <1>1. PICK D : Good(D)
    BY DEF TablesInv
  <1>2. CASE FactsChange
    BY <1>1, <1>2, FactsStep
  <1>3. CASE \E p \in Projectors : Work(p)
    BY <1>1, <1>3, ReadFactsStep, ReadRowsStep, UpdateRowStep DEF Work
  <1>4. CASE ReadTable
    BY <1>1, <1>4, ReadTableStep
  <1>5. CASE Propose
    BY <1>1, <1>5, ProposeStep
  <1>6. CASE \E w \in Workers : WorkEnds(w)
    BY <1>1, <1>6, WorkEndsStep DEF WorkEnds, tables
  <1>7. ASSUME NEW u \in Users,
               \/ Change(u) \/ DecideProposals(u) \/ Rewind(u)
               \/ Version(u) \/ UserFails(u)
        PROVE  Owed
    <2>1. CASE Change(u)
      BY <1>1, <2>1, BeginChangeStep, InsertRowStep, EditRowStep, DeleteRowStep
         DEF Change
    <2>2. CASE DecideProposals(u)
      BY <1>1, <2>2, BeginAcceptStep, WriteTargetStep, DropProposalStep, AdmitStep,
         RejectStep DEF DecideProposals
    <2>3. CASE Rewind(u)
      BY <1>1, <2>3, BeginRestoreStep, WipeStep, RefillStep DEF Rewind
    <2>4. CASE Version(u)
      BY <1>1, <2>4, UserEndsStep DEF Version
    <2>5. CASE UserFails(u)
      BY <1>1, <2>5, UserEndsStep DEF UserFails, tables
    <2> QED
      BY <1>7, <2>1, <2>2, <2>3, <2>4, <2>5
  <1>8. CASE Dies
    BY <1>1, <1>8, WorkEndsStep, UserEndsStep DEF Dies, tables
  <1>9. CASE Tombstone
    BY <1>1, <1>9, RowsStand DEF Tombstone, Good
  <1>10. CASE PruneEntity
    BY <1>1, <1>10, PruneStep
  <1> QED
    BY <1>2, <1>3, <1>4, <1>5, <1>6, <1>7, <1>8, <1>9, <1>10 DEF Next

LEMMA TablesStep == TablesInv /\ [Next]_vars => TablesInv' /\ Awaited
  <1> SUFFICES ASSUME TablesInv, [Next]_vars PROVE TablesInv' /\ Awaited
    OBVIOUS
  <1>1. PICK D : Good(D)
    BY DEF TablesInv
  <1>2. CASE UNCHANGED vars
    BY <1>1, <1>2, RowsStand DEF Good, vars, Owed
  <1>3. CASE \E p \in Projectors : CreateRows(p)
    BY <1>1, <1>3, CreateRowsStep
  <1>4. CASE MoveRows
    BY <1>1, <1>4, RelinkStep DEF MoveRows
  <1>5. CASE Next /\ ~MoveRows /\ \A p \in Projectors : ~CreateRows(p)
    BY <1>5, StepOwes DEF Owed
  <1> QED
    BY <1>2, <1>3, <1>4, <1>5

THEOREM TablesHold == Spec => []TablesInv
  BY InitTables, TablesStep, PTL DEF Spec

\* A change that waits for review is a change of a row that is there and live,
\* whatever users deleted, rejected, accepted or restored after the sync read it
\* (proposeAgentRows, applyProposalRow, restoreSnapshot).
THEOREM ChangesTargetLiveRows == Spec => []TargetsAreLive
  <1>1. TablesInv => TargetsAreLive
    BY DEF TablesInv, Good, RowsOk, TargetOk, TargetsAreLive, Proposed, Accepted
  <1> QED
    BY <1>1, TablesHold, PTL

\* A row marked as edited holds what a person last typed into it, unless a
\* projection had planned to rewrite it at that moment (updateRow and the guard
\* of projectEntitiesToDataset), for any number of projections.
THEOREM EditsAreKept == Spec => []EditedHoldsTyped
  <1>1. TablesInv => EditedHoldsTyped
    BY DEF TablesInv, Good, RowsOk, TypedOk, EditedHoldsTyped, Accepted
  <1> QED
    BY <1>1, TablesHold, PTL

\* What waits for review leaves only by a decision on it or with the row it
\* would change, in every step of users, syncs and projections, and whoever dies.
THEOREM ProposalsWait == Spec => ProposalsAwaitDecision
  <1>1. TablesInv /\ [Next]_vars =>
          [\A r \in Proposed \ Proposed' :
             \/ \E u \in Users : DecidesOn(u, r)
             \/ rows[r].target # NoRow /\ rows'[rows[r].target] = Gone
             \/ \E u \in Users : Reject(u)]_vars
    BY TablesStep DEF Awaited
  <1> QED
    BY <1>1, TablesHold, PTL DEF Spec, ProposalsAwaitDecision

-----------------------------------------------------------------------------
(* How many rows an entity has: with those that are about to be added, no   *)
(* more than are due.                                                      *)

AccountInv ==
  /\ due \in [Entities -> Nat \ {0}]
  /\ \A e \in Entities : Cardinality(RowsOf(e)) + Cardinality(Adding(e)) <= due[e]

LEMMA OwnedAreFinite ==
  ASSUME TablesInv
  PROVE  \A e : IsFiniteSet(RowsOf(e)) /\ IsFiniteSet(Adding(e))
  <1> TAKE e
  <1>1. RowsOf(e) \subseteq 1..Len(rows) /\ Len(rows) \in Nat
    BY RowsAre DEF TablesInv, Good, RowsOf, Accepted
  <1>2. IsFiniteSet(RowsOf(e))
    <2>1. IsFiniteSet(1..Len(rows))
      BY <1>1, FS_Interval
    <2> QED
      BY <1>1, <2>1, FS_Subset
  <1>3. Adding(e) \subseteq Projectors /\ IsFiniteSet(Projectors)
    BY TableAssumption DEF Adding, TableAssumption
  <1>4. IsFiniteSet(Adding(e))
    BY <1>3, FS_Subset
  <1> QED
    BY <1>2, <1>4

LEMMA FewerOwned ==
  ASSUME NEW S, NEW T, IsFiniteSet(S), IsFiniteSet(T),
         NEW S2 \in SUBSET S, NEW T2 \in SUBSET T
  PROVE  /\ Cardinality(S) \in Nat /\ Cardinality(T) \in Nat
         /\ Cardinality(S2) \in Nat /\ Cardinality(T2) \in Nat
         /\ Cardinality(S2) <= Cardinality(S) /\ Cardinality(T2) <= Cardinality(T)
  <1>1. IsFiniteSet(S2) /\ Cardinality(S2) <= Cardinality(S)
    BY FS_Subset
  <1>2. IsFiniteSet(T2) /\ Cardinality(T2) <= Cardinality(T)
    BY FS_Subset
  <1> QED
    BY <1>1, <1>2, FS_CardinalityType

\* What a step owes each entity.
Accounts(e) ==
  /\ due'[e] \in Nat \ {0}
  /\ Cardinality(RowsOf(e)') + Cardinality(Adding(e)') <= due'[e]

LEMMA AllAccounted ==
  ASSUME DOMAIN due' = Entities, due' = [e \in Entities |-> due'[e]],
         \A e \in Entities : Accounts(e)
  PROVE  AccountInv'
  BY DEF AccountInv, Accounts

\* An entity that gains no row and that nobody plans to add.
LEMMA NothingGained ==
  ASSUME TablesInv, AccountInv, NEW e \in Entities, due'[e] = due[e],
         RowsOf(e)' \subseteq RowsOf(e), Adding(e)' \subseteq Adding(e)
  PROVE  Accounts(e)
  <1> DEFINE S == RowsOf(e)
             T == Adding(e)
             S2 == RowsOf(e)'
             T2 == Adding(e)'
  <1>1. IsFiniteSet(S) /\ IsFiniteSet(T)
    BY OwnedAreFinite
  <1>2. /\ due[e] \in Nat \ {0} /\ Cardinality(S) + Cardinality(T) <= due[e]
        /\ due'[e] = due[e]
    BY DEF AccountInv
  <1>3. S2 \in SUBSET S /\ T2 \in SUBSET T
    OBVIOUS
  <1> HIDE DEF S, T, S2, T2
  <1>4. Cardinality(S2) + Cardinality(T2) <= due'[e]
    BY <1>1, <1>2, <1>3, FewerOwned
  <1> QED
    BY <1>2, <1>4 DEF Accounts, S2, T2

\* A step that links no row and plans no new one.
LEMMA NothingLinked ==
  ASSUME TablesInv, AccountInv, NoneLinked(rows, rows'), due' = due,
         \A p \in Projectors : work'[p] = work[p] \/ work'[p].step # "create"
  PROVE  AccountInv'
  <1>1. ASSUME NEW e \in Entities
        PROVE  RowsOf(e)' \subseteq RowsOf(e) /\ Adding(e)' \subseteq Adding(e)
    <2>1. e # NoOne
      BY TableAssumption DEF TableAssumption
    <2>2. RowsOf(e)' \subseteq RowsOf(e)
      BY <2>1 DEF RowsOf, Accepted, NoneLinked
    <2>3. Adding(e)' \subseteq Adding(e)
      BY DEF Adding, At
    <2> QED
      BY <2>2, <2>3
  <1>2. \A e \in Entities : Accounts(e)
    BY <1>1, NothingGained
  <1>3. due' = [e \in Entities |-> due'[e]]
    BY DEF AccountInv
  <1> QED
    BY <1>2, <1>3, AllAccounted

\* The projection that reads the rows plans rows that are missing, and one that
\* another is about to add is due once more.
LEMMA PlansAccounted ==
  ASSUME TablesInv, AccountInv, NEW p \in Projectors, ReadRows(p)
  PROVE  AccountInv'
  <1> DEFINE seen == {e \in Entities : work[p].facts[e] # NoOne}
             unpicked(pick) == {e \in seen : pick[e] = NoRow}
  <1>1. PICK pick \in [seen -> Ids \cup {NoRow}] : \E plan :
          /\ At(p, "rows")
          /\ \A e \in seen : IF RowsOf(e) = {} THEN pick[e] = NoRow
                                               ELSE pick[e] \in RowsOf(e)
          /\ work' = [work EXCEPT ![p] = [@ EXCEPT !.step = "create",
               !.create = unpicked(pick), !.update = plan]]
          /\ due' = [e \in Entities |-> IF e \in unpicked(pick) /\ Adding(e) # {}
                                         THEN due[e] + 1 ELSE due[e]]
          /\ rows' = rows
    BY DEF ReadRows
  <1> DEFINE new == unpicked(pick)
  <1>2. PICK plan : work' = [work EXCEPT ![p] = [@ EXCEPT !.step = "create",
                                                 !.create = new, !.update = plan]]
    BY <1>1
  <1>3. \A r \in DOMAIN rows : r # NoRow
    BY RowsAre DEF TablesInv, Good, NoRow
  <1>4. \A e \in new : RowsOf(e) = {}
    BY <1>1, <1>3 DEF RowsOf, Accepted
  <1>5. work[p] \in ProjectorRow /\ DOMAIN work = Projectors \cup {Sync}
    BY DEF TablesInv, Good, WorkOk, Workers
  <1>6. /\ work'[p].create = new /\ work[p].step = "rows"
        /\ \A q \in Projectors : q # p => work'[q] = work[q]
    BY <1>1, <1>2, <1>5 DEF ProjectorRow, At
  <1> HIDE DEF new
  <1>7. ASSUME NEW e \in Entities
        PROVE  /\ RowsOf(e)' = RowsOf(e)
               /\ Adding(e)' \subseteq Adding(e) \cup {p}
               /\ e \notin new => Adding(e)' \subseteq Adding(e)
    BY <1>1, <1>6 DEF RowsOf, Accepted, Adding, At
  <1>8. due \in [Entities -> Nat \ {0}]
    BY DEF AccountInv
  <1>9. due' = [e \in Entities |-> due'[e]]
    BY <1>1
  <1>10. ASSUME NEW e \in Entities
         PROVE  Accounts(e)
    <2>1. CASE e \notin new
      <3>1. due'[e] = due[e]
        BY <1>1, <2>1 DEF new
      <3> QED
        BY <1>7, <2>1, <3>1, NothingGained
    <2>2. CASE e \in new
      <3>1. RowsOf(e)' = {} /\ RowsOf(e) = {}
        BY <1>4, <1>7, <2>2
      <3>2. due'[e] = IF Adding(e) # {} THEN due[e] + 1 ELSE due[e]
        BY <1>1, <2>2 DEF new
      <3> DEFINE T == Adding(e)
                 T2 == Adding(e)'
                 U == T \cup {p}
      <3>3. IsFiniteSet(T) /\ T2 \in SUBSET U
        BY <1>7, OwnedAreFinite
      <3>4. Cardinality(RowsOf(e)) + Cardinality(T) <= due[e]
        BY DEF AccountInv
      <3>5. Cardinality(RowsOf(e)) = 0 /\ Cardinality(RowsOf(e)') = 0
        BY <3>1, FS_EmptySet
      <3> HIDE DEF T, T2
      <3>6. IsFiniteSet(U) /\ Cardinality(U) <= Cardinality(T) + 1
            /\ Cardinality(T) \in Nat
        BY <3>3, FS_AddElement, FS_CardinalityType
      <3> HIDE DEF U
      <3>7. Cardinality(T2) \in Nat /\ Cardinality(T2) <= Cardinality(U)
            /\ Cardinality(U) \in Nat
        BY <3>3, <3>6, FS_Subset, FS_CardinalityType
      <3>8. T = {} => Cardinality(T) = 0
        BY FS_EmptySet
      <3>9. due'[e] \in Nat \ {0} /\ Cardinality(T2) <= due'[e]
        BY <1>8, <3>2, <3>4, <3>5, <3>6, <3>7, <3>8 DEF T
      <3> QED
        BY <3>5, <3>7, <3>9 DEF Accounts, T2
    <2> QED
      BY <2>1, <2>2
  <1> QED
    BY <1>9, <1>10, AllAccounted

LEMMA CreatesAccounted ==
  ASSUME TablesInv, AccountInv, NEW p \in Projectors, CreateRows(p)
  PROVE  AccountInv'
  <1>1. PICK D : Good(D)
    BY DEF TablesInv
  <1>2. /\ work' = [work EXCEPT ![p] = [@ EXCEPT !.step = "update", !.create = {}]]
        /\ \A r \in DOMAIN rows : r \in DOMAIN rows' /\ rows'[r] = rows[r]
        /\ \A r \in DOMAIN rows' \ DOMAIN rows : rows'[r].entity \in work[p].create
        /\ \A q, r \in DOMAIN rows' \ DOMAIN rows :
             rows'[q].entity = rows'[r].entity => q = r
    BY <1>1, CreateRowsStep
  <1>3. work[p] \in ProjectorRow /\ DOMAIN work = Projectors \cup {Sync}
    BY <1>1 DEF Good, WorkOk, Workers
  <1>4. work'[p].create = {} /\ \A q \in Projectors : q # p => work'[q] = work[q]
    BY <1>2, <1>3 DEF ProjectorRow
  <1>5. due' = due /\ At(p, "create")
    BY DEF CreateRows, aside
  <1>6. due' = [e \in Entities |-> due'[e]]
    BY <1>5 DEF AccountInv
  <1>7. ASSUME NEW e \in Entities
        PROVE  /\ Adding(e)' \subseteq Adding(e) \ {p}
               /\ e \in work[p].create <=> p \in Adding(e)
    BY <1>4, <1>5 DEF Adding, At
  <1>8. ASSUME NEW e \in Entities
        PROVE  Accounts(e)
    <2>1. CASE e \notin work[p].create
      <3>1. RowsOf(e)' \subseteq RowsOf(e)
        BY <1>2, <2>1 DEF RowsOf, Accepted
      <3> QED
        BY <1>5, <1>7, <3>1, NothingGained
    <2>2. CASE e \in work[p].create
      <3>1. PICK r : RowsOf(e)' \subseteq RowsOf(e) \cup {r}
        <4>1. CASE \E r \in DOMAIN rows' \ DOMAIN rows : rows'[r].entity = e
          BY <1>2, <4>1 DEF RowsOf, Accepted
        <4>2. CASE \A r \in DOMAIN rows' \ DOMAIN rows : rows'[r].entity # e
          BY <1>2, <4>2 DEF RowsOf, Accepted
        <4> QED
          BY <4>1, <4>2
      <3> DEFINE S == RowsOf(e)
                 T == Adding(e)
                 S2 == RowsOf(e)'
                 T2 == Adding(e)'
                 U == S \cup {r}
                 V == T \ {p}
      <3>2. IsFiniteSet(S) /\ IsFiniteSet(T) /\ p \in T
        BY <1>7, <2>2, OwnedAreFinite
      <3>3. S2 \in SUBSET U /\ T2 \in SUBSET V
        BY <1>7, <3>1
      <3>4. /\ due[e] \in Nat \ {0} /\ due'[e] = due[e]
            /\ Cardinality(S) + Cardinality(T) <= due[e]
        BY <1>5 DEF AccountInv
      <3> HIDE DEF S, T, S2, T2
      <3>5. IsFiniteSet(U) /\ Cardinality(U) <= Cardinality(S) + 1
            /\ Cardinality(S) \in Nat
        <4>1. Cardinality(S) \in Nat
          BY <3>2, FS_CardinalityType
        <4>2. /\ IsFiniteSet(U)
              /\ Cardinality(U) = IF r \in S THEN Cardinality(S)
                                             ELSE Cardinality(S) + 1
          BY <3>2, FS_AddElement
        <4> HIDE DEF U
        <4> QED
          BY <4>1, <4>2
      <3>6. IsFiniteSet(V) /\ Cardinality(V) = Cardinality(T) - 1
            /\ Cardinality(T) \in Nat
        BY <3>2, FS_RemoveElement, FS_CardinalityType
      <3> HIDE DEF U, V
      <3>7. Cardinality(S2) + Cardinality(T2) <= due'[e]
        BY <3>3, <3>4, <3>5, <3>6, FewerOwned
      <3> QED
        BY <3>4, <3>7 DEF Accounts, S2, T2
    <2> QED
      BY <2>1, <2>2
  <1> QED
    BY <1>6, <1>8, AllAccounted

\* A merge gives the winner the loser's rows, and what was due of them.
LEMMA MovesAccounted ==
  ASSUME TablesInv, AccountInv, MoveRows
  PROVE  AccountInv'
  <1>1. PICK D : Good(D)
    BY DEF TablesInv
  <1>2. PICK l \in Entities, w \in Entities :
          /\ l # w /\ rows' = Relinked(l, w)
          /\ due' = [due EXCEPT ![w] = IF RowsOf(l) = {} THEN @ ELSE @ + due[l]]
          /\ UNCHANGED <<shows, snaps, work, user>>
    BY DEF MoveRows
  <1>3. /\ DOMAIN rows' = DOMAIN rows
        /\ \A r \in DOMAIN rows :
             /\ rows'[r].status = rows[r].status
             /\ rows'[r].entity = IF rows[r].entity = l THEN w ELSE rows[r].entity
    BY <1>1, <1>2, RelinkStep
  <1>4. due \in [Entities -> Nat \ {0}]
    BY DEF AccountInv
  <1>5. due' = [e \in Entities |-> due'[e]]
    BY <1>2, <1>4
  <1>6. \A e \in Entities : Adding(e)' = Adding(e)
    BY <1>2 DEF Adding, At
  <1>7. ASSUME NEW e \in Entities
        PROVE  Accounts(e)
    <2>1. CASE e # w
      <3>1. due'[e] = due[e] /\ RowsOf(e)' \subseteq RowsOf(e)
        BY <1>2, <1>3, <1>4, <2>1 DEF RowsOf, Accepted
      <3> QED
        BY <1>6, <3>1, NothingGained
    <2>2. CASE e = w /\ RowsOf(l) = {}
      <3>1. due'[e] = due[e] /\ RowsOf(e)' \subseteq RowsOf(e)
        BY <1>2, <1>3, <1>4, <2>2 DEF RowsOf, Accepted
      <3> QED
        BY <1>6, <3>1, NothingGained
    <2>3. CASE e = w /\ RowsOf(l) # {}
      <3> DEFINE S == RowsOf(e)
                 L == RowsOf(l)
                 T == Adding(e)
                 S2 == RowsOf(e)'
                 U == S \cup L
      <3>1. IsFiniteSet(S) /\ IsFiniteSet(L) /\ IsFiniteSet(T)
            /\ IsFiniteSet(Adding(l))
        BY OwnedAreFinite
      <3>2. S2 \in SUBSET U
        BY <1>2, <1>3, <2>3 DEF RowsOf, Accepted
      <3>3. due'[e] = due[e] + due[l] /\ Adding(e)' = T
            /\ due[e] \in Nat \ {0} /\ due[l] \in Nat \ {0}
        BY <1>2, <1>4, <1>6, <2>3
      <3>4. /\ Cardinality(S) + Cardinality(T) <= due[e]
            /\ Cardinality(L) + Cardinality(Adding(l)) <= due[l]
        BY DEF AccountInv
      <3> HIDE DEF S, L, T, S2
      <3>5. /\ Cardinality(S) \in Nat /\ Cardinality(L) \in Nat
            /\ Cardinality(T) \in Nat /\ Cardinality(Adding(l)) \in Nat
            /\ Cardinality(S \cap L) \in Nat
        BY <3>1, FS_Intersection, FS_CardinalityType
      <3>6. IsFiniteSet(U) /\ Cardinality(U) <= Cardinality(S) + Cardinality(L)
        <4>1. /\ IsFiniteSet(U)
              /\ Cardinality(U) = Cardinality(S) + Cardinality(L)
                                    - Cardinality(S \cap L)
          BY <3>1, FS_Union
        <4> HIDE DEF U
        <4> QED
          BY <3>5, <4>1
      <3> HIDE DEF U
      <3>7. Cardinality(S2) \in Nat /\ Cardinality(S2) <= Cardinality(U)
            /\ Cardinality(U) \in Nat
        BY <3>2, <3>6, FS_Subset, FS_CardinalityType
      <3>8. due'[e] \in Nat \ {0} /\ Cardinality(S2) + Cardinality(T) <= due'[e]
        BY <3>3, <3>4, <3>5, <3>6, <3>7
      <3> QED
        BY <3>3, <3>8 DEF Accounts, S2
    <2> QED
      BY <2>1, <2>2, <2>3
  <1> QED
    BY <1>5, <1>7, AllAccounted

\* No other step plans a row, or owes one.
LEMMA NothingPlanned ==
  ASSUME TablesInv, Next, ~MoveRows,
         \A p \in Projectors : ~CreateRows(p) /\ ~ReadRows(p)
  PROVE  /\ due' = due
         /\ \A p \in Projectors : work'[p] = work[p] \/ work'[p].step # "create"
  <1>1. PICK D : Good(D)
    BY DEF TablesInv
  <1>2. /\ DOMAIN work = Workers /\ Idle.step = "idle"
        /\ \A p \in Projectors : work[p] \in ProjectorRow
    BY <1>1 DEF Good, WorkOk, Idle
  <1> DEFINE Quiet == \A q \in Projectors : work'[q] = work[q]
                                              \/ work'[q].step # "create"
  <1>3. ASSUME NEW w \in Workers, work' = [work EXCEPT ![w] = Idle]
        PROVE  Quiet
    BY <1>2, <1>3 DEF Workers
  <1>4. ASSUME NEW p \in Projectors, Work(p)
        PROVE  due' = due /\ Quiet
    <2>1. CASE ReadFacts(p)
      <3>1. work'[p].step = "rows" /\ \A q \in Projectors \ {p} : work'[q] = work[q]
        BY <1>2, <2>1 DEF ReadFacts, Workers, Idle
      <3> QED
        BY <2>1, <3>1 DEF ReadFacts, tables
    <2>2. CASE UpdateRow(p)
      <3>1. /\ work'[p].step = "update"
            /\ \A q \in Projectors \ {p} : work'[q] = work[q]
        BY <1>2, <2>2 DEF UpdateRow, Workers, ProjectorRow, At
      <3> QED
        BY <2>2, <3>1 DEF UpdateRow, aside
    <2> QED
      BY <1>4, <2>1, <2>2 DEF Work
  <1>5. CASE ReadTable \/ Propose
    <2>1. \A q \in Projectors : work'[q] = work[q]
      BY <1>2, <1>5, TableAssumption DEF TableAssumption, ReadTable, Propose, Workers
    <2> QED
      BY <1>5, <2>1 DEF ReadTable, Propose, tables, aside
  <1>6. CASE \E w \in Workers : WorkEnds(w)
    BY <1>3, <1>6 DEF WorkEnds, tables
  <1>7. CASE Dies
    BY <1>3, <1>7 DEF Dies, tables
  <1>8. CASE FactsChange \/ Tombstone \/ PruneEntity
    BY <1>8 DEF FactsChange, Tombstone, PruneEntity
  <1>9. ASSUME NEW u \in Users,
               \/ Change(u) \/ DecideProposals(u) \/ Rewind(u)
               \/ Version(u) \/ UserFails(u)
        PROVE  work' = work /\ due' = due
    BY <1>9 DEF Change, DecideProposals, Rewind, BeginChange, InsertRow, EditRow,
       DeleteRow, BeginAccept, WriteTarget, DropProposal, Admit, Reject,
       BeginRestore, Wipe, Refill, Version, UserFails, tables, aside
  <1> QED
    BY <1>4, <1>5, <1>6, <1>7, <1>8, <1>9 DEF Next

\* An entity never has more rows than merges and overlapping projections account
\* for, whatever users delete, accept and restore meanwhile and wherever a
\* projection dies ("re-projecting updates rows instead of duplicating them",
\* project.ts; the repointing of mergeEntities); so one row of an entity that no
\* merge gave another's rows and no two projections were adding at once.
THEOREM RowsAreAccountedFor == Spec => []RowsAccounted
  <1>1. Init => AccountInv
    <2> SUFFICES ASSUME Init PROVE AccountInv
      OBVIOUS
    <2>1. ASSUME NEW e \in Entities
          PROVE  RowsOf(e) = {} /\ Adding(e) = {}
      BY DEF Init, Accepted, RowsOf, Adding, At, Idle, Workers
    <2>2. due = [e \in Entities |-> 1]
      BY DEF Init
    <2> QED
      BY <2>1, <2>2, FS_EmptySet DEF AccountInv
  <1>2. TablesInv /\ AccountInv /\ [Next]_vars => AccountInv'
    <2> SUFFICES ASSUME TablesInv, AccountInv, [Next]_vars PROVE AccountInv'
      OBVIOUS
    <2>1. CASE UNCHANGED vars
      <3>1. due' = due /\ NoneLinked(rows, rows')
            /\ \A p \in Projectors : work'[p] = work[p]
        BY <2>1, SameRows DEF vars
      <3> QED
        BY <3>1, NothingLinked
    <2>2. CASE \E p \in Projectors : CreateRows(p)
      BY <2>2, CreatesAccounted
    <2>3. CASE \E p \in Projectors : ReadRows(p)
      BY <2>3, PlansAccounted
    <2>4. CASE MoveRows
      BY <2>4, MovesAccounted
    <2>5. CASE Next /\ ~MoveRows /\ \A p \in Projectors : ~CreateRows(p) /\ ~ReadRows(p)
      BY <2>5, StepOwes, NothingPlanned, NothingLinked DEF Owed
    <2> QED
      BY <2>1, <2>2, <2>3, <2>4, <2>5
  <1>3. TablesInv /\ AccountInv => RowsAccounted
    <2> SUFFICES ASSUME TablesInv, AccountInv, NEW e \in Entities
                 PROVE  Cardinality(RowsOf(e)) <= due[e]
      BY DEF RowsAccounted
    <2>1. Cardinality(RowsOf(e)) \in Nat /\ Cardinality(Adding(e)) \in Nat
      BY OwnedAreFinite, FS_CardinalityType
    <2> QED
      BY <2>1 DEF AccountInv
  <1> QED
    BY <1>1, <1>2, <1>3, TablesHold, PTL DEF Spec

-----------------------------------------------------------------------------
(* Types.  What a version holds is data only if every position up to their  *)
(* number is an accepted row's.                                             *)

FateTyped(i, d) == /\ i \in [Entities -> {"live", "moved", "merged", "pruned"}]
                   /\ d \in [Entities -> Nat]
RowsTyped(rs) == rs \in Seq(Row \cup {Gone}) /\ Len(rs) <= MaxRows
PlannerRow ==
  [step : {"idle", "rows", "create", "update"},
   facts : [Entities -> Cells \cup {NoOne}],
   create : SUBSET Entities, update : SUBSET (Ids \X Data)]
SheetRow ==
  [step : {"idle", "propose"}, facts : [Entities -> Cells \cup {NoOne}],
   create : SUBSET Data, update : SUBSET (Ids \X Data)]
PlannerTyped(w) == w \in PlannerRow /\ \A e \in w.create : w.facts[e] \in Cells
WorkTyped(w) ==
  /\ w \in [Workers -> PlannerRow \cup SheetRow]
  /\ \A p \in Projectors : PlannerTyped(w[p])
  /\ w[Sync] \in SheetRow
AskTyped(x) == x \in Request /\ (x.step \in {"add", "edit"} => x.data \in Data)
UsersTyped(x) == x \in [Users -> Request] /\ \A u \in Users : AskTyped(x[u])
CountersTyped(c) == c \in [ops : 0..MaxOps, runs : 0..MaxRuns]

TableTypes ==
  /\ FateTyped(identity, due)
  /\ shows \in [Entities -> Cells]
  /\ RowsTyped(rows)
  /\ snaps \subseteq Seq(Data)
  /\ WorkTyped(work)
  /\ UsersTyped(user)
  /\ CountersTyped(counters)

-----------------------------------------------------------------------------
LEMMA TypedRowsAre ==
  ASSUME NEW rs, RowsTyped(rs)
  PROVE  /\ Len(rs) \in Nat /\ DOMAIN rs = 1..Len(rs) /\ DOMAIN rs \subseteq Ids
         /\ \A r \in DOMAIN rs : rs[r] # Gone => rs[r] \in Row
  BY TableAssumption DEF RowsTyped, Ids, TableAssumption

\* The rows a statement refers to are those of Row: not gone.
LEMMA LiveRows ==
  ASSUME RowsTyped(rows)
  PROVE  \A r \in Accepted \cup Proposed \cup Asked :
           r \in DOMAIN rows /\ r \in Ids /\ rows[r] \in Row
  BY TypedRowsAre DEF Accepted, Proposed, Asked, Gone

\* The k-th accepted row is one: the number of accepted rows up to a row takes
\* every value up to their number.
LEMMA KthAccepted ==
  ASSUME RowsTyped(rows), NEW k \in 1..Cardinality(Accepted)
  PROVE  Accepts(k) \in Accepted
<1> DEFINE A == Accepted
           n == Cardinality(A)
           upTo(r) == {q \in A : q <= r}
           f == [r \in A |-> Cardinality(upTo(r))]
<1>1. A \subseteq 1..Len(rows) /\ Len(rows) \in Nat
  BY TypedRowsAre DEF Accepted
<1>2. IsFiniteSet(A) /\ n \in Nat
  <2>1. IsFiniteSet(1..Len(rows))
    BY <1>1, FS_Interval
  <2>2. IsFiniteSet(A)
    BY <1>1, <2>1, FS_Subset
  <2>3. QED
    BY <2>2, FS_CardinalityType
<1> HIDE DEF A
<1>3. \A r \in A : IsFiniteSet(upTo(r)) /\ Cardinality(upTo(r)) \in 1..n
  <2> TAKE r \in A
  <2> DEFINE U == upTo(r)
  <2>1. U \subseteq A /\ r \in U /\ r \in Nat
    BY <1>1
  <2> HIDE DEF U
  <2>2. IsFiniteSet(U) /\ Cardinality(U) <= n /\ Cardinality(U) \in Nat
    BY <1>2, <2>1, FS_Subset, FS_CardinalityType
  <2>3. Cardinality(U) # 0
    BY <2>1, <2>2, FS_EmptySet
  <2>4. QED
    BY <1>2, <2>2, <2>3 DEF U
<1>4. \A q, r \in A : q < r => Cardinality(upTo(q)) # Cardinality(upTo(r))
  <2> SUFFICES ASSUME NEW q \in A, NEW r \in A, q < r
               PROVE  Cardinality(upTo(q)) # Cardinality(upTo(r))
    OBVIOUS
  <2> DEFINE U == upTo(q)
             V == upTo(r)
  <2>0. q \in Nat /\ r \in Nat /\ \A p \in A : p \in Nat
    BY <1>1
  <2>a. (\A p \in A : p <= q => p <= r) /\ r <= r /\ ~(r <= q)
    BY <2>0
  <2>1. U \subseteq V /\ r \in V /\ r \notin U
    BY <2>a
  <2>2. IsFiniteSet(V)
    BY <1>3
  <2> HIDE DEF U, V
  <2>3. Cardinality(U) # Cardinality(V)
    <3>1. ASSUME NEW S, IsFiniteSet(S), NEW T \in SUBSET S
          PROVE  Cardinality(S) = Cardinality(T) => S = T
      BY <3>1, FS_Subset
    <3>2. Cardinality(V) = Cardinality(U) => V = U
      BY <2>1, <2>2, <3>1
    <3>3. QED
      BY <2>1, <3>2
  <2>4. QED
    BY <2>3 DEF U, V
<1> HIDE DEF upTo
<1>5. f \in Injection(A, 1..n)
  <2>1. f \in [A -> 1..n]
    BY <1>3
  <2>2. ASSUME NEW q \in A, NEW r \in A, f[q] = f[r]
        PROVE  q = r
    <3>1. q \in Nat /\ r \in Nat /\ f[q] = Cardinality(upTo(q))
          /\ f[r] = Cardinality(upTo(r))
      BY <1>1
    <3>2. ~(q < r) /\ ~(r < q)
      BY <1>4, <2>2, <3>1
    <3>3. QED
      BY <3>1, <3>2
  <2>3. QED
    BY <2>1, <2>2 DEF Injection, IsInjective
<1>6. IsFiniteSet(1..n) /\ Cardinality(1..n) = n
  BY <1>2, FS_Interval
<1>7. f \in Surjection(A, 1..n)
  <2> HIDE DEF f
  <2>1. ASSUME NEW S, NEW T, NEW g \in Injection(S, T), IsFiniteSet(T),
               Cardinality(S) = Cardinality(T)
        PROVE  g \in Surjection(S, T)
    BY <2>1, FS_Injection
  <2>2. QED
    BY <1>5, <1>6, <2>1
<1>8. PICK r \in A : f[r] = k
  BY <1>7 DEF Surjection, A
<1>9. \E q \in Accepted : Cardinality({s \in Accepted : s <= q}) = k
  BY <1>8 DEF A, upTo
<1>10. QED
  BY <1>9 DEF Accepts

LEMMA ContentsTyped ==
  ASSUME RowsTyped(rows)
  PROVE  Contents \in Seq(Data)
<1>1. Cardinality(Accepted) \in Nat
  <2>1. Accepted \subseteq 1..Len(rows) /\ Len(rows) \in Nat
    BY TypedRowsAre DEF Accepted
  <2>2. IsFiniteSet(1..Len(rows))
    BY <2>1, FS_Interval
  <2>3. IsFiniteSet(Accepted)
    BY <2>1, <2>2, FS_Subset
  <2>4. QED
    BY <2>3, FS_CardinalityType
<1>2. \A k \in 1..Cardinality(Accepted) : rows[Accepts(k)].data \in Data
  <2> TAKE k \in 1..Cardinality(Accepted)
  <2>1. rows[Accepts(k)] \in Row
    BY KthAccepted, LiveRows
  <2>2. QED
    BY <2>1 DEF Row
<1>3. QED
  BY <1>1, <1>2 DEF Contents

LEMMA VersionsTyped ==
  ASSUME TableTypes
  PROVE  Contents \in Seq(Data) /\ Baseline \subseteq Seq(Data)
  BY ContentsTyped DEF TableTypes, Baseline

-----------------------------------------------------------------------------
(* How rows change.                                                        *)

LEMMA WriteTyped ==
  ASSUME NEW rs, RowsTyped(rs), NEW r \in DOMAIN rs, rs[r] # Gone,
         NEW x \in Row
  PROVE  RowsTyped([rs EXCEPT ![r] = x])
<1> DEFINE two == [rs EXCEPT ![r] = x]
<1>1. Len(rs) \in Nat /\ DOMAIN rs = 1..Len(rs)
  BY TypedRowsAre
<1>2. two \in Seq(Row \cup {Gone}) /\ Len(two) = Len(rs)
  BY <1>1 DEF RowsTyped
<1> HIDE DEF two
<1>3. QED
  BY <1>2 DEF RowsTyped, two

LEMMA GoTyped ==
  ASSUME RowsTyped(rows), NEW gone
  PROVE  RowsTyped(Without(gone))
<1> DEFINE two == Without(gone)
           going(r) == r \in gone \/ rows[r].target \in gone
<1>1. Len(rows) \in Nat /\ DOMAIN rows = 1..Len(rows)
  BY TypedRowsAre
<1>2. two = [r \in 1..Len(rows) |-> IF going(r) THEN Gone ELSE rows[r]]
  BY <1>1 DEF Without
<1>3. \A r \in 1..Len(rows) : rows[r] \in Row \cup {Gone}
  BY <1>1 DEF RowsTyped
<1> HIDE DEF two, going
<1>4. two \in Seq(Row \cup {Gone}) /\ Len(two) = Len(rows)
  BY <1>1, <1>2, <1>3
<1>5. QED
  BY <1>4 DEF RowsTyped, two

LEMMA CreateTyped ==
  ASSUME RowsTyped(rows), NEW new \in Seq(Row), Create(new)
  PROVE  RowsTyped(rows')
<1>1. Len(rows) \in Nat /\ DOMAIN rows = 1..Len(rows) /\ Len(new) \in Nat
  BY TypedRowsAre
<1>2. rows' = rows \o new /\ Len(rows) + Len(new) <= MaxRows
  BY DEF Create
<1>3. rows' \in Seq(Row \cup {Gone}) /\ Len(rows') = Len(rows) + Len(new)
  BY <1>1, <1>2 DEF RowsTyped
<1>4. QED
  BY <1>2, <1>3 DEF RowsTyped

LEMMA PlannerMoves ==
  ASSUME NEW w, WorkTyped(w), NEW p \in Projectors, NEW x, PlannerTyped(x)
  PROVE  WorkTyped([w EXCEPT ![p] = x])
  BY TableAssumption DEF TableAssumption, WorkTyped, Workers, PlannerTyped

LEMMA SheetMoves ==
  ASSUME NEW w, WorkTyped(w), NEW x \in SheetRow
  PROVE  WorkTyped([w EXCEPT ![Sync] = x])
  BY TableAssumption DEF TableAssumption, WorkTyped, Workers

LEMMA IdleTyped ==
  Idle \in SheetRow /\ PlannerTyped(Idle)
  BY DEF Idle, SheetRow, PlannerRow, PlannerTyped

LEMMA WorkerStops ==
  ASSUME NEW w, WorkTyped(w), NEW v \in Workers
  PROVE  WorkTyped([w EXCEPT ![v] = Idle])
  BY IdleTyped, PlannerMoves, SheetMoves DEF Workers

LEMMA UserMoves ==
  ASSUME NEW x, UsersTyped(x), NEW u \in Users, NEW y, AskTyped(y)
  PROVE  UsersTyped([x EXCEPT ![u] = y])
  BY DEF UsersTyped, AskTyped

LEMMA NoRequestTyped == AskTyped(NoRequest)
  BY DEF NoRequest, AskTyped, Request, NoRow

LEMMA UserGoesTyped ==
  ASSUME UsersTyped(user), NEW u \in Users, NEW s \in {"apply", "refill", "version"},
         Go(u, s)
  PROVE  UsersTyped(user')
<1> DEFINE y == [user[u] EXCEPT !.step = s]
<1>1. user[u] \in Request /\ user \in [Users -> Request]
  BY DEF UsersTyped
<1>2. user' = [user EXCEPT ![u] = y] /\ AskTyped(y)
  BY <1>1 DEF Go, Request, AskTyped
<1> HIDE DEF y
<1>3. QED
  BY <1>2, UserMoves

LEMMA CountTyped ==
  ASSUME CountersTyped(counters)
  PROVE  /\ counters.ops < MaxOps /\ Count("ops") => CountersTyped(counters')
         /\ counters.runs < MaxRuns /\ Count("runs") => CountersTyped(counters')
  BY TableAssumption DEF CountersTyped, Count, TableAssumption

-----------------------------------------------------------------------------
(* The steps.                                                              *)

LEMMA ReadFactsTyped ==
  ASSUME TableTypes, NEW p \in Projectors, ReadFacts(p)
  PROVE  TableTypes'
<1> DEFINE seen == [e \in Entities |-> IF Seen(e) THEN shows[e] ELSE NoOne]
           x == [Idle EXCEPT !.step = "rows", !.facts = seen]
<1>1. /\ work' = [work EXCEPT ![p] = x] /\ UNCHANGED <<identity, due, shows, rows, snaps, user>>
      /\ counters.runs < MaxRuns /\ Count("runs")
  BY DEF ReadFacts, tables
<1>2. PlannerTyped(x)
  <2>1. seen \in [Entities -> Cells \cup {NoOne}]
    BY DEF TableTypes
  <2> HIDE DEF seen
  <2>2. QED
    BY <2>1 DEF Idle, PlannerRow, PlannerTyped
<1> HIDE DEF x
<1>3. WorkTyped(work')
  BY <1>1, <1>2, PlannerMoves DEF TableTypes
<1>4. QED
  BY <1>1, <1>3, CountTyped DEF TableTypes

LEMMA ReadRowsTyped ==
  ASSUME TableTypes, NEW p \in Projectors, ReadRows(p)
  PROVE  TableTypes'
<1> DEFINE facts == work[p].facts
           seen == {e \in Entities : facts[e] # NoOne}
           unpicked(pick) == {e \in seen : pick[e] = NoRow}
           plan(pick) == {<<pick[e], <<e, facts[e]>>>> :
               e \in {e \in seen \ unpicked(pick) : Rewritable(p, pick[e])}}
<1>1. PICK pick \in [seen -> Ids \cup {NoRow}] :
        /\ work' = [work EXCEPT ![p] = [@ EXCEPT !.step = "create",
             !.create = unpicked(pick), !.update = plan(pick)]]
        /\ due' = [e \in Entities |-> IF e \in unpicked(pick) /\ Adding(e) # {}
                                       THEN due[e] + 1 ELSE due[e]]
        /\ UNCHANGED <<identity, shows, rows, snaps, user, counters>>
  BY DEF ReadRows
<1> DEFINE new == unpicked(pick)
           todo == plan(pick)
           x == [work[p] EXCEPT !.step = "create", !.create = new, !.update = todo]
<1>2. /\ work[p] \in PlannerRow /\ work \in [Workers -> PlannerRow \cup SheetRow]
      /\ facts \in [Entities -> Cells \cup {NoOne}] /\ p \in Workers
  BY DEF TableTypes, WorkTyped, PlannerTyped, PlannerRow, Workers
<1>3. work' = [work EXCEPT ![p] = x]
  BY <1>1, <1>2
<1>4. \A e \in seen : e \in Entities /\ facts[e] \in Cells /\ <<e, facts[e]>> \in Data
  BY <1>2, TableAssumption DEF TableAssumption, Data
<1>5. new \subseteq seen
  OBVIOUS
<1>6. todo \subseteq Ids \X Data
  BY <1>4
<1>7. FateTyped(identity', due')
  <2>1. FateTyped(identity, due)
    BY DEF TableTypes
  <2> HIDE DEF unpicked
  <2>2. QED
    BY <1>1, <2>1 DEF FateTyped
<1> HIDE DEF facts, unpicked, plan, new, todo
<1>8. x \in PlannerRow /\ x.create = new /\ x.facts = work[p].facts
  BY <1>2, <1>4, <1>5, <1>6 DEF PlannerRow
<1> HIDE DEF x
<1>9. PlannerTyped(x)
  BY <1>4, <1>5, <1>8 DEF PlannerTyped, facts
<1>10. WorkTyped(work')
  BY <1>3, <1>9, PlannerMoves DEF TableTypes
<1>11. QED
  BY <1>1, <1>7, <1>10 DEF TableTypes

LEMMA ByHandTyped ==
  ASSUME NEW d \in Data, NEW e \in Entities \cup {NoOne}, NEW t \in Ids \cup {NoRow}
  PROVE  /\ ByHand(d) \in Row /\ [ByHand(d) EXCEPT !.entity = e] \in Row
         /\ Proposal(d, t) \in Row
  BY DEF ByHand, Proposal, Row, NoRow

LEMMA CreateRowsTyped ==
  ASSUME TableTypes, NEW p \in Projectors, CreateRows(p)
  PROVE  TableTypes'
<1> DEFINE todo == work[p].create
           row(e) == [ByHand(<<e, work[p].facts[e]>>) EXCEPT !.entity = e]
           S == {row(e) : e \in todo}
           x == [work[p] EXCEPT !.step = "update", !.create = {}]
<1>1. PICK new \in Orders(S) :
        /\ work[p].step = "create"
        /\ Create(new)
        /\ work' = [work EXCEPT ![p] = [@ EXCEPT !.step = "update", !.create = {}]]
        /\ UNCHANGED <<identity, due, shows, snaps, user, counters>>
  BY DEF CreateRows, At, aside
<1>2. /\ work[p] \in PlannerRow /\ work \in [Workers -> PlannerRow \cup SheetRow]
      /\ p \in Workers /\ PlannerTyped(work[p]) /\ RowsTyped(rows) /\ WorkTyped(work)
  BY <1>1 DEF TableTypes, WorkTyped, PlannerTyped, Workers
<1>3. todo \subseteq Entities /\ IsFiniteSet(todo)
  BY <1>2, TableAssumption, FS_Subset DEF PlannerRow, TableAssumption
<1>4. \A e \in todo : row(e) \in Row
  <2> TAKE e \in todo
  <2>1. <<e, work[p].facts[e]>> \in Data
    BY <1>2, <1>3, TableAssumption DEF Data, TableAssumption, PlannerTyped
  <2>2. NoRow \in Ids \cup {NoRow}
    OBVIOUS
  <2>3. QED
    BY <1>3, <2>1, <2>2, ByHandTyped
<1>5. IsFiniteSet(S)
  <2> DEFINE f == [e \in todo |-> row(e)]
  <2>1. f \in Surjection(todo, S)
    <3> HIDE DEF row, todo
    <3> QED
      BY DEF Surjection
  <2> HIDE DEF f, S, row, todo
  <2> QED
    BY <1>3, <2>1, FS_Surjection
<1>6. S \subseteq Row
  BY <1>4
<1>7. new \in Seq(Row)
  <2> HIDE DEF S
  <2>1. new \in Seq(S)
    BY <1>1, <1>5, OrdersAre
  <2>2. QED
    BY <1>6, <2>1
<1> HIDE DEF S, row, todo
<1>8. RowsTyped(rows')
  BY <1>1, <1>2, <1>7, CreateTyped
<1>9. work' = [work EXCEPT ![p] = x]
  BY <1>1, <1>2
<1>10. PlannerTyped(x)
  BY <1>2, <1>8 DEF PlannerTyped, PlannerRow
<1> HIDE DEF x
<1>11. WorkTyped(work')
  BY <1>2, <1>8, <1>9, <1>10, PlannerMoves
<1>12. QED
  BY <1>1, <1>8, <1>11 DEF TableTypes

LEMMA UpdateRowTyped ==
  ASSUME TableTypes, TablesInv, NEW p \in Projectors, UpdateRow(p)
  PROVE  TableTypes'
<1>1. PICK u \in work[p].update :
        /\ rows[u[1]] # Gone
        /\ rows' = [rows EXCEPT ![u[1]].data = u[2]]
        /\ work' = [work EXCEPT ![p].update = @ \ {u}]
        /\ UNCHANGED <<identity, due, shows, snaps, user, counters>>
  BY DEF UpdateRow, Exists, aside
<1> DEFINE r == u[1]
           d == u[2]
           y == [rows[r] EXCEPT !.data = d]
           x == [work[p] EXCEPT !.update = @ \ {u}]
<1>2. /\ work[p] \in PlannerRow /\ work \in [Workers -> PlannerRow \cup SheetRow]
      /\ p \in Workers /\ PlannerTyped(work[p]) /\ RowsTyped(rows) /\ WorkTyped(work)
  BY DEF TableTypes, WorkTyped, PlannerTyped, Workers
<1>3. r \in DOMAIN rows
  BY DEF TablesInv, Good, WorkOk, PlanOk, Settled
<1>4. rows[r] \in Row /\ d \in Data
  BY <1>1, <1>2, <1>3, TypedRowsAre DEF PlannerRow
<1>5. rows' = [rows EXCEPT ![r] = y]
  BY <1>1, <1>3
<1>6. y \in Row /\ rows[r] # Gone
  BY <1>1, <1>4 DEF Row
<1> HIDE DEF y, r, d
<1>7. RowsTyped(rows')
  BY <1>2, <1>3, <1>5, <1>6, WriteTyped
<1>8. work' = [work EXCEPT ![p] = x]
  BY <1>1, <1>2
<1>9. PlannerTyped(x)
  BY <1>2 DEF PlannerTyped, PlannerRow
<1> HIDE DEF x
<1>10. WorkTyped(work')
  BY <1>2, <1>8, <1>9, PlannerMoves
<1>11. QED
  BY <1>1, <1>7, <1>10 DEF TableTypes

LEMMA ReadTableTyped ==
  ASSUME TableTypes, ReadTable
  PROVE  TableTypes'
<1>a. PICK sheet \in Sheets : \E row \in [sheet -> Ids \cup {NoRow}] :
        /\ counters.runs < MaxRuns /\ Count("runs")
        /\ work' = [work EXCEPT ![Sync] =
             [@ EXCEPT !.step = "propose",
                       !.create = {d \in sheet : row[d] = NoRow},
                       !.update = {<<row[d], d>> : d \in {d \in sheet :
                                     row[d] # NoRow /\ rows[row[d]].data # d}}]]
        /\ UNCHANGED <<identity, due, shows, rows, snaps, user>>
  BY DEF ReadTable, tables
<1>1. PICK row \in [sheet -> Ids \cup {NoRow}] :
        /\ counters.runs < MaxRuns /\ Count("runs")
        /\ work' = [work EXCEPT ![Sync] =
             [@ EXCEPT !.step = "propose",
                       !.create = {d \in sheet : row[d] = NoRow},
                       !.update = {<<row[d], d>> : d \in {d \in sheet :
                                     row[d] # NoRow /\ rows[row[d]].data # d}}]]
        /\ UNCHANGED <<identity, due, shows, rows, snaps, user>>
  BY <1>a
<1> DEFINE new == {d \in sheet : row[d] = NoRow}
           changed == {d \in sheet : row[d] # NoRow /\ rows[row[d]].data # d}
           chg == {<<row[d], d>> : d \in changed}
           x == [work[Sync] EXCEPT !.step = "propose", !.create = new, !.update = chg]
<1>2. sheet \subseteq Data
  BY TableAssumption DEF TableAssumption
<1>3. work[Sync] \in SheetRow /\ work \in [Workers -> PlannerRow \cup SheetRow]
      /\ WorkTyped(work) /\ Sync \in Workers
  BY DEF TableTypes, WorkTyped, Workers
<1>4. new \subseteq Data /\ chg \subseteq Ids \X Data
  BY <1>2
<1>5. work' = [work EXCEPT ![Sync] = x]
  BY <1>1, <1>3
<1> HIDE DEF new, chg, changed
<1>6. x \in SheetRow
  BY <1>3, <1>4 DEF SheetRow
<1> HIDE DEF x
<1>7. WorkTyped(work')
  BY <1>3, <1>5, <1>6, SheetMoves
<1>8. QED
  BY <1>1, <1>7, CountTyped DEF TableTypes

LEMMA ProposeTyped ==
  ASSUME TableTypes, TablesInv, Propose
  PROVE  TableTypes'
<1> DEFINE A == {Proposal(d, NoRow) : d \in work[Sync].create}
           B == {Proposal(q[2], q[1]) : q \in work[Sync].update}
           S == A \cup B
<1>1. PICK new \in Orders(S) :
        /\ Create(new)
        /\ work' = [work EXCEPT ![Sync] = Idle]
        /\ UNCHANGED <<identity, due, shows, snaps, user, counters>>
  BY DEF Propose, aside
<1>2. /\ work[Sync] \in SheetRow /\ WorkTyped(work) /\ RowsTyped(rows)
      /\ IsFiniteSet(work[Sync].create) /\ IsFiniteSet(work[Sync].update)
  BY DEF TableTypes, WorkTyped, TablesInv, Good, WorkOk, SyncOk
<1>3. IsFiniteSet(S)
  <2> DEFINE f == [d \in work[Sync].create |-> Proposal(d, NoRow)]
             g == [q \in work[Sync].update |-> Proposal(q[2], q[1])]
  <2>1. f \in Surjection(work[Sync].create, A)
    BY DEF Surjection
  <2>2. g \in Surjection(work[Sync].update, B)
    BY DEF Surjection
  <2> HIDE DEF f, g, A, B
  <2>3. IsFiniteSet(A) /\ IsFiniteSet(B)
    BY <1>2, <2>1, <2>2, FS_Surjection
  <2> QED
    BY <2>3, FS_Union
<1>4. S \subseteq Row
  <2>1. \A d \in work[Sync].create : d \in Data
    BY <1>2 DEF SheetRow
  <2>2. \A q \in work[Sync].update : q[1] \in Ids /\ q[2] \in Data
    BY <1>2 DEF SheetRow
  <2>3. NoOne \in Entities \cup {NoOne} /\ NoRow \in Ids \cup {NoRow}
    OBVIOUS
  <2>4. A \subseteq Row
    BY <2>1, <2>3, ByHandTyped
  <2>5. B \subseteq Row
    BY <2>2, <2>3, ByHandTyped
  <2>6. QED
    BY <2>4, <2>5
<1> HIDE DEF A, B
<1>5. new \in Seq(Row)
  <2> HIDE DEF S
  <2>1. new \in Seq(S)
    BY <1>1, <1>3, OrdersAre
  <2>2. QED
    BY <1>4, <2>1
<1> HIDE DEF S
<1>6. RowsTyped(rows')
  BY <1>1, <1>2, <1>5, CreateTyped
<1>7. WorkTyped(work')
  BY <1>1, <1>2, <1>6, SheetMoves, IdleTyped
<1>8. QED
  BY <1>1, <1>6, <1>7 DEF TableTypes

LEMMA BeginChangeTyped ==
  ASSUME TableTypes, NEW u \in Users, BeginChange(u)
  PROVE  TableTypes'
<1>1. PICK step \in {"add", "edit", "delete"}, r \in Accepted \cup {NoRow},
           d \in Typed \cup {NoOne} :
        /\ counters.ops < MaxOps /\ Count("ops")
        /\ d = NoOne <=> step = "delete"
        /\ snaps' = Baseline
        /\ user' = [user EXCEPT ![u] = [NoRequest EXCEPT !.step = step, !.row = r,
                                                         !.data = d]]
        /\ UNCHANGED <<identity, due, shows, rows, work>>
  BY DEF BeginChange, Begin, Operation
<1> DEFINE y == [NoRequest EXCEPT !.step = step, !.row = r, !.data = d]
<1>2. r \in Ids \cup {NoRow}
  BY LiveRows DEF TableTypes
<1>3. AskTyped(y)
  <2>1. NoRequest \in Request
    BY NoRequestTyped DEF AskTyped
  <2>2. d \in Data \cup {NoOne} /\ (d # NoOne => d \in Data)
    BY TableAssumption DEF TableAssumption
  <2>3. y \in Request /\ y.step = step /\ y.data = d
    BY <1>2, <2>1, <2>2 DEF Request
  <2>4. QED
    BY <1>1, <2>2, <2>3 DEF AskTyped
<1>b. user' = [user EXCEPT ![u] = y]
  BY <1>1
<1> HIDE DEF y
<1>4. UsersTyped(user')
  BY <1>b, <1>3, UserMoves DEF TableTypes
<1>5. CountersTyped(counters')
  BY <1>1, CountTyped DEF TableTypes
<1>6. snaps' \subseteq Seq(Data)
  BY <1>1, VersionsTyped
<1>7. QED
  BY <1>1, <1>4, <1>5, <1>6 DEF TableTypes

LEMMA InsertRowTyped ==
  ASSUME TableTypes, NEW u \in Users, InsertRow(u)
  PROVE  TableTypes'
<1> DEFINE new == <<ByHand(user[u].data)>>
<1>1. /\ user[u].step = "add" /\ Create(new) /\ Go(u, "version")
      /\ UNCHANGED <<identity, due, shows, snaps, work, counters>>
  BY DEF InsertRow, On, aside
<1>2. user[u].data \in Data
  BY <1>1 DEF TableTypes, UsersTyped, AskTyped
<1>3. new \in Seq(Row)
  <2>1. ByHand(user[u].data) \in Row
    BY <1>2, ByHandTyped
  <2>2. QED
    BY <2>1
<1> HIDE DEF new
<1>4. RowsTyped(rows')
  BY <1>1, <1>3, CreateTyped DEF TableTypes
<1>5. WorkTyped(work') /\ UsersTyped(user')
  BY <1>1, <1>4, UserGoesTyped DEF TableTypes
<1>6. QED
  BY <1>1, <1>4, <1>5 DEF TableTypes

LEMMA EditRowTyped ==
  ASSUME TableTypes, TablesInv, NEW u \in Users, EditRow(u)
  PROVE  TableTypes'
<1> DEFINE r == user[u].row
           d == user[u].data
           raced == \E p \in Projectors : \E q \in work[p].update : q[1] = r
           t == IF raced THEN NoOne ELSE d
           x == [rows[r] EXCEPT !.data = d, !.edited = TRUE, !.typed = t]
<1>1. /\ user[u].step = "edit" /\ rows[r] # Gone
      /\ rows' = [rows EXCEPT ![r].data = d, ![r].edited = TRUE, ![r].typed = t]
      /\ Go(u, "version") /\ UNCHANGED <<identity, due, shows, snaps, work, counters>>
  BY DEF EditRow, On, Exists, aside
<1>2. r \in DOMAIN rows
  <2>1. PICK D : Good(D)
    BY DEF TablesInv
  <2>2. QED
    BY <1>1, <2>1, UserIs DEF AskOk, Settled
<1>3. d \in Data /\ rows[r] \in Row /\ RowsTyped(rows)
  BY <1>1, <1>2, TypedRowsAre DEF TableTypes, UsersTyped, AskTyped
<1>4. t \in Data \cup {NoOne}
  BY <1>3
<1>5. rows' = [rows EXCEPT ![r] = x]
  BY <1>1, <1>2
<1> HIDE DEF t, d, raced
<1>6. x \in Row
  BY <1>3, <1>4 DEF Row
<1> HIDE DEF x
<1>7. rows[r] # Gone
  BY <1>1
<1> HIDE DEF r
<1>8. RowsTyped(rows')
  BY <1>2, <1>3, <1>5, <1>6, <1>7, WriteTyped
<1>9. WorkTyped(work') /\ UsersTyped(user')
  BY <1>1, <1>8, UserGoesTyped DEF TableTypes
<1>10. QED
  BY <1>1, <1>8, <1>9 DEF TableTypes

\* A step that deletes rows.
LEMMA DeletesTyped ==
  ASSUME TableTypes, NEW gone, rows' = Without(gone),
         UNCHANGED <<identity, due, shows, snaps, work>>,
         user' = user \/ \E u \in Users : \E s \in {"apply", "refill", "version"} :
                           Go(u, s),
         CountersTyped(counters')
  PROVE  TableTypes'
<1>1. RowsTyped(rows')
  BY GoTyped DEF TableTypes
<1>2. WorkTyped(work')
  BY <1>1 DEF TableTypes
<1>3. UsersTyped(user')
  BY UserGoesTyped DEF TableTypes
<1>4. QED
  BY <1>1, <1>2, <1>3 DEF TableTypes

LEMMA BeginAcceptTyped ==
  ASSUME TableTypes, NEW u \in Users, BeginAccept(u)
  PROVE  TableTypes'
<1>1. PICK ids \in SUBSET Asked :
        /\ counters.ops < MaxOps /\ Count("ops")
        /\ user' = [user EXCEPT ![u] = [NoRequest EXCEPT !.step = "apply",
             !.props = {[id |-> r, target |-> rows[r].target,
                         data |-> rows[r].data] : r \in ids}]]
        /\ UNCHANGED <<identity, due, shows, rows, snaps, work>>
  BY DEF BeginAccept, Begin, Operation, tables
<1> DEFINE props == {[id |-> r, target |-> rows[r].target,
                      data |-> rows[r].data] : r \in ids}
           y == [NoRequest EXCEPT !.step = "apply", !.props = props]
<1>2. props \subseteq [id : Ids, target : Ids \cup {NoRow}, data : Data]
  <2>1. \A r \in ids : r \in Ids /\ rows[r] \in Row
    BY LiveRows DEF TableTypes
  <2>2. \A r \in ids : rows[r].target \in Ids \cup {NoRow} /\ rows[r].data \in Data
    BY <2>1 DEF Row
  <2>3. QED
    BY <2>1, <2>2
<1>a. user' = [user EXCEPT ![u] = y]
  BY <1>1
<1> HIDE DEF props
<1>3. AskTyped(y)
  <2>1. NoRequest \in Request
    BY NoRequestTyped DEF AskTyped
  <2>2. y \in Request /\ y.step = "apply"
    BY <1>2, <2>1 DEF Request
  <2>3. QED
    BY <2>2 DEF AskTyped
<1> HIDE DEF y
<1>4. UsersTyped(user')
  BY <1>a, <1>3, UserMoves DEF TableTypes
<1>5. QED
  BY <1>1, <1>4, CountTyped DEF TableTypes

LEMMA WriteTargetTyped ==
  ASSUME TableTypes, TablesInv, NEW u \in Users, WriteTarget(u)
  PROVE  TableTypes'
<1>1. PICK p \in user[u].props :
        /\ user[u].step = "apply" /\ p.target # NoRow /\ rows[p.target] # Gone
        /\ rows' = [rows EXCEPT ![p.target].data = p.data,
                                ![p.target].edited = FALSE,
                                ![p.target].typed = NoOne]
        /\ user' = [user EXCEPT ![u].step = "drop", ![u].row = p.id,
                                ![u].props = @ \ {p}]
        /\ UNCHANGED <<identity, due, shows, snaps, work, counters>>
  BY DEF WriteTarget, On, Exists, aside
<1> DEFINE r == p.target
           x == [rows[r] EXCEPT !.data = p.data, !.edited = FALSE, !.typed = NoOne]
           y == [user[u] EXCEPT !.step = "drop", !.row = p.id, !.props = @ \ {p}]
<1>2. r \in DOMAIN rows
  <2>1. PICK D : Good(D)
    BY DEF TablesInv
  <2>2. QED
    BY <1>1, <2>1, UserIs DEF AskOk, Settled
<1>3. /\ user[u] \in Request /\ user \in [Users -> Request]
      /\ p \in [id : Ids, target : Ids \cup {NoRow}, data : Data]
      /\ RowsTyped(rows) /\ WorkTyped(work) /\ UsersTyped(user)
  BY DEF TableTypes, UsersTyped, Request
<1>4. rows[r] \in Row
  BY <1>1, <1>2, <1>3, TypedRowsAre
<1>5. rows' = [rows EXCEPT ![r] = x]
  BY <1>1, <1>2
<1>6. user' = [user EXCEPT ![u] = y]
  BY <1>1, <1>3
<1>7. x \in Row
  BY <1>3, <1>4 DEF Row
<1>8. AskTyped(y)
  BY <1>3 DEF AskTyped, Request
<1> HIDE DEF x, y
<1>9. rows[r] # Gone
  BY <1>1
<1> HIDE DEF r
<1>10. RowsTyped(rows')
  BY <1>2, <1>3, <1>5, <1>7, <1>9, WriteTyped
<1>11. WorkTyped(work')
  BY <1>1, <1>3, <1>10
<1>12. UsersTyped(user')
  BY <1>3, <1>6, <1>8, UserMoves
<1>13. QED
  BY <1>1, <1>10, <1>11, <1>12 DEF TableTypes

LEMMA AdmitTyped ==
  ASSUME TableTypes, TablesInv, NEW u \in Users, Admit(u)
  PROVE  TableTypes'
<1>1. PICK p \in user[u].props :
        /\ user[u].step = "apply" /\ rows[p.id] # Gone
        /\ rows' = [rows EXCEPT ![p.id].status = "accepted", ![p.id].target = NoRow]
        /\ user' = [user EXCEPT ![u].props = @ \ {p}]
        /\ UNCHANGED <<identity, due, shows, snaps, work, counters>>
  BY DEF Admit, On, Exists, aside
<1> DEFINE r == p.id
           x == [rows[r] EXCEPT !.status = "accepted", !.target = NoRow]
           y == [user[u] EXCEPT !.props = @ \ {p}]
<1>2. r \in DOMAIN rows
  <2>1. PICK D : Good(D)
    BY DEF TablesInv
  <2>2. QED
    BY <1>1, <2>1, UserIs DEF AskOk
<1>3. /\ user[u] \in Request /\ user \in [Users -> Request] /\ AskTyped(user[u])
      /\ RowsTyped(rows) /\ WorkTyped(work) /\ UsersTyped(user)
  BY DEF TableTypes, UsersTyped
<1>4. rows[r] \in Row
  BY <1>1, <1>2, <1>3, TypedRowsAre
<1>5. rows' = [rows EXCEPT ![r] = x]
  BY <1>1, <1>2
<1>6. user' = [user EXCEPT ![u] = y]
  BY <1>1, <1>3
<1>7. x \in Row
  BY <1>4 DEF Row
<1>8. AskTyped(y)
  BY <1>3 DEF AskTyped, Request
<1> HIDE DEF x, y
<1>9. rows[r] # Gone
  BY <1>1
<1> HIDE DEF r
<1>10. RowsTyped(rows')
  BY <1>2, <1>3, <1>5, <1>7, <1>9, WriteTyped
<1>11. WorkTyped(work')
  BY <1>1, <1>3, <1>10
<1>12. UsersTyped(user')
  BY <1>3, <1>6, <1>8, UserMoves
<1>13. QED
  BY <1>1, <1>10, <1>11, <1>12 DEF TableTypes

LEMMA BeginRestoreTyped ==
  ASSUME TableTypes, NEW u \in Users, BeginRestore(u)
  PROVE  TableTypes'
<1>1. PICK snap \in snaps :
        /\ counters.ops < MaxOps /\ Count("ops")
        /\ user' = [user EXCEPT ![u] = [NoRequest EXCEPT !.step = "wipe",
                                                         !.snap = snap]]
        /\ UNCHANGED <<identity, due, shows, rows, snaps, work>>
  BY DEF BeginRestore, Begin, Operation, tables
<1> DEFINE y == [NoRequest EXCEPT !.step = "wipe", !.snap = snap]
<1>2. snap \in Seq(Data)
  BY DEF TableTypes
<1>3. AskTyped(y)
  BY <1>2 DEF NoRequest, AskTyped, Request, NoRow
<1>b. user' = [user EXCEPT ![u] = y]
  BY <1>1
<1> HIDE DEF y
<1>4. UsersTyped(user')
  BY <1>b, <1>3, UserMoves DEF TableTypes
<1>5. QED
  BY <1>1, <1>4, CountTyped DEF TableTypes

LEMMA RefillTyped ==
  ASSUME TableTypes, NEW u \in Users, Refill(u)
  PROVE  TableTypes'
<1> DEFINE snap == user[u].snap
           new == [k \in DOMAIN snap |-> ByHand(snap[k])]
<1>1. /\ Create(new) /\ Go(u, "version") /\ UNCHANGED <<identity, due, shows, snaps, work, counters>>
  BY DEF Refill, aside
<1>2. snap \in Seq(Data)
  BY DEF TableTypes, UsersTyped, Request
<1> HIDE DEF snap
<1>3. Len(snap) \in Nat /\ DOMAIN snap = 1..Len(snap)
  BY <1>2
<1>4. \A k \in 1..Len(snap) : ByHand(snap[k]) \in Row
  <2> TAKE k \in 1..Len(snap)
  <2>1. snap[k] \in Data
    BY <1>2, <1>3
  <2>2. QED
    BY <2>1, ByHandTyped
<1>5. new \in Seq(Row)
  BY <1>3, <1>4
<1> HIDE DEF new
<1>6. RowsTyped(rows')
  BY <1>1, <1>5, CreateTyped DEF TableTypes
<1>7. WorkTyped(work') /\ UsersTyped(user')
  BY <1>1, <1>6, UserGoesTyped DEF TableTypes
<1>8. QED
  BY <1>1, <1>6, <1>7 DEF TableTypes

\* A request or a worker ends.
LEMMA EndsTyped ==
  ASSUME TableTypes, UNCHANGED <<identity, due, shows, rows>>,
         snaps' = snaps \/ snaps' = Baseline \cup {Contents},
         work' = work \/ \E w \in Workers : work' = [work EXCEPT ![w] = Idle],
         user' = user \/ \E u \in Users : user' = [user EXCEPT ![u] = NoRequest],
         CountersTyped(counters')
  PROVE  TableTypes'
<1>1. snaps' \subseteq Seq(Data)
  BY VersionsTyped DEF TableTypes
<1>2. WorkTyped(work')
  <2>1. WorkTyped(work)
    BY DEF TableTypes
  <2>2. CASE work' = work
    BY <2>1, <2>2
  <2>3. ASSUME NEW w \in Workers, work' = [work EXCEPT ![w] = Idle]
        PROVE  WorkTyped(work')
    BY <2>1, <2>3, WorkerStops
  <2>4. QED
    BY <2>2, <2>3
<1>3. UsersTyped(user')
  BY UserMoves, NoRequestTyped DEF TableTypes
<1>4. QED
  BY <1>1, <1>2, <1>3 DEF TableTypes

LEMMA FatesTyped ==
  ASSUME TableTypes, MoveRows \/ Tombstone \/ PruneEntity
  PROVE  TableTypes'
<1>1. /\ FateTyped(identity, due) /\ RowsTyped(rows) /\ CountersTyped(counters)
      /\ shows \in [Entities -> Cells]
  BY DEF TableTypes
<1>2. ASSUME NEW e \in Entities, NEW w \in Entities \cup {NoOne}, rows' = Relinked(e, w)
      PROVE  RowsTyped(rows')
  <2>1. Len(rows) \in Nat /\ DOMAIN rows = 1..Len(rows)
    BY <1>1, TypedRowsAre
  <2>2. \A r \in 1..Len(rows) : rows'[r] \in Row \cup {Gone}
    <3> SUFFICES ASSUME NEW r \in 1..Len(rows), rows[r].entity = e
                 PROVE  [rows[r] EXCEPT !.entity = w] \in Row
      BY <1>1, <1>2, <2>1 DEF Relinked, RowsTyped
    <3>1. rows[r] # Gone
      BY TableAssumption DEF TableAssumption, Gone
    <3>2. rows[r] \in Row
      BY <1>1, <2>1, <3>1, TypedRowsAre
    <3>3. QED
      BY <3>2 DEF Row
  <2>3. rows' = [r \in 1..Len(rows) |-> rows'[r]]
    BY <1>2, <2>1 DEF Relinked
  <2>4. rows' \in Seq(Row \cup {Gone}) /\ Len(rows') = Len(rows)
    BY <2>1, <2>2, <2>3
  <2>5. QED
    BY <1>1, <2>4 DEF RowsTyped
<1>3. CASE MoveRows
  <2>1. PICK l \in Entities, w \in Entities :
          /\ counters.ops < MaxOps /\ Count("ops") /\ rows' = Relinked(l, w)
          /\ identity' = [identity EXCEPT ![l] = IF @ = "live" THEN "moved" ELSE @]
          /\ due' = [due EXCEPT ![w] = IF RowsOf(l) = {} THEN @ ELSE @ + due[l]]
          /\ UNCHANGED <<shows, snaps, work, user>>
    BY <1>3 DEF MoveRows, Operation
  <2>2. FateTyped(identity', due')
    BY <1>1, <2>1 DEF FateTyped
  <2>3. RowsTyped(rows') /\ CountersTyped(counters')
    BY <1>1, <1>2, <2>1, CountTyped
  <2>4. QED
    BY <2>1, <2>2, <2>3 DEF TableTypes
<1>4. CASE Tombstone
  <2>1. FateTyped(identity', due')
    BY <1>1, <1>4 DEF Tombstone, FateTyped
  <2>2. QED
    BY <1>4, <2>1 DEF Tombstone, TableTypes
<1>5. CASE PruneEntity
  <2>1. PICK e \in Entities, revived \in SUBSET {l \in Entities : identity[l] = "merged"} :
          /\ counters.ops < MaxOps /\ Count("ops") /\ rows' = Relinked(e, NoOne)
          /\ identity' = [l \in Entities |-> IF l = e THEN "pruned"
                                            ELSE IF l \in revived THEN "live"
                                                                   ELSE identity[l]]
          /\ UNCHANGED <<shows, snaps, work, user, due>>
    BY <1>5 DEF PruneEntity, Operation
  <2>2. FateTyped(identity', due')
    BY <1>1, <2>1 DEF FateTyped
  <2>3. RowsTyped(rows') /\ CountersTyped(counters')
    BY <1>1, <1>2, <2>1, CountTyped
  <2>4. QED
    BY <2>1, <2>2, <2>3 DEF TableTypes
<1>6. QED
  BY <1>3, <1>4, <1>5

LEMMA TableTypesInit == Init => TableTypes
<1> SUFFICES ASSUME Init PROVE TableTypes
  OBVIOUS
<1>1. RowsTyped(rows)
  BY TableAssumption DEF Init, RowsTyped, TableAssumption
<1>2. WorkTyped(work)
  BY IdleTyped DEF Init, WorkTyped, Workers, PlannerTyped
<1>3. UsersTyped(user)
  BY NoRequestTyped DEF Init, UsersTyped, AskTyped
<1>4. CountersTyped(counters)
  BY TableAssumption DEF Init, CountersTyped, TableAssumption
<1>5. QED
  BY <1>1, <1>2, <1>3, <1>4 DEF Init, TableTypes, FateTyped

LEMMA TableTypesStep == TablesInv /\ TableTypes /\ [Next]_vars => TableTypes'
<1> SUFFICES ASSUME TablesInv, TableTypes, [Next]_vars PROVE TableTypes'
  OBVIOUS
<1>0. CountersTyped(counters)
  BY DEF TableTypes
<1>1. CASE UNCHANGED vars
  BY <1>1 DEF vars, TableTypes
<1>2. CASE FactsChange
  <2>1. CountersTyped(counters')
    BY <1>0, <1>2, CountTyped DEF FactsChange, Operation
  <2>2. shows' \in [Entities -> Cells]
    BY <1>2 DEF FactsChange, TableTypes
  <2>3. QED
    BY <1>2, <2>1, <2>2 DEF FactsChange, TableTypes
<1>3. CASE \E p \in Projectors : Work(p)
  BY <1>3, ReadFactsTyped, ReadRowsTyped, CreateRowsTyped, UpdateRowTyped DEF Work
<1>4. CASE ReadTable \/ Propose
  BY <1>4, ReadTableTyped, ProposeTyped
<1>5. ASSUME NEW w \in Workers, WorkEnds(w)
      PROVE  TableTypes'
  BY <1>0, <1>5, EndsTyped DEF WorkEnds, tables
<1>6. ASSUME NEW u \in Users, Change(u) \/ DecideProposals(u) \/ Rewind(u)
      PROVE  TableTypes'
  <2>1. CASE BeginChange(u) \/ InsertRow(u) \/ EditRow(u)
    BY <2>1, BeginChangeTyped, InsertRowTyped, EditRowTyped
  <2>2. CASE DeleteRow(u)
    BY <1>0, <2>2, DeletesTyped DEF DeleteRow, aside
  <2>3. CASE BeginAccept(u) \/ WriteTarget(u) \/ Admit(u)
    BY <2>3, BeginAcceptTyped, WriteTargetTyped, AdmitTyped
  <2>4. CASE DropProposal(u)
    BY <1>0, <2>4, DeletesTyped DEF DropProposal, aside
  <2>5. CASE Reject(u)
    <3>1. CountersTyped(counters')
      BY <1>0, <2>5, CountTyped DEF Reject, Begin, Operation
    <3>2. QED
      BY <2>5, <3>1, DeletesTyped DEF Reject, aside
  <2>6. CASE BeginRestore(u) \/ Refill(u)
    BY <2>6, BeginRestoreTyped, RefillTyped
  <2>7. CASE Wipe(u)
    BY <1>0, <2>7, DeletesTyped DEF Wipe, aside
  <2>8. QED
    BY <1>6, <2>1, <2>2, <2>3, <2>4, <2>5, <2>6, <2>7
       DEF Change, DecideProposals, Rewind
<1>7. ASSUME NEW u \in Users, Version(u) \/ UserFails(u)
      PROVE  TableTypes'
  BY <1>0, <1>7, EndsTyped DEF Version, UserFails, tables
<1>8. CASE Dies
  <2>1. CountersTyped(counters')
    BY <1>0, <1>8, CountTyped DEF Dies, Operation
  <2>2. QED
    BY <1>8, <2>1, EndsTyped DEF Dies, tables
<1>9. CASE MoveRows \/ Tombstone \/ PruneEntity
  BY <1>9, FatesTyped
<1>10. QED
  BY <1>1, <1>2, <1>3, <1>4, <1>5, <1>6, <1>7, <1>8, <1>9 DEF Next

\* Every variable of a table keeps its type: what projections, syncs, users
\* and restores write are data of the table, and a version holds the data of
\* accepted rows.
THEOREM TableTypesHold == Spec => []TypeOK
<1>1. TableTypes => TypeOK
  BY DEF TableTypes, FateTyped, RowsTyped, WorkTyped, PlannerTyped, PlannerRow, SheetRow,
     UsersTyped, CountersTyped, TypeOK
<1>2. QED
  BY <1>1, TableTypesInit, TableTypesStep, TablesHold, PTL DEF Spec
==============================================================================
