-------------------------- MODULE EntityGraphProofs --------------------------
(* The entity graph, for any entities, links, mentions, runs and reviewers: *)
(* a merge leaves nothing behind (TombstonesAreBare), the tables are sound  *)
(* (TypeOK), nobody is asked twice about the same two entities (AskedOnce), *)
(* no prune deletes an entity that had a fact when it was chosen            *)
(* (PruneSparesLinked), and every merge is on record (MergesLogged).        *)
EXTENDS EntityGraph, FiniteSetTheorems, TLAPS

\* The rows of a merge that statement s and those after it will look at.
Pending(s) ==
  CASE s = "subject" -> {"subject", "object", "chunk", "row"}
    [] s = "object"  -> {"object", "chunk", "row"}
    [] s = "chunk"   -> {"chunk", "row"}
    [] s = "row"     -> {"row"}
    [] OTHER         -> {}

MaybeKey == Keys \cup {"none"}
EntityRow == [key : MaybeKey, exists : BOOLEAN, merged : Nat, support : Nat,
              body : BOOLEAN]

\* What the proof needs to know of the types.
RunShape == run \in
  [Runs -> [step : RunSteps, mention : Mentions \cup {"none"}, key : MaybeKey,
            entity : Nat, match : Nat]]

ReviewRow ==
  [kind : {"merge", "prune"}, source : Nat, target : Nat, ids : SUBSET Nat,
   status : {"none", "pending", "accepted", "rejected"},
   by : {"nobody", "run", Pass}]

ActRow == [step : ActSteps, from : Nat, to : Nat, review : ReviewRow,
           accept : BOOLEAN, ids : SUBSET Nat]
ActShape == act \in [Actors -> ActRow]

Shape ==
  /\ at \in [Links -> Nat]
  /\ entities \in Seq(EntityRow)
  /\ RunShape
  /\ ActShape
  /\ DOMAIN reviews \subseteq ReviewRow
  /\ pairs \subseteq Nat \X Nat

\* No link dangles.
NoLinkDangles == \A l \in Links : at[l] # NoEntity => Exists(at[l])

\* A merge has moved all that its statements have passed, but for what came
\* late.
MergeProgress ==
  \A a \in Actors : act[a].step \in MergeSteps =>
    \A l \in Links \ late :
      (at[l] # NoEntity /\ at[l] = act[a].from) => Class[l] \in Pending(act[a].step)

GraphInv == Shape /\ NoLinkDangles /\ MergeProgress /\ TombstonesAreBare

-----------------------------------------------------------------------------
(* The shape of the rows and of the processes' records.                    *)

LEMMA SomeFacts ==
  /\ Entities \subseteq Nat
  /\ Live \subseteq Entities
  /\ \A e : IsLive(e) => e \in Nat
BY DEF Entities, Live, IsLive, Exists

\* createMergeReview and the orphan review add a row of the type.
LEMMA FileShape ==
  ASSUME DOMAIN reviews \subseteq ReviewRow, NEW r \in ReviewRow, File(r)
  PROVE  DOMAIN reviews' \subseteq ReviewRow
BY DEF File, (+), SetToBag, BagToSet

LEMMA ReviewShape ==
  \A e, f \in Nat : \A status \in {"none", "pending", "accepted", "rejected"},
     by \in {"nobody", "run", Pass} : Review(e, f, status, by) \in ReviewRow
BY DEF Review, ReviewRow

LEMMA RunGoShape ==
  ASSUME RunShape, NEW w \in Runs, NEW s \in RunSteps, RunGo(w, s)
  PROVE  RunShape'
BY DEF RunShape, RunGo

LEMMA RunMatchShape ==
  ASSUME RunShape, NEW w \in Runs, NEW s \in RunSteps, NEW e \in Nat, NEW f \in Nat,
         run' = [run EXCEPT ![w].step = s, ![w].entity = e, ![w].match = f]
  PROVE  RunShape'
BY DEF RunShape

LEMMA RunKeepsShape ==
  ASSUME Shape, NEW w \in Runs,
         Start(w) \/ Exact(w) \/ Recall(w) \/ Bump(w) \/ LogMatch(w)
           \/ Create(w) \/ Propose(w) \/ Write(w) \/ RunFails(w)
  PROVE  Shape'
<1>1. CASE Start(w)
  <2>1. PICK m \in Mentions \ done : \E key \in KeysOf[m] :
          run' = [run EXCEPT ![w] = [NoRun EXCEPT !.step = "exact", !.mention = m,
                                                  !.key = key]]
    BY <1>1 DEF Start
  <2>2. PICK key \in KeysOf[m] :
          run' = [run EXCEPT ![w] = [NoRun EXCEPT !.step = "exact", !.mention = m,
                                                  !.key = key]]
    BY <2>1
  <2>3. key \in MaybeKey
    BY GraphAssumption DEF GraphAssumption, MaybeKey
  <2> QED
    BY <1>1, <2>2, <2>3 DEF Shape, RunShape, ActShape, Start, NoRun, NoEntity, RunSteps, tables
<1>2. CASE Exact(w)
  <2>1. CASE RunGo(w, "recall")
    BY <1>2, <2>1, RunGoShape DEF Shape, ActShape, Exact, RunSteps, tables
  <2>2. ASSUME NEW e \in SameKey(w),
               run' = [run EXCEPT ![w].step = "bump", ![w].entity = e]
        PROVE  Shape'
    <3>1. e \in Nat
      BY SomeFacts DEF SameKey
    <3>2. RunShape'
      BY <2>2, <3>1 DEF Shape, RunShape, RunSteps
    <3> QED
      BY <1>2, <3>2 DEF Shape, ActShape, Exact, tables
  <2> QED
    BY <1>2, <2>1, <2>2 DEF Exact
<1>3. CASE Recall(w)
  <2>1. CASE RunGo(w, "create")
    BY <1>3, <2>1, RunGoShape DEF Shape, ActShape, Recall, RunSteps, tables
  <2>2. ASSUME NEW e \in Live, NEW judged \in BOOLEAN,
               run' = [run EXCEPT ![w].step = "bump", ![w].entity = e,
                                  ![w].match = IF judged THEN e ELSE NoEntity]
        PROVE  RunShape'
    BY <2>2, SomeFacts, RunMatchShape DEF Shape, RunSteps, NoEntity
  <2>3. ASSUME NEW e \in Live,
               run' = [run EXCEPT ![w].step = "create", ![w].match = e]
        PROVE  RunShape'
    <3>1. e \in Nat
      BY SomeFacts
    <3> QED
      BY <2>3, <3>1 DEF Shape, RunShape, RunSteps
  <2>4. CASE ~RunGo(w, "create")
    BY <1>3, <2>2, <2>3, <2>4 DEF Shape, ActShape, Recall, tables
  <2> QED
    BY <2>1, <2>4
<1>4. CASE Bump(w)
  <2>1. entities' \in Seq(EntityRow)
    <3> DEFINE e == run[w].entity
               n == IF entities[e].support < MaxSupport
                      THEN entities[e].support + 1 ELSE entities[e].support
    <3>1. e \in 1..Len(entities) /\ entities[e] \in EntityRow
      BY <1>4 DEF Shape, Bump, Exists, Entities
    <3>2. n \in Nat
      BY <3>1 DEF EntityRow
    <3>3. [entities[e] EXCEPT !.support = n] \in EntityRow
      BY <3>1, <3>2 DEF EntityRow
    <3>4. entities' = [entities EXCEPT ![e] = [entities[e] EXCEPT !.support = n]]
      BY <1>4 DEF Bump
    <3> HIDE DEF e, n
    <3> QED
      BY <3>1, <3>3, <3>4 DEF Shape
  <2>2. RunShape'
    BY <1>4, RunGoShape DEF Bump, Shape, RunSteps
  <2> QED
    BY <1>4, <2>1, <2>2 DEF Shape, ActShape, Bump
<1>5. CASE LogMatch(w)
  <2>1. DOMAIN reviews' \subseteq ReviewRow
    BY <1>5, FileShape, ReviewShape DEF LogMatch, Shape, RunShape, NoEntity
  <2> QED
    BY <1>5, <2>1 DEF Shape, RunShape, ActShape, LogMatch, RunGo, RunSteps
<1>6. CASE Create(w)
  <2>1. /\ entities' \in Seq(EntityRow)
        /\ Len(entities) + 1 \in Nat
    BY <1>6 DEF Shape, RunShape, ActShape, Create, EntityRow, NoEntity
  <2>2. RunShape'
    <3> DEFINE s == IF run[w].match = NoEntity THEN "write" ELSE "propose"
    <3>1. s \in RunSteps
      BY DEF RunSteps
    <3>2. run' = [run EXCEPT ![w].entity = Len(entities) + 1, ![w].step = s]
      BY <1>6 DEF Create
    <3> HIDE DEF s
    <3> QED
      BY <2>1, <3>1, <3>2 DEF Shape, RunShape
  <2> QED
    BY <1>6, <2>1, <2>2 DEF Shape, ActShape, Create
<1>7. CASE Propose(w)
  <2>1. DOMAIN reviews' \subseteq ReviewRow
    BY <1>7, FileShape, ReviewShape DEF Propose, Shape, RunShape
  <2> QED
    BY <1>7, <2>1 DEF Shape, RunShape, ActShape, Propose, RunGo, RunSteps
<1>8. CASE Write(w)
  BY <1>8 DEF Shape, RunShape, ActShape, Write, NoRun, MaybeKey, RunSteps, NoEntity
<1>9. CASE RunFails(w)
  BY <1>9 DEF Shape, RunShape, ActShape, RunFails, NoRun, MaybeKey, RunSteps, NoEntity, tables
<1> QED
  BY <1>1, <1>2, <1>3, <1>4, <1>5, <1>6, <1>7, <1>8, <1>9

LEMMA IdleShape == Idle \in ActRow
BY ReviewShape DEF ActRow, Idle, NoReview, ActSteps, NoEntity

LEMMA ActRowShape ==
  ASSUME ActShape, NEW a \in Actors, NEW r \in ActRow,
         act' = [act EXCEPT ![a] = r]
  PROVE  ActShape'
BY DEF ActShape

LEMMA TurnShape ==
  ASSUME ActShape, NEW a \in Actors, NEW s \in ActSteps, Turn(a, s)
  PROVE  ActShape'
BY DEF ActShape, ActRow, Turn

LEMMA MergeShape ==
  ASSUME ActShape, NEW a \in Actors, NEW s \in ActSteps, NEW e \in Nat, NEW f \in Nat,
         act' = [act EXCEPT ![a].step = s, ![a].from = e, ![a].to = f]
  PROVE  ActShape'
BY DEF ActShape, ActRow

LEMMA InitGraph == Init => GraphInv
<1> SUFFICES ASSUME Init PROVE GraphInv
  OBVIOUS
<1>1. Len(SeedKeys) \in Nat /\ DOMAIN SeedKeys = 1..Len(SeedKeys)
  BY GraphAssumption DEF GraphAssumption
<1>2. entities \in Seq(EntityRow) /\ Len(entities) = Len(SeedKeys)
  BY <1>1, GraphAssumption DEF GraphAssumption, Init, EntityRow, MaybeKey, NoEntity
<1>3. \A e \in 1..Len(SeedKeys) : IsLive(e)
  BY <1>1, <1>2 DEF Init, IsLive, Exists, Entities
<1>4. \A l \in Links : at[l] # NoEntity => IsLive(at[l])
  BY <1>1, <1>3, GraphAssumption DEF GraphAssumption, Init
<1>5. Shape
  <2>1. at \in [Links -> Nat]
    BY <1>1, GraphAssumption DEF GraphAssumption, Init, NoEntity
  <2>2. NoRun \in [step : RunSteps, mention : Mentions \cup {"none"},
                   key : MaybeKey, entity : Nat, match : Nat]
    BY DEF NoRun, RunSteps, MaybeKey, NoEntity
  <2> QED
    BY <1>2, <2>1, <2>2, IdleShape
       DEF Init, Shape, RunShape, ActShape, EmptyBag, SetToBag
<1>6. MergeProgress
  BY DEF Init, Idle, MergeProgress, MergeSteps, Classes
<1> QED
  BY <1>4, <1>5, <1>6 DEF GraphInv, NoLinkDangles, TombstonesAreBare, IsLive

LEMMA PassKeepsShape ==
  ASSUME Shape,
         Load \/ Block \/ JudgeSame \/ JudgeApart \/ LogMerge \/ FlagStrays
  PROVE  Shape'
<1>0. Pass \in Actors
  BY DEF Actors
<1>1. CASE Load
  <2>1. {e \in Live : Stray(e)} \in SUBSET Nat
    BY SomeFacts
  <2>2. [Idle EXCEPT !.step = "block", !.ids = {e \in Live : Stray(e)}] \in ActRow
    BY <2>1, IdleShape DEF ActRow, ActSteps
  <2>3. act' = [act EXCEPT ![Pass] =
          [Idle EXCEPT !.step = "block", !.ids = {e \in Live : Stray(e)}]]
    BY <1>1 DEF Load
  <2>4. ActShape'
    BY <1>0, <2>2, <2>3, ActRowShape DEF Shape
  <2>5. pairs' \subseteq Nat \X Nat
    BY <1>1, SomeFacts DEF Load
  <2> QED
    BY <1>1, <2>4, <2>5 DEF Load, Shape, RunShape, tables
<1>2. CASE Block
  <2>1. ActShape'
    BY <1>0, <1>2, TurnShape DEF Block, Shape, ActSteps
  <2> QED
    BY <1>2, <2>1 DEF Block, Shape, RunShape, tables
<1>3. CASE JudgeSame
  <2>1. PICK p \in pairs : act' = BeginMerge(Pass, p[2], p[1])
    BY <1>3 DEF JudgeSame
  <2>2. p[1] \in Nat /\ p[2] \in Nat
    BY DEF Shape
  <2>3. ActShape'
    BY <1>0, <2>1, <2>2, MergeShape DEF BeginMerge, Shape, ActSteps, MergeSteps, Classes
  <2> QED
    BY <1>3, <2>3 DEF JudgeSame, Shape, RunShape, tables
<1>4. CASE JudgeApart
  <2>1. PICK p \in pairs, status \in {"pending", "rejected"} :
          File(Review(p[2], p[1], status, Pass))
    BY <1>4 DEF JudgeApart
  <2>2. p[1] \in Nat /\ p[2] \in Nat
    BY DEF Shape
  <2>3. DOMAIN reviews' \subseteq ReviewRow
    BY <2>1, <2>2, FileShape, ReviewShape DEF Shape
  <2> QED
    BY <1>4, <2>3 DEF JudgeApart, Shape, RunShape, ActShape
<1>5. CASE LogMerge
  <2>1. act[Pass].from \in Nat /\ act[Pass].to \in Nat
    BY <1>0 DEF Shape, ActShape, ActRow
  <2>2. DOMAIN reviews' \subseteq ReviewRow
    BY <1>5, <2>1, FileShape, ReviewShape DEF LogMerge, Shape
  <2>3. ActShape'
    BY <1>0, <1>5, MergeShape DEF LogMerge, Shape, ActSteps, NoEntity
  <2> QED
    BY <1>5, <2>2, <2>3 DEF LogMerge, Shape, RunShape
<1>6. CASE FlagStrays
  <2>1. PICK old \in SUBSET (act[Pass].ids \ Asked) :
          IF old = {}
            THEN UNCHANGED reviews
            ELSE File([kind |-> "prune", source |-> NoEntity, target |-> NoEntity,
                       ids |-> old, status |-> "pending", by |-> Pass])
    BY <1>6 DEF FlagStrays
  <2>2. old \in SUBSET Nat
    BY <1>0 DEF Shape, ActShape, ActRow
  <2>3. [kind |-> "prune", source |-> NoEntity, target |-> NoEntity,
         ids |-> old, status |-> "pending", by |-> Pass] \in ReviewRow
    BY <2>2 DEF ReviewRow, NoEntity
  <2>4. DOMAIN reviews' \subseteq ReviewRow
    BY <2>1, <2>3, FileShape DEF Shape
  <2>6. ActShape'
    BY <1>0, <1>6, IdleShape, ActRowShape DEF FlagStrays, Shape
  <2> QED
    BY <1>6, <2>4, <2>6 DEF FlagStrays, Shape, RunShape
<1> QED
  BY <1>1, <1>2, <1>3, <1>4, <1>5, <1>6

LEMMA ReviewerKeepsShape ==
  ASSUME Shape, NEW u \in Reviewers,
         Decide(u) \/ Select(u) \/ Delete(u) \/ Resolve(u)
  PROVE  Shape'
<1>0. u \in Actors
  BY DEF Actors
<1>1. CASE Decide(u)
  <2> DEFINE merges(r, accept) == accept /\ r.kind = "merge"
             step(r, accept) ==
               CASE merges(r, accept)                -> "subject"
                 [] accept /\ r.kind = "prune"       -> "select"
                 [] OTHER                            -> "resolve"
             from(r, accept) == IF merges(r, accept) THEN r.source ELSE NoEntity
             to(r, accept) == IF merges(r, accept) THEN r.target ELSE NoEntity
             row(r, accept) ==
               [step |-> step(r, accept), from |-> from(r, accept),
                to |-> to(r, accept), review |-> r, accept |-> accept, ids |-> {}]
  <2>1. PICK r \in DOMAIN reviews : \E accept \in BOOLEAN :
          act' = [act EXCEPT ![u] = row(r, accept)]
    BY <1>1 DEF Decide
  <2>2. PICK accept \in BOOLEAN : act' = [act EXCEPT ![u] = row(r, accept)]
    BY <2>1
  <2>3. r \in ReviewRow /\ r.source \in Nat /\ r.target \in Nat
    BY DEF Shape, ReviewRow
  <2>4. row(r, accept) \in ActRow
    <3>1. step(r, accept) \in ActSteps
      BY DEF ActSteps, MergeSteps, Classes
    <3>2. from(r, accept) \in Nat /\ to(r, accept) \in Nat
      BY <2>3 DEF NoEntity
    <3> HIDE DEF step, from, to
    <3> QED
      BY <2>3, <3>1, <3>2 DEF ActRow
  <2>5. ActShape'
    <3> HIDE DEF row
    <3> QED
      BY <1>0, <2>2, <2>4, ActRowShape DEF Shape
  <2> QED
    BY <1>1, <2>5 DEF Decide, Shape, RunShape, tables
<1>2. CASE Select(u)
  <2>1. PICK idle \in SUBSET {e \in act[u].review.ids :
                              IsLive(e) /\ ~entities[e].body /\ Edges(e) = 0} :
          act' = [act EXCEPT ![u].step = "delete", ![u].ids = idle]
    BY <1>2 DEF Select
  <2>2. idle \in SUBSET Nat
    BY SomeFacts
  <2>3. [act[u] EXCEPT !.step = "delete", !.ids = idle] \in ActRow
    BY <1>0, <2>2 DEF Shape, ActShape, ActRow, ActSteps
  <2>4. act' = [act EXCEPT ![u] = [act[u] EXCEPT !.step = "delete", !.ids = idle]]
    BY <1>0, <2>1 DEF Shape, ActShape
  <2>5. ActShape'
    BY <1>0, <2>3, <2>4, ActRowShape DEF Shape
  <2> QED
    BY <1>2, <2>5 DEF Select, Shape, RunShape, tables
<1>3. CASE Delete(u)
  <2>1. entities' \in Seq(EntityRow)
    <3> DEFINE deleted(r) == [r EXCEPT !.exists = FALSE, !.merged = NoEntity]
               revived(r) == [r EXCEPT !.merged = NoEntity]
               new(gone, e) == IF e \in gone THEN deleted(entities[e])
                               ELSE IF entities[e].merged \in gone
                                 THEN revived(entities[e])
                               ELSE entities[e]
    <3>1. ASSUME NEW r \in EntityRow
          PROVE  deleted(r) \in EntityRow /\ revived(r) \in EntityRow
      BY DEF EntityRow, NoEntity
    <3>2. \A gone : Without(gone) = [e \in 1..Len(entities) |-> new(gone, e)]
      BY DEF Without, Entities
    <3> HIDE DEF deleted, revived
    <3>3. \A gone : \A e \in 1..Len(entities) : new(gone, e) \in EntityRow
      BY <3>1 DEF Shape
    <3> HIDE DEF new
    <3>4. PICK gone : entities' = [e \in 1..Len(entities) |-> new(gone, e)]
      BY <1>3, <3>2 DEF Delete
    <3>5. Len(entities) \in Nat
      BY DEF Shape
    <3> QED
      BY <3>3, <3>4, <3>5
  <2>2. ActShape'
    BY <1>0, <1>3, TurnShape DEF Delete, Shape, ActSteps
  <2>3. at' \in [Links -> Nat]
    BY <1>3 DEF Delete, Shape, NoEntity
  <2> QED
    BY <1>3, <2>1, <2>2, <2>3 DEF Delete, Shape, RunShape
<1>4. CASE Resolve(u)
  <2>1. PICK r \in RowsOf(u) :
          reviews' = (reviews (-) SetToBag({r})) (+)
            SetToBag({[r EXCEPT !.status =
                         IF act[u].accept THEN "accepted" ELSE "rejected"]})
    BY <1>4 DEF Resolve
  <2>2. r \in ReviewRow
    BY DEF RowsOf, Shape
  <2> DEFINE s == IF act[u].accept THEN "accepted" ELSE "rejected"
  <2>3. [r EXCEPT !.status = s] \in ReviewRow
    BY <2>2 DEF ReviewRow
  <2> HIDE DEF s
  <2>4. DOMAIN (reviews (-) SetToBag({r})) \subseteq DOMAIN reviews
    BY DEF (-)
  <2>5. DOMAIN reviews' \subseteq DOMAIN (reviews (-) SetToBag({r}))
                                 \cup {[r EXCEPT !.status = s]}
    BY <2>1 DEF s, (+), SetToBag, BagToSet
  <2>6. ActShape'
    BY <1>0, <1>4, IdleShape, ActRowShape DEF Resolve, Shape
  <2> QED
    BY <1>4, <2>3, <2>4, <2>5, <2>6 DEF Resolve, Shape, RunShape
<1> QED
  BY <1>1, <1>2, <1>3, <1>4

LEMMA ActorKeepsShape ==
  ASSUME Shape, NEW a \in Actors,
         Repoint(a) \/ MoveBody(a) \/ Tombstone(a) \/ Fails(a) \/ Dies(a)
  PROVE  Shape'
<1>1. CASE Repoint(a)
  <2>1. After[act[a].step] \in ActSteps
    BY <1>1 DEF Repoint, After, Classes, ActSteps, MergeSteps
  <2>2. ActShape'
    BY <1>1, <2>1, TurnShape DEF Repoint, Shape
  <2>3. at' \in [Links -> Nat]
    BY <1>1 DEF Shape, ActShape, ActRow, Repoint
  <2> QED
    BY <1>1, <2>2, <2>3 DEF Repoint, Shape, RunShape
<1>2. CASE MoveBody(a)
  <2>1. entities' \in Seq(EntityRow)
    <3>1. CASE UNCHANGED entities
      BY <3>1 DEF Shape
    <3>2. CASE ~UNCHANGED entities
      <4> DEFINE e == act[a].to
      <4>1. e \in 1..Len(entities) /\ entities[e] \in EntityRow
        BY <1>2, <3>2 DEF Shape, MoveBody, Exists, Entities
      <4>2. [entities[e] EXCEPT !.body = TRUE] \in EntityRow
        BY <4>1 DEF EntityRow
      <4>3. entities' = [entities EXCEPT ![e] = [entities[e] EXCEPT !.body = TRUE]]
        BY <1>2, <3>2 DEF MoveBody
      <4> HIDE DEF e
      <4> QED
        BY <4>1, <4>2, <4>3 DEF Shape
    <3> QED
      BY <3>1, <3>2
  <2>2. ActShape'
    BY <1>2, TurnShape DEF MoveBody, Shape, After, ActSteps, MergeSteps
  <2> QED
    BY <1>2, <2>1, <2>2 DEF MoveBody, Shape, RunShape
<1>3. CASE Tombstone(a)
  <2>1. entities' \in Seq(EntityRow)
    <3> DEFINE e == act[a].from
    <3>1. e \in 1..Len(entities) /\ entities[e] \in EntityRow /\ act[a].to \in Nat
      BY <1>3 DEF Shape, ActShape, ActRow, Tombstone, Exists, Entities
    <3>2. [entities[e] EXCEPT !.merged = act[a].to] \in EntityRow
      BY <3>1 DEF EntityRow
    <3>3. entities' = [entities EXCEPT ![e] = [entities[e] EXCEPT !.merged = act[a].to]]
      BY <1>3 DEF Tombstone
    <3> HIDE DEF e
    <3> QED
      BY <3>1, <3>2, <3>3 DEF Shape
  <2>2. ActShape'
    BY <1>3, TurnShape DEF Tombstone, Shape, ActSteps
  <2> QED
    BY <1>3, <2>1, <2>2 DEF Tombstone, Shape, RunShape
<1>4. CASE Fails(a) \/ Dies(a)
  <2>1. ActShape'
    BY <1>4, IdleShape, ActRowShape DEF Fails, Dies, Abandon, Shape
  <2> QED
    BY <1>4, <2>1 DEF Fails, Dies, Abandon, Shape, RunShape, tables
<1> QED
  BY <1>1, <1>2, <1>3, <1>4

LEMMA ShapeKept == Shape /\ [Next]_vars => Shape'
<1> SUFFICES ASSUME Shape, [Next]_vars PROVE Shape'
  OBVIOUS
<1>1. CASE UNCHANGED vars
  BY <1>1 DEF vars, Shape, RunShape, ActShape
<1>2. CASE Next
  BY <1>2, RunKeepsShape, PassKeepsShape, ReviewerKeepsShape, ActorKeepsShape DEF Next
<1> QED
  BY <1>1, <1>2

-----------------------------------------------------------------------------
(* What merges have moved.                                                 *)

\* Statements that touch no link, revive or bury nobody, and leave every
\* merge where it was, at its beginning, or no further from its end.
LEMMA Frame ==
  ASSUME GraphInv, UNCHANGED <<at, late>>,
         \A e : Exists(e) => Exists(e)',
         \A e : IsLive(e) => IsLive(e)',
         \A a \in Actors : act'[a].step \in MergeSteps =>
           \/ act'[a].step = "subject"
           \/ /\ act[a].step \in MergeSteps
              /\ act'[a].from = act[a].from
              /\ Pending(act[a].step) \subseteq Pending(act'[a].step)
  PROVE  (NoLinkDangles /\ MergeProgress /\ TombstonesAreBare)'
<1>1. NoLinkDangles'
  BY DEF GraphInv, NoLinkDangles
<1>2. TombstonesAreBare'
  BY DEF GraphInv, TombstonesAreBare
<1>3. MergeProgress'
  <2> SUFFICES ASSUME NEW a \in Actors, act'[a].step \in MergeSteps,
                      NEW l \in Links \ late,
                      at[l] # NoEntity, at[l] = act'[a].from
               PROVE  Class[l] \in Pending(act'[a].step)
    BY DEF MergeProgress
  <2>1. CASE act'[a].step = "subject"
    BY <2>1, GraphAssumption DEF GraphAssumption, Pending, Classes
  <2>2. CASE act'[a].step # "subject"
    BY <2>2 DEF GraphInv, MergeProgress
  <2> QED
    BY <2>1, <2>2
<1> QED
  BY <1>1, <1>2, <1>3

Moved == NoLinkDangles /\ MergeProgress /\ TombstonesAreBare

LEMMA RunMoves ==
  ASSUME GraphInv, NEW w \in Runs,
         Start(w) \/ Exact(w) \/ Recall(w) \/ Bump(w) \/ LogMatch(w)
           \/ Create(w) \/ Propose(w) \/ Write(w) \/ RunFails(w)
  PROVE  Moved'
<1>1. CASE Start(w) \/ Exact(w) \/ Recall(w) \/ LogMatch(w) \/ Propose(w)
             \/ RunFails(w)
  <2>1. UNCHANGED <<entities, at, late, act>>
    BY <1>1 DEF Start, Exact, Recall, LogMatch, Propose, RunFails, tables, history
  <2> QED
    BY <2>1, Frame DEF Moved, Exists, IsLive, Entities
<1>2. CASE Bump(w)
  <2>1. UNCHANGED <<at, late, act>>
    BY <1>2 DEF Bump, history
  <2>2. /\ Len(entities') = Len(entities)
        /\ \A e \in Entities : /\ entities'[e].exists = entities[e].exists
                              /\ entities'[e].merged = entities[e].merged
    BY <1>2 DEF Bump, GraphInv, Shape, EntityRow, Entities
  <2> QED
    BY <2>1, <2>2, Frame DEF Moved, Exists, IsLive, Entities
<1>3. CASE Create(w)
  <2>1. UNCHANGED <<at, late, act>>
    BY <1>3 DEF Create, history
  <2>2. /\ Len(entities') = Len(entities) + 1
        /\ \A e \in Entities : entities'[e] = entities[e]
    BY <1>3 DEF Create, GraphInv, Shape, Entities
  <2>3. Len(entities) \in Nat
    BY DEF GraphInv, Shape
  <2> QED
    BY <2>1, <2>2, <2>3, Frame DEF Moved, Exists, IsLive, Entities
<1>4. CASE Write(w)
  <2> DEFINE e == run[w].entity
             m == run[w].mention
  <2>1. /\ Exists(e)
        /\ at' = [at EXCEPT ![m] = e]
        /\ late' = IF Leaving(e) THEN late \cup {m} ELSE late
        /\ UNCHANGED <<entities, act>>
    BY <1>4 DEF Write
  <2>2. \A l \in Links : at'[l] = at[l] \/ (l = m /\ at'[l] = e)
    BY <2>1 DEF GraphInv, Shape
  <2>3. \A l \in Links \ late' : at'[l] = at[l] \/ (at'[l] = e /\ ~Leaving(e))
    BY <2>1, <2>2
  <2>4. late \subseteq late'
    BY <2>1
  <2> HIDE DEF e, m
  <2>5. NoLinkDangles'
    BY <2>1, <2>2 DEF GraphInv, NoLinkDangles, Exists, Entities
  <2>6. TombstonesAreBare'
    BY <2>1, <2>3, <2>4
       DEF GraphInv, TombstonesAreBare, Leaving, IsLive, Exists, Entities
  <2>7. MergeProgress'
    BY <2>1, <2>3, <2>4 DEF GraphInv, MergeProgress, Leaving
  <2> QED
    BY <2>5, <2>6, <2>7 DEF Moved
<1> QED
  BY <1>1, <1>2, <1>3, <1>4

LEMMA PassMoves ==
  ASSUME GraphInv,
         Load \/ Block \/ JudgeSame \/ JudgeApart \/ LogMerge \/ FlagStrays
  PROVE  Moved'
<1>1. UNCHANGED <<entities, at, late>>
  BY DEF Load, Block, JudgeSame, JudgeApart, LogMerge, FlagStrays, tables, history
<1>2. Pass \in Actors /\ act \in [Actors -> ActRow]
  BY DEF Actors, GraphInv, Shape, ActShape
<1>3. \A a \in Actors : act'[a] = act[a] \/ a = Pass
  <2>1. CASE Load
    BY <1>2, <2>1 DEF Load
  <2>2. CASE Block
    BY <1>2, <2>2 DEF Block, Turn
  <2>3. CASE JudgeSame
    <3>1. PICK p \in pairs : act' = BeginMerge(Pass, p[2], p[1])
      BY <2>3 DEF JudgeSame
    <3> QED
      BY <1>2, <3>1 DEF BeginMerge
  <2>4. CASE JudgeApart
    BY <2>4 DEF JudgeApart
  <2>5. CASE LogMerge
    BY <1>2, <2>5 DEF LogMerge
  <2>6. CASE FlagStrays
    BY <1>2, <2>6 DEF FlagStrays
  <2> QED
    BY <2>1, <2>2, <2>3, <2>4, <2>5, <2>6
<1>4. act'[Pass].step \in {"block", "judge", "subject", "idle"}
  <2>1. CASE Load
    <3> DEFINE strays == {e \in Live : Stray(e)}
               row(ids) == [Idle EXCEPT !.step = "block", !.ids = ids]
    <3>1. act' = [act EXCEPT ![Pass] = row(strays)]
      BY <2>1 DEF Load
    <3>2. \A ids : row(ids).step = "block"
      BY DEF Idle
    <3> HIDE DEF row, strays
    <3> QED
      BY <1>2, <3>1, <3>2
  <2>6. CASE FlagStrays
    BY <1>2, <2>6 DEF FlagStrays, Idle
  <2>2. CASE Block
    BY <1>2, <2>2 DEF Block, Turn, ActRow
  <2>3. CASE JudgeSame
    <3>1. PICK p \in pairs : act' = BeginMerge(Pass, p[2], p[1])
      BY <2>3 DEF JudgeSame
    <3> QED
      BY <1>2, <3>1 DEF BeginMerge, ActRow
  <2>4. CASE JudgeApart
    BY <2>4 DEF JudgeApart, On
  <2>5. CASE LogMerge
    BY <1>2, <2>5 DEF LogMerge, ActRow
  <2> QED
    BY <2>1, <2>2, <2>3, <2>4, <2>5, <2>6
<1> QED
  BY <1>1, <1>3, <1>4, Frame DEF Moved, Exists, IsLive, Entities, MergeSteps, Classes

LEMMA ReviewerMoves ==
  ASSUME GraphInv, NEW u \in Reviewers,
         Decide(u) \/ Select(u) \/ Delete(u) \/ Resolve(u)
  PROVE  Moved'
<1>0. u \in Actors /\ act \in [Actors -> ActRow]
  BY DEF Actors, GraphInv, Shape, ActShape
<1>1. CASE Decide(u) \/ Select(u) \/ Resolve(u)
  <2>1. UNCHANGED <<entities, at, late>>
    BY <1>1 DEF Decide, Select, Resolve, tables, history
  <2>2. \A a \in Actors : act'[a] = act[a] \/ a = u
    BY <1>0, <1>1 DEF Decide, Select, Resolve
  <2>3. act'[u].step \in {"subject", "select", "resolve", "delete", "idle"}
    BY <1>0, <1>1 DEF Decide, Select, Resolve, Idle, ActRow
  <2> QED
    BY <2>1, <2>2, <2>3, Frame
       DEF Moved, Exists, IsLive, Entities, MergeSteps, Classes
<1>2. CASE Delete(u)
  <2> DEFINE gone == {e \in act[u].ids : Exists(e)}
  <2>1. /\ entities' = Without(gone)
        /\ at' = [l \in Links |-> IF at[l] \in gone THEN NoEntity ELSE at[l]]
        /\ late' = {l \in late : at[l] \notin gone}
        /\ act' = [act EXCEPT ![u].step = "resolve"]
    BY <1>2 DEF Delete, Turn
  <2> HIDE DEF gone
  <2>2. \A e \in Entities \ gone :
          /\ Exists(e) => Exists(e)'
          /\ IsLive(e) => IsLive(e)'
    <3> DEFINE deleted(r) == [r EXCEPT !.exists = FALSE, !.merged = NoEntity]
               revived(r) == [r EXCEPT !.merged = NoEntity]
               new(e) == IF e \in gone THEN deleted(entities[e])
                         ELSE IF entities[e].merged \in gone THEN revived(entities[e])
                         ELSE entities[e]
    <3>1. \A r \in EntityRow : revived(r).exists = r.exists
                              /\ revived(r).merged = NoEntity
      BY DEF EntityRow, NoEntity
    <3>2. entities' = [e \in 1..Len(entities) |-> new(e)]
      BY <2>1 DEF Without, Entities
    <3>3. entities' \in Seq(EntityRow) /\ entities \in Seq(EntityRow)
      BY ShapeKept, <1>2 DEF GraphInv, Shape, Next
    <3> HIDE DEF deleted, revived
    <3>4. \A e \in Entities \ gone :
            /\ new(e).exists = entities[e].exists
            /\ new(e).merged \in {entities[e].merged, NoEntity}
      BY <3>1, <3>3 DEF Entities
    <3> HIDE DEF new
    <3>5. Len(entities') = Len(entities)
      BY <3>2, <3>3
    <3>6. \A e \in Entities \ gone :
            /\ entities'[e].exists = entities[e].exists
            /\ entities'[e].merged \in {entities[e].merged, NoEntity}
      BY <3>2, <3>4 DEF Entities
    <3> QED
      BY <3>5, <3>6 DEF Exists, IsLive, Entities
  <2>3. \A l \in Links : at'[l] # NoEntity => at'[l] = at[l] /\ at[l] \notin gone
    BY <2>1
  <2>4. \A l \in Links \ late' : at'[l] # NoEntity => l \notin late
    BY <2>1, <2>3
  <2>5. NoLinkDangles'
    BY <2>2, <2>3 DEF GraphInv, NoLinkDangles, Exists
  <2>6. TombstonesAreBare'
    BY <2>2, <2>3, <2>4 DEF GraphInv, TombstonesAreBare, IsLive, Exists
  <2>7. \A a \in Actors : act'[a] = act[a] \/ act'[a].step = "resolve"
    BY <1>0, <2>1 DEF ActRow
  <2>8. MergeProgress'
    BY <2>3, <2>4, <2>7 DEF GraphInv, MergeProgress, MergeSteps, Classes
  <2> QED
    BY <2>5, <2>6, <2>8 DEF Moved
<1> QED
  BY <1>1, <1>2

LEMMA ActorMoves ==
  ASSUME GraphInv, NEW a \in Actors,
         Repoint(a) \/ MoveBody(a) \/ Tombstone(a) \/ Fails(a) \/ Dies(a)
  PROVE  Moved'
<1>0. act \in [Actors -> ActRow] /\ at \in [Links -> Nat]
  BY DEF GraphInv, Shape, ActShape
<1>1. CASE Repoint(a)
  <2> DEFINE step == act[a].step
             to == act[a].to
             moved == Hanging(step, act[a].from)
  <2>1. /\ step \in Classes
        /\ moved = {} \/ Exists(to)
        /\ at' = [l \in Links |-> IF l \in moved THEN to ELSE at[l]]
        /\ late' = IF moved # {} /\ Leaving(to) THEN late \cup moved ELSE late \ moved
        /\ act' = [act EXCEPT ![a].step = After[step]]
        /\ UNCHANGED entities
    BY <1>1 DEF Repoint, Turn
  <2>2. \A l \in Links \ late' :
          \/ l \in moved /\ at'[l] = to /\ Exists(to) /\ ~Leaving(to)
          \/ l \notin moved /\ l \notin late /\ at'[l] = at[l]
    BY <2>1
  <2>3. NoLinkDangles'
    BY <2>1 DEF GraphInv, NoLinkDangles, Exists, Entities
  <2>4. TombstonesAreBare'
    BY <2>1, <2>2 DEF GraphInv, TombstonesAreBare, Leaving, IsLive, Exists, Entities
  <2>5. MergeProgress'
    <3> SUFFICES ASSUME NEW b \in Actors, act'[b].step \in MergeSteps,
                        NEW l \in Links \ late',
                        at'[l] # NoEntity, at'[l] = act'[b].from
                 PROVE  Class[l] \in Pending(act'[b].step)
      BY DEF MergeProgress
    <3>1. act'[b].from = act[b].from /\ act[b].step \in MergeSteps
      BY <1>0, <2>1 DEF MergeSteps, ActRow
    <3>2. l \notin moved /\ l \notin late /\ at'[l] = at[l]
      BY <2>2, <3>1 DEF Leaving
    <3>3. Class[l] \in Pending(act[b].step)
      BY <3>1, <3>2 DEF GraphInv, MergeProgress
    <3>4. CASE b = a
      <4>1. Class[l] # step
        BY <3>1, <3>2, <3>4 DEF Hanging
      <4>2. act'[b].step = After[step]
        BY <1>0, <2>1, <3>4 DEF ActRow
      <4> QED
        BY <2>1, <3>3, <3>4, <4>1, <4>2 DEF Pending, After, Classes
    <3>5. CASE b # a
      BY <1>0, <2>1, <3>3, <3>5
    <3> QED
      BY <3>4, <3>5
  <2> QED
    BY <2>3, <2>4, <2>5 DEF Moved
<1>2. CASE MoveBody(a)
  <2>1. UNCHANGED <<at, late>> /\ On(a, "body")
    BY <1>2 DEF MoveBody, history
  <2>2. act' = [act EXCEPT ![a].step = "tombstone"]
    BY <1>2 DEF MoveBody, Turn, After
  <2>3. /\ Len(entities') = Len(entities)
        /\ \A e \in Entities : /\ entities'[e].exists = entities[e].exists
                              /\ entities'[e].merged = entities[e].merged
    <3>1. CASE UNCHANGED entities
      BY <3>1
    <3>2. CASE ~UNCHANGED entities
      <4>1. entities' = [entities EXCEPT ![act[a].to].body = TRUE]
        BY <1>2, <3>2 DEF MoveBody
      <4> QED
        BY <4>1 DEF GraphInv, Shape, EntityRow, Entities
    <3> QED
      BY <3>1, <3>2
  <2>4. \A b \in Actors : b # a => act'[b] = act[b]
    BY <1>0, <2>2
  <2>5. \A e : (Exists(e) => Exists(e)') /\ (IsLive(e) => IsLive(e)')
    BY <2>3 DEF Exists, IsLive, Entities
  <2>6. "body" \in MergeSteps /\ Pending("body") = {} /\ Pending("tombstone") = {}
    BY DEF MergeSteps, Pending
  <2>7. \A b \in Actors : act'[b].step \in MergeSteps =>
          /\ act[b].step \in MergeSteps
          /\ act'[b].from = act[b].from
          /\ Pending(act[b].step) \subseteq Pending(act'[b].step)
    <3> TAKE b \in Actors
    <3>1. CASE b # a
      BY <2>4, <3>1
    <3>2. CASE b = a
      <4>1. act[a].step \in MergeSteps /\ Pending(act[a].step) = {}
        BY <2>1, <2>6 DEF On
      <4>2. act'[a].from = act[a].from
        BY <1>0, <2>2 DEF ActRow
      <4> QED
        BY <3>2, <4>1, <4>2
    <3> QED
      BY <3>1, <3>2
  <2> QED
    BY <2>1, <2>5, <2>7, Frame DEF Moved
<1>3. CASE Tombstone(a)
  <2> DEFINE from == act[a].from
             to == act[a].to
  <2>1. /\ act[a].step = "tombstone"
        /\ UNCHANGED <<at, late>>
        /\ entities' = [entities EXCEPT ![from].merged = to]
        /\ act' = [act EXCEPT ![a].step = IF a = Pass THEN "log" ELSE "resolve"]
    BY <1>3 DEF Tombstone, On, Turn, history
  <2>2. /\ Len(entities') = Len(entities)
        /\ \A e \in Entities : /\ entities'[e].exists = entities[e].exists
                              /\ e # from => entities'[e].merged = entities[e].merged
    BY <2>1 DEF GraphInv, Shape, EntityRow, Entities
  <2>3. \A l \in Links \ late : at[l] # NoEntity => at[l] # from
    BY <2>1 DEF GraphInv, MergeProgress, Pending, MergeSteps
  <2>4. NoLinkDangles'
    BY <2>1, <2>2 DEF GraphInv, NoLinkDangles, Exists, Entities
  <2>5. TombstonesAreBare'
    BY <2>1, <2>2, <2>3 DEF GraphInv, TombstonesAreBare, IsLive, Exists, Entities
  <2>6. \A b \in Actors : act'[b] = act[b] \/ act'[b].step \in {"log", "resolve"}
    BY <1>0, <2>1 DEF ActRow
  <2>7. MergeProgress'
    BY <2>1, <2>6 DEF GraphInv, MergeProgress, MergeSteps, Classes
  <2> QED
    BY <2>4, <2>5, <2>7 DEF Moved
<1>4. CASE Fails(a) \/ Dies(a)
  <2>1. UNCHANGED <<entities, at, late>> /\ act' = [act EXCEPT ![a] = Idle]
    BY <1>4 DEF Fails, Dies, Abandon, tables
  <2>2. \A b \in Actors : act'[b] = act[b] \/ act'[b].step = "idle"
    BY <1>0, <2>1 DEF Idle
  <2> QED
    BY <2>1, <2>2, Frame DEF Moved, Exists, IsLive, Entities, MergeSteps, Classes
<1> QED
  BY <1>1, <1>2, <1>3, <1>4

-----------------------------------------------------------------------------

LEMMA GraphStep == GraphInv /\ [Next]_vars => GraphInv'
<1> SUFFICES ASSUME GraphInv, [Next]_vars PROVE GraphInv'
  OBVIOUS
<1>1. Shape'
  BY ShapeKept DEF GraphInv
<1>2. Moved'
  <2>1. CASE UNCHANGED vars
    BY <2>1 DEF vars, GraphInv, Moved, NoLinkDangles, MergeProgress,
                TombstonesAreBare, Exists, IsLive, Entities
  <2>2. CASE Next
    BY <2>2, RunMoves, PassMoves, ReviewerMoves, ActorMoves DEF Next
  <2> QED
    BY <2>1, <2>2
<1> QED
  BY <1>1, <1>2 DEF GraphInv, Moved

\* The re-pointing of mergeEntities is complete: no link hangs on a tombstone
\* that was not put there late, whichever merges run side by side, whoever
\* dies between two statements, and whatever is deleted meanwhile.
THEOREM MergesLeaveNothing == Spec => []TombstonesAreBare
<1>1. Init => GraphInv
  BY InitGraph
<1>2. GraphInv /\ [Next]_vars => GraphInv'
  BY GraphStep
<1>3. GraphInv => TombstonesAreBare
  BY DEF GraphInv
<1> QED
  BY <1>1, <1>2, <1>3, PTL DEF Spec

-----------------------------------------------------------------------------
(* What each statement does to the tables.                                 *)

LEMMA MaxSupportNat == MaxSupport \in Nat \ {0}
BY GraphAssumption DEF GraphAssumption

\* bumpSupport: one entity, by one, up to the bound.
LEMMA BumpRows ==
  ASSUME Shape, NEW w \in Runs, Bump(w)
  PROVE  /\ Len(entities') = Len(entities)
         /\ \A e \in Entities :
              /\ entities'[e].exists = entities[e].exists
              /\ entities'[e].merged = entities[e].merged
              /\ \/ entities'[e].support = entities[e].support
                 \/ /\ entities[e].support < MaxSupport
                    /\ entities'[e].support = entities[e].support + 1
BY DEF Bump, Shape, EntityRow, Entities

LEMMA CreateRows ==
  ASSUME Shape, NEW w \in Runs, Create(w)
  PROVE  /\ Len(entities) \in Nat
         /\ Len(entities') = Len(entities) + 1
         /\ \A e \in Entities : entities'[e] = entities[e]
         /\ entities'[Len(entities) + 1].exists
         /\ entities'[Len(entities) + 1].merged = NoEntity
         /\ entities'[Len(entities) + 1].support = 1
BY DEF Create, Shape, Entities

LEMMA BodyRows ==
  ASSUME Shape, NEW a \in Actors, MoveBody(a)
  PROVE  /\ Len(entities') = Len(entities)
         /\ \A e \in Entities :
              /\ entities'[e].exists = entities[e].exists
              /\ entities'[e].merged = entities[e].merged
              /\ entities'[e].support = entities[e].support
<1>1. CASE UNCHANGED entities
  BY <1>1
<1>2. CASE ~UNCHANGED entities
  <2>1. entities' = [entities EXCEPT ![act[a].to].body = TRUE]
    BY <1>2 DEF MoveBody
  <2> QED
    BY <2>1 DEF Shape, EntityRow, Entities
<1> QED
  BY <1>1, <1>2

LEMMA TombstoneRows ==
  ASSUME Shape, NEW a \in Actors, Tombstone(a)
  PROVE  /\ act[a].step = "tombstone"
         /\ Exists(act[a].from) /\ Exists(act[a].to)
         /\ Len(entities') = Len(entities)
         /\ \A e \in Entities :
              /\ entities'[e].exists = entities[e].exists
              /\ entities'[e].support = entities[e].support
              /\ entities'[e].merged = IF e = act[a].from THEN act[a].to
                                                         ELSE entities[e].merged
BY DEF Tombstone, On, Shape, EntityRow, Entities

Gone(u) == {e \in act[u].ids : Exists(e)}

LEMMA DeleteRows ==
  ASSUME Shape, NEW u \in Reviewers, Delete(u)
  PROVE  /\ Len(entities') = Len(entities)
         /\ \A e \in Entities :
              /\ entities'[e].exists = (entities[e].exists /\ e \notin Gone(u))
              /\ entities'[e].support = entities[e].support
              /\ entities'[e].merged =
                   IF e \in Gone(u) \/ entities[e].merged \in Gone(u)
                     THEN NoEntity ELSE entities[e].merged
<1> DEFINE gone == Gone(u)
           deleted(r) == [r EXCEPT !.exists = FALSE, !.merged = NoEntity]
           revived(r) == [r EXCEPT !.merged = NoEntity]
           new(e) == IF e \in gone THEN deleted(entities[e])
                     ELSE IF entities[e].merged \in gone THEN revived(entities[e])
                     ELSE entities[e]
<1>1. \A r \in EntityRow :
        /\ deleted(r).exists = FALSE
        /\ deleted(r).merged = NoEntity
        /\ deleted(r).support = r.support
        /\ revived(r).exists = r.exists
        /\ revived(r).merged = NoEntity
        /\ revived(r).support = r.support
  BY DEF EntityRow
<1>2. entities' = [e \in 1..Len(entities) |-> new(e)]
  BY DEF Delete, Without, Entities, Gone
<1>3. /\ entities' \in Seq(EntityRow) /\ entities \in Seq(EntityRow)
      /\ Len(entities) \in Nat
  BY ShapeKept DEF Shape, Next
<1> HIDE DEF deleted, revived
<1>4. \A e \in Entities :
        /\ new(e).exists = (entities[e].exists /\ e \notin gone)
        /\ new(e).support = entities[e].support
        /\ new(e).merged = IF e \in gone \/ entities[e].merged \in gone
                             THEN NoEntity ELSE entities[e].merged
  <2> SUFFICES ASSUME NEW e \in Entities
               PROVE  /\ new(e).exists = (entities[e].exists /\ e \notin gone)
                      /\ new(e).support = entities[e].support
                      /\ new(e).merged = IF e \in gone \/ entities[e].merged \in gone
                             THEN NoEntity ELSE entities[e].merged
    OBVIOUS
  <2>1. entities[e] \in EntityRow
    BY <1>3 DEF Entities
  <2>2. entities[e].exists \in BOOLEAN
    BY <2>1 DEF EntityRow
  <2> QED
    BY <2>1, <2>2, <1>1
<1> HIDE DEF new
<1>5. Len(entities') = Len(entities)
  BY <1>2, <1>3
<1> HIDE DEF gone
<1>6. \A e \in Entities : entities'[e] = new(e)
  BY <1>2 DEF Entities
<1> QED
  BY <1>4, <1>5, <1>6 DEF gone

\* All that changes a row of entities.
LEMMA EntitiesChange ==
  ASSUME Next
  PROVE  \/ UNCHANGED entities
         \/ \E w \in Runs : Bump(w) \/ Create(w)
         \/ \E a \in Actors : MoveBody(a) \/ Tombstone(a)
         \/ \E u \in Reviewers : Delete(u)
BY DEF Next, Start, Exact, Recall, LogMatch, Propose, Write, RunFails, Load, Block,
       JudgeSame, JudgeApart, LogMerge, FlagStrays, Decide, Select, Resolve,
       Repoint, Fails, Dies, Abandon, tables

\* Entities are never forgotten, and stay unless they are deleted.
LEMMA EntitiesStay ==
  ASSUME Shape, Next
  PROVE  /\ Len(entities) \in Nat /\ Len(entities') \in Nat
         /\ Len(entities) <= Len(entities')
         /\ \A e : Exists(e) =>
              \/ Exists(e)'
              \/ \E u \in Reviewers : Delete(u) /\ e \in Gone(u)
<1>0. Len(entities) \in Nat /\ Len(entities') \in Nat
  BY ShapeKept DEF Shape
<1>1. CASE UNCHANGED entities
  BY <1>0, <1>1 DEF Exists, Entities
<1>2. ASSUME NEW w \in Runs, Bump(w) PROVE Len(entities') = Len(entities)
                                      /\ \A e : Exists(e) => Exists(e)'
  BY <1>2, BumpRows DEF Exists, Entities
<1>3. ASSUME NEW w \in Runs, Create(w) PROVE Len(entities') = Len(entities) + 1
                                        /\ \A e : Exists(e) => Exists(e)'
  BY <1>3, CreateRows DEF Exists, Entities
<1>4. ASSUME NEW a \in Actors, MoveBody(a) \/ Tombstone(a)
      PROVE Len(entities') = Len(entities) /\ \A e : Exists(e) => Exists(e)'
  BY <1>4, BodyRows, TombstoneRows DEF Exists, Entities
<1>5. ASSUME NEW u \in Reviewers, Delete(u)
      PROVE Len(entities') = Len(entities)
            /\ \A e : Exists(e) => Exists(e)' \/ e \in Gone(u)
  BY <1>5, DeleteRows DEF Exists, Entities
<1> QED
  BY <1>0, <1>1, <1>2, <1>3, <1>4, <1>5, EntitiesChange

-----------------------------------------------------------------------------
(* The bag of reviews.                                                     *)

\* One copy less of a row.
LEMMA OneLess ==
  ASSUME NEW B, IsABag(B), NEW r \in DOMAIN B, NEW C, C = B (-) SetToBag({r})
  PROVE  /\ IsABag(C)
         /\ DOMAIN C \subseteq DOMAIN B
         /\ DOMAIN B \ {r} \subseteq DOMAIN C
         /\ \A q \in DOMAIN B \ {r} : C[q] = B[q]
         /\ B[r] = 1 => r \notin DOMAIN C
BY DEF IsABag, (-), SetToBag

\* A row is filed.
LEMMA FileRow ==
  ASSUME IsABag(reviews), NEW r, File(r)
  PROVE  /\ IsABag(reviews')
         /\ DOMAIN reviews' = DOMAIN reviews \cup {r}
         /\ \A q \in DOMAIN reviews \ {r} : reviews'[q] = reviews[q]
         /\ r \notin DOMAIN reviews => reviews'[r] = 1
BY DEF IsABag, File, (+), SetToBag

\* The row r has become s.
Settled(r, s) ==
  /\ IsABag(reviews')
  /\ s \in DOMAIN reviews'
  /\ DOMAIN reviews' \subseteq DOMAIN reviews \cup {s}
  /\ DOMAIN reviews \ {r} \subseteq DOMAIN reviews'
  /\ \A q \in DOMAIN reviews \ {r, s} : reviews'[q] = reviews[q]
  /\ reviews[r] = 1 /\ s # r => r \notin DOMAIN reviews'
  /\ reviews[r] = 1 /\ (s = r \/ s \notin DOMAIN reviews) => reviews'[s] = 1

\* The status of a row is set: one copy of it becomes one of another row.
LEMMA MoveRow ==
  ASSUME IsABag(reviews), NEW r \in DOMAIN reviews, NEW s,
         reviews' = (reviews (-) SetToBag({r})) (+) SetToBag({s})
  PROVE  Settled(r, s)
<1>1. PICK C : C = reviews (-) SetToBag({r})
  OBVIOUS
<1>2. /\ IsABag(C)
      /\ DOMAIN C \subseteq DOMAIN reviews
      /\ DOMAIN reviews \ {r} \subseteq DOMAIN C
      /\ \A q \in DOMAIN reviews \ {r} : C[q] = reviews[q]
      /\ reviews[r] = 1 => r \notin DOMAIN C
  BY <1>1, OneLess
<1>3. /\ IsABag(reviews')
      /\ DOMAIN reviews' = DOMAIN C \cup {s}
      /\ \A q \in DOMAIN C \ {s} : reviews'[q] = C[q]
      /\ s \notin DOMAIN C => reviews'[s] = 1
  BY <1>1, <1>2 DEF IsABag, (+), SetToBag
<1> QED
  BY <1>2, <1>3 DEF Settled
-----------------------------------------------------------------------------
(* What the processes remember.                                            *)

MergeOrLog == MergeSteps \cup {"log"}

LEMMA TurnRow ==
  ASSUME ActShape, NEW a \in Actors, NEW s, Turn(a, s)
  PROVE  /\ \A b \in Actors : b # a => act'[b] = act[b]
         /\ act'[a].step = s
         /\ act'[a].from = act[a].from /\ act'[a].to = act[a].to
         /\ act'[a].review = act[a].review
         /\ act'[a].accept = act[a].accept /\ act'[a].ids = act[a].ids
BY DEF ActShape, ActRow, Turn

LEMMA IdleRow ==
  ASSUME ActShape, NEW a \in Actors, act' = [act EXCEPT ![a] = Idle]
  PROVE  /\ \A b \in Actors : b # a => act'[b] = act[b]
         /\ act'[a].step = "idle" /\ act'[a].from = NoEntity
BY DEF ActShape, Idle

\* All that changes what a process remembers.
LEMMA ActChange ==
  ASSUME Next
  PROVE  \/ UNCHANGED act
         \/ Load \/ Block \/ JudgeSame \/ LogMerge \/ FlagStrays
         \/ \E u \in Reviewers : Decide(u) \/ Select(u) \/ Delete(u) \/ Resolve(u)
         \/ \E a \in Actors :
              Repoint(a) \/ MoveBody(a) \/ Tombstone(a) \/ Fails(a) \/ Dies(a)
BY DEF Next, Start, Exact, Recall, Bump, LogMatch, Create, Propose, Write, RunFails,
       JudgeApart

LEMMA DecideRow ==
  ASSUME ActShape, NEW u \in Reviewers, Decide(u)
  PROVE  /\ \A b \in Actors : b # u => act'[b] = act[b]
         /\ act[u].step = "idle"
         /\ act'[u].review \in DOMAIN reviews
         /\ act'[u].review.status = "pending"
         /\ \/ /\ act'[u].step = "subject"
               /\ act'[u].accept
               /\ act'[u].review.kind = "merge"
               /\ act'[u].from = act'[u].review.source
               /\ act'[u].to = act'[u].review.target
            \/ /\ act'[u].step \in {"select", "resolve"}
               /\ act'[u].from = NoEntity
               /\ act'[u].accept => act'[u].review.kind # "merge"
               /\ act'[u].step = "select" => act'[u].review.kind = "prune"
<1>0. u \in Actors
  BY DEF Actors
<1>1. PICK r \in DOMAIN reviews, accept \in BOOLEAN :
        /\ On(u, "idle")
        /\ r.status = "pending"
        /\ act' = [act EXCEPT ![u] =
             [step |-> CASE accept /\ r.kind = "merge" -> "subject"
                         [] accept /\ r.kind = "prune" -> "select"
                         [] OTHER                      -> "resolve",
              from |-> IF accept /\ r.kind = "merge" THEN r.source ELSE NoEntity,
              to |-> IF accept /\ r.kind = "merge" THEN r.target ELSE NoEntity,
              review |-> r, accept |-> accept, ids |-> {}]]
  BY DEF Decide
<1>2. CASE accept /\ r.kind = "merge"
  BY <1>0, <1>1, <1>2 DEF ActShape, On
<1>3. CASE ~(accept /\ r.kind = "merge")
  BY <1>0, <1>1, <1>3 DEF ActShape, On
<1> QED
  BY <1>2, <1>3

LEMMA JudgeSameRow ==
  ASSUME ActShape, NEW p \in pairs, act' = BeginMerge(Pass, p[2], p[1])
  PROVE  /\ \A b \in Actors : b # Pass => act'[b] = act[b]
         /\ act'[Pass].step = "subject"
         /\ act'[Pass].from = p[2] /\ act'[Pass].to = p[1]
BY DEF ActShape, ActRow, BeginMerge, Actors

LEMMA LogMergeRow ==
  ASSUME ActShape, LogMerge
  PROVE  /\ \A b \in Actors : b # Pass => act'[b] = act[b]
         /\ act[Pass].step = "log" /\ act'[Pass].step = "judge"
BY DEF ActShape, ActRow, LogMerge, Actors, On

LEMMA LoadRow ==
  ASSUME ActShape, Load
  PROVE  /\ \A b \in Actors : b # Pass => act'[b] = act[b]
         /\ act'[Pass].step = "block" /\ act'[Pass].from = NoEntity
<1> DEFINE strays == {e \in Live : Stray(e)}
           row(ids) == [Idle EXCEPT !.step = "block", !.ids = ids]
<1>1. act' = [act EXCEPT ![Pass] = row(strays)]
  BY DEF Load
<1>2. \A ids : row(ids).step = "block" /\ row(ids).from = NoEntity
  BY DEF Idle
<1>3. Pass \in Actors
  BY DEF Actors
<1> HIDE DEF row, strays
<1> QED
  BY <1>1, <1>2, <1>3 DEF ActShape

LEMMA SelectRow ==
  ASSUME ActShape, NEW u \in Reviewers, Select(u)
  PROVE  /\ \A b \in Actors : b # u => act'[b] = act[b]
         /\ act[u].step = "select" /\ act'[u].step = "delete"
         /\ act'[u].from = act[u].from /\ act'[u].to = act[u].to
         /\ act'[u].review = act[u].review /\ act'[u].accept = act[u].accept
BY DEF ActShape, ActRow, Select, Actors, On

\* Where a merge comes from: from a pair, from a review, or from the
\* statement before.
LEMMA MergeFrom ==
  ASSUME Shape, Next, NEW a \in Actors, act'[a].step \in MergeOrLog
  PROVE  \/ /\ act[a].step \in MergeOrLog
            /\ act'[a].from = act[a].from /\ act'[a].to = act[a].to
         \/ /\ a = Pass /\ JudgeSame
            /\ \E p \in pairs :
                 act'[a].from = p[2] /\ act'[a].to = p[1] /\ pairs' = pairs \ {p}
         \/ /\ a \in Reviewers
            /\ Decide(a)
            /\ act'[a].review.kind = "merge"
            /\ act'[a].from = act'[a].review.source
            /\ act'[a].to = act'[a].review.target
<1> USE DEF MergeOrLog, MergeSteps, Classes
<1>0. ActShape /\ Pass \in Actors /\ Reviewers \subseteq Actors
  BY DEF Shape, Actors
<1>1. CASE UNCHANGED act
  BY <1>1
<1>2. CASE Load
  BY <1>0, <1>2, LoadRow
<1>3. CASE Block
  BY <1>0, <1>3, TurnRow DEF Block
<1>4. CASE JudgeSame
  <2>1. PICK p \in pairs : act' = BeginMerge(Pass, p[2], p[1]) /\ pairs' = pairs \ {p}
    BY <1>4 DEF JudgeSame
  <2> QED
    BY <1>0, <1>4, <2>1, JudgeSameRow
<1>5. CASE LogMerge
  BY <1>0, <1>5, LogMergeRow
<1>6. CASE FlagStrays
  BY <1>0, <1>6, IdleRow DEF FlagStrays
<1>7. ASSUME NEW u \in Reviewers, Decide(u)
      PROVE  \/ act'[a] = act[a]
             \/ a \in Reviewers /\ Decide(a) /\ act'[a].review.kind = "merge"
                /\ act'[a].from = act'[a].review.source
                /\ act'[a].to = act'[a].review.target
  BY <1>0, <1>7, DecideRow
<1>8. ASSUME NEW u \in Reviewers, Select(u) PROVE act'[a] = act[a]
  BY <1>0, <1>8, SelectRow
<1>9. ASSUME NEW u \in Reviewers, Delete(u) PROVE act'[a] = act[a]
  BY <1>0, <1>9, TurnRow DEF Delete
<1>10. ASSUME NEW u \in Reviewers, Resolve(u) PROVE act'[a] = act[a]
  BY <1>0, <1>10, IdleRow DEF Resolve
<1>11. ASSUME NEW b \in Actors, Repoint(b) \/ MoveBody(b) \/ Tombstone(b)
       PROVE  \/ act'[a] = act[a]
              \/ /\ act[a].step \in MergeOrLog
                 /\ act'[a].from = act[a].from /\ act'[a].to = act[a].to
  BY <1>0, <1>11, TurnRow DEF Repoint, MoveBody, Tombstone, On
<1>12. ASSUME NEW b \in Actors, Fails(b) \/ Dies(b) PROVE act'[a] = act[a]
  BY <1>0, <1>12, IdleRow DEF Fails, Dies, Abandon
<1> QED
  BY <1>1, <1>2, <1>3, <1>4, <1>5, <1>6, <1>7, <1>8, <1>9, <1>10, <1>11, <1>12, ActChange
-----------------------------------------------------------------------------
(* The rows are sound: RowsInv.                                            *)

EntityRows ==
  \A e \in Entities :
    /\ entities[e].support \in 1..MaxSupport
    /\ \/ entities[e].merged = NoEntity
       \/ Exists(e) /\ entities[e].merged # e /\ Exists(entities[e].merged)

ReviewRows ==
  /\ IsABag(reviews)
  /\ \A r \in DOMAIN reviews :
       /\ r.status # "none" /\ r.by # "nobody"
       /\ r.source = NoEntity \/ Exists(r.source)
       /\ r.target = NoEntity \/ Exists(r.target)
       /\ r.kind = "merge" => r.source # r.target /\ r.ids = {}
       /\ r.kind = "prune" => r.source = NoEntity /\ r.target = NoEntity /\ r.ids # {}

\* A run never proposes to merge an entity with itself.
RunsApart ==
  \A w \in Runs :
    /\ run[w].match \in 0..Len(entities) /\ run[w].entity \in 0..Len(entities)
    /\ RunAt(w, "propose") => run[w].entity # run[w].match

\* Nobody merges an entity with itself.
MergesApart ==
  \A a \in Actors : act[a].step \in MergeOrLog => act[a].from # act[a].to

PairsApart ==
  pairs \subseteq Entities \X Entities /\ \A p \in pairs : p[1] # p[2]

RowsInv == GraphInv /\ EntityRows /\ ReviewRows /\ RunsApart /\ MergesApart /\ PairsApart

\* Merges stay between two entities.
LEMMA MergesApartKept ==
  ASSUME RowsInv, Next
  PROVE  MergesApart'
<1> SUFFICES ASSUME NEW a \in Actors, act'[a].step \in MergeOrLog
             PROVE  act'[a].from # act'[a].to
  BY DEF MergesApart
<1>1. Shape
  BY DEF RowsInv, GraphInv
<1>2. ASSUME NEW p \in pairs, act'[a].from = p[2], act'[a].to = p[1]
      PROVE  act'[a].from # act'[a].to
  BY <1>2 DEF RowsInv, PairsApart
<1>3. ASSUME a \in Reviewers, Decide(a), act'[a].review.kind = "merge",
             act'[a].from = act'[a].review.source, act'[a].to = act'[a].review.target
      PROVE  act'[a].from # act'[a].to
  BY <1>1, <1>3, DecideRow DEF RowsInv, ReviewRows, Shape
<1> QED
  BY <1>1, <1>2, <1>3, MergeFrom DEF RowsInv, MergesApart

LEMMA EntityRowsKept ==
  ASSUME RowsInv, Next
  PROVE  EntityRows'
<1>0. Shape /\ EntityRows /\ (\A e \in Entities : entities[e].support \in Nat)
  BY DEF RowsInv, GraphInv, EntityRows
<1>1. CASE UNCHANGED entities
  BY <1>0, <1>1 DEF EntityRows, Exists, Entities
<1>2. ASSUME NEW w \in Runs, Bump(w) PROVE EntityRows'
  BY <1>0, <1>2, BumpRows, MaxSupportNat DEF EntityRows, Exists, Entities
<1>3. ASSUME NEW w \in Runs, Create(w) PROVE EntityRows'
  <2>1. /\ Len(entities) \in Nat
        /\ Len(entities') = Len(entities) + 1
        /\ \A e \in Entities : entities'[e] = entities[e]
        /\ entities'[Len(entities) + 1].merged = NoEntity
        /\ entities'[Len(entities) + 1].support = 1
    BY <1>0, <1>3, CreateRows
  <2>2. \A e \in Entities' : e \in Entities \/ e = Len(entities) + 1
    BY <2>1 DEF Entities
  <2>3. \A e : Exists(e) => Exists(e)'
    BY <2>1 DEF Exists, Entities
  <2>4. 1 \in 1..MaxSupport
    BY MaxSupportNat
  <2> QED
    BY <1>0, <2>1, <2>2, <2>3, <2>4 DEF EntityRows
<1>4. ASSUME NEW a \in Actors, MoveBody(a) PROVE EntityRows'
  BY <1>0, <1>4, BodyRows DEF EntityRows, Exists, Entities
<1>5. ASSUME NEW a \in Actors, Tombstone(a) PROVE EntityRows'
  <2>1. act[a].from # act[a].to
    BY <1>0, <1>5, TombstoneRows DEF RowsInv, MergesApart, MergeOrLog, MergeSteps
  <2> QED
    BY <1>0, <1>5, <2>1, TombstoneRows DEF EntityRows, Exists, Entities
<1>6. ASSUME NEW u \in Reviewers, Delete(u) PROVE EntityRows'
  <2>1. Entities' = Entities
    BY <1>0, <1>6, DeleteRows DEF Entities
  <2>2. \A e \in Entities :
          /\ entities'[e].exists = (entities[e].exists /\ e \notin Gone(u))
          /\ entities'[e].support = entities[e].support
          /\ entities'[e].merged =
               IF e \in Gone(u) \/ entities[e].merged \in Gone(u)
                 THEN NoEntity ELSE entities[e].merged
    BY <1>0, <1>6, DeleteRows
  <2>3. \A e : Exists(e) /\ e \notin Gone(u) => Exists(e)'
    BY <2>1, <2>2 DEF Exists
  <2> QED
    BY <1>0, <2>1, <2>2, <2>3 DEF EntityRows
<1> QED
  BY <1>1, <1>2, <1>3, <1>4, <1>5, <1>6, EntitiesChange

\* All that changes what a run remembers.
LEMMA RunsApartKept ==
  ASSUME RowsInv, Next
  PROVE  RunsApart'
<1>0. /\ Shape /\ RunsApart /\ RunShape
      /\ Len(entities) \in Nat /\ Len(entities') \in Nat
      /\ Len(entities) <= Len(entities')
  BY EntitiesStay DEF RowsInv, GraphInv, Shape
<1>1. CASE UNCHANGED run
  BY <1>0, <1>1 DEF RunsApart, RunAt
<1>2. ASSUME NEW w \in Runs,
             NEW s \in RunSteps \ {"propose"}, NEW e \in 0..Len(entities'),
             NEW f \in 0..Len(entities'),
             \A v \in Runs : v # w => run'[v] = run[v],
             run'[w].step = s, run'[w].entity = e, run'[w].match = f
      PROVE  RunsApart'
  <2> SUFFICES ASSUME NEW v \in Runs
               PROVE  /\ run'[v].match \in 0..Len(entities')
                      /\ run'[v].entity \in 0..Len(entities')
                      /\ RunAt(v, "propose")' => run'[v].entity # run'[v].match
    BY DEF RunsApart
  <2>1. CASE v = w
    BY <1>2, <2>1 DEF RunAt
  <2>2. CASE v # w
    BY <1>0, <1>2, <2>2 DEF RunsApart, RunAt
  <2> QED
    BY <2>1, <2>2
<1>3. ASSUME NEW w \in Runs, Start(w) PROVE RunsApart'
  <2>1. PICK m \in Mentions \ done : \E key \in KeysOf[m] :
          run' = [run EXCEPT ![w] = [NoRun EXCEPT !.step = "exact", !.mention = m,
                                                  !.key = key]]
    BY <1>3 DEF Start
  <2>2. PICK key \in KeysOf[m] :
          run' = [run EXCEPT ![w] = [NoRun EXCEPT !.step = "exact", !.mention = m,
                                                  !.key = key]]
    BY <2>1
  <2>3. /\ \A v \in Runs : v # w => run'[v] = run[v]
        /\ run'[w].step = "exact" /\ run'[w].entity = 0 /\ run'[w].match = 0
    BY <1>0, <2>2 DEF RunShape, NoRun, NoEntity
  <2> QED
    BY <1>0, <1>2, <2>3 DEF RunSteps
<1>4. ASSUME NEW w \in Runs, NEW s \in RunSteps \ {"propose"}, RunGo(w, s) PROVE RunsApart'
  <2>1. /\ \A v \in Runs : v # w => run'[v] = run[v]
        /\ run'[w].step = s /\ run'[w].entity = run[w].entity
        /\ run'[w].match = run[w].match
    BY <1>0, <1>4 DEF RunShape, RunGo
  <2> QED
    BY <1>0, <1>2, <2>1 DEF RunsApart
<1>5. ASSUME NEW w \in Runs, Exact(w) PROVE RunsApart'
  <2>1. ASSUME NEW e \in SameKey(w),
               run' = [run EXCEPT ![w].step = "bump", ![w].entity = e]
        PROVE  RunsApart'
    <3>1. e \in 0..Len(entities')
      BY <1>0 DEF SameKey, Live, Entities
    <3>2. /\ \A v \in Runs : v # w => run'[v] = run[v]
          /\ run'[w].step = "bump" /\ run'[w].entity = e
          /\ run'[w].match = run[w].match
      BY <1>0, <2>1 DEF RunShape
    <3> QED
      BY <1>0, <1>2, <3>1, <3>2 DEF RunsApart, RunSteps
  <2> QED
    BY <1>4, <1>5, <2>1 DEF Exact, RunSteps
<1>6. ASSUME NEW w \in Runs, Recall(w) PROVE RunsApart'
  <2>0. \A e \in Live : e \in 0..Len(entities')
    BY <1>0 DEF Live, Entities
  <2>1. ASSUME NEW e \in Live, NEW judged \in BOOLEAN,
               run' = [run EXCEPT ![w].step = "bump", ![w].entity = e,
                                  ![w].match = IF judged THEN e ELSE NoEntity]
        PROVE  RunsApart'
    <3>1. /\ \A v \in Runs : v # w => run'[v] = run[v]
          /\ run'[w].step = "bump" /\ run'[w].entity = e
          /\ run'[w].match \in {e, 0}
      BY <1>0, <2>1 DEF RunShape, NoEntity
    <3> QED
      BY <1>0, <1>2, <2>0, <3>1 DEF RunSteps
  <2>2. ASSUME NEW e \in Live,
               run' = [run EXCEPT ![w].step = "create", ![w].match = e]
        PROVE  RunsApart'
    <3>1. /\ \A v \in Runs : v # w => run'[v] = run[v]
          /\ run'[w].step = "create" /\ run'[w].entity = run[w].entity
          /\ run'[w].match = e
      BY <1>0, <2>2 DEF RunShape
    <3> QED
      BY <1>0, <1>2, <2>0, <3>1 DEF RunsApart, RunSteps
  <2> QED
    BY <1>4, <1>6, <2>1, <2>2 DEF Recall, RunSteps
<1>7. ASSUME NEW w \in Runs, Bump(w) \/ LogMatch(w) \/ Propose(w) PROVE RunsApart'
  BY <1>4, <1>7 DEF Bump, LogMatch, Propose, RunSteps
<1>8. ASSUME NEW w \in Runs, Create(w) PROVE RunsApart'
  <2>1. /\ Len(entities') = Len(entities) + 1
        /\ \A v \in Runs : v # w => run'[v] = run[v]
        /\ run'[w].entity = Len(entities) + 1
        /\ run'[w].match = run[w].match
    BY <1>0, <1>8, CreateRows DEF Create, RunShape
  <2> SUFFICES ASSUME NEW v \in Runs
               PROVE  /\ run'[v].match \in 0..Len(entities')
                      /\ run'[v].entity \in 0..Len(entities')
                      /\ RunAt(v, "propose")' => run'[v].entity # run'[v].match
    BY DEF RunsApart
  <2>2. run[v].match \in 0..Len(entities) /\ run[v].entity \in 0..Len(entities)
    BY <1>0 DEF RunsApart
  <2>3. CASE v = w
    BY <1>0, <2>1, <2>2, <2>3
  <2>4. CASE v # w
    BY <1>0, <2>1, <2>2, <2>4 DEF RunsApart, RunAt
  <2> QED
    BY <2>3, <2>4
<1>9. ASSUME NEW w \in Runs, Write(w) \/ RunFails(w) PROVE RunsApart'
  <2>1. run' = [run EXCEPT ![w] = NoRun]
    BY <1>9 DEF Write, RunFails
  <2>2. /\ \A v \in Runs : v # w => run'[v] = run[v]
        /\ run'[w].step = "idle" /\ run'[w].entity = 0 /\ run'[w].match = 0
    BY <1>0, <2>1 DEF RunShape, NoRun, NoEntity
  <2> QED
    BY <1>0, <1>2, <2>2 DEF RunSteps
<1>10. \/ UNCHANGED run
       \/ \E w \in Runs : \/ Start(w) \/ Exact(w) \/ Recall(w) \/ Bump(w) \/ LogMatch(w)
                          \/ Create(w) \/ Propose(w) \/ Write(w) \/ RunFails(w)
  BY DEF Next, Load, Block, JudgeSame, JudgeApart, LogMerge, FlagStrays, Decide, Select,
         Delete, Resolve, Repoint, MoveBody, Tombstone, Fails, Dies, Abandon
<1> QED
  BY <1>1, <1>3, <1>5, <1>6, <1>7, <1>8, <1>9, <1>10

\* All that changes the reviews.
LEMMA ReviewsChange ==
  ASSUME Next
  PROVE  \/ UNCHANGED reviews
         \/ \E w \in Runs : LogMatch(w) \/ Propose(w)
         \/ JudgeApart \/ LogMerge \/ FlagStrays
         \/ \E u \in Reviewers : Delete(u) \/ Resolve(u)
BY DEF Next, Start, Exact, Recall, Bump, Create, Write, RunFails, Load, Block,
       JudgeSame, Decide, Select, Repoint, MoveBody, Tombstone, Fails, Dies, Abandon,
       tables

\* The row that a decision settles, and its new status.
LEMMA ResolveRow ==
  ASSUME Shape, IsABag(reviews), NEW u \in Reviewers, Resolve(u)
  PROVE  \E r \in RowsOf(u), s \in ReviewRow :
           /\ s.status = (IF act[u].accept THEN "accepted" ELSE "rejected")
           /\ s.kind = r.kind /\ s.source = r.source /\ s.target = r.target
           /\ s.ids = r.ids /\ s.by = r.by
           /\ s.status = r.status => s = r
           /\ Settled(r, s)
<1>1. PICK r \in RowsOf(u) :
        reviews' = (reviews (-) SetToBag({r})) (+)
          SetToBag({[r EXCEPT !.status =
                       IF act[u].accept THEN "accepted" ELSE "rejected"]})
  BY DEF Resolve
<1>2. r \in ReviewRow
  BY DEF RowsOf, Shape
<1> DEFINE st == IF act[u].accept THEN "accepted" ELSE "rejected"
           s == [r EXCEPT !.status = st]
<1>3. st \in {"accepted", "rejected"}
  OBVIOUS
<1> HIDE DEF st
<1>4. /\ s \in ReviewRow /\ s.status = st
      /\ s.kind = r.kind /\ s.source = r.source /\ s.target = r.target
      /\ s.ids = r.ids /\ s.by = r.by
      /\ s.status = r.status => s = r
  BY <1>2, <1>3 DEF ReviewRow
<1>5. reviews' = (reviews (-) SetToBag({r})) (+) SetToBag({s})
  BY <1>1 DEF st
<1>6. r \in DOMAIN reviews
  BY DEF RowsOf
<1> HIDE DEF s
<1>7. Settled(r, s)
  BY <1>5, <1>6, MoveRow
<1> QED
  BY <1>4, <1>7 DEF st

\* What every filed row is like.
FiledRow(r) ==
  /\ r \in ReviewRow
  /\ r.status # "none" /\ r.by # "nobody"
  /\ r.source = NoEntity \/ Exists(r.source)
  /\ r.target = NoEntity \/ Exists(r.target)
  /\ r.kind = "merge" => r.source # r.target /\ r.ids = {}
  /\ r.kind = "prune" => r.source = NoEntity /\ r.target = NoEntity /\ r.ids # {}

LEMMA FiledMerge ==
  ASSUME NEW e \in Nat, NEW f \in Nat, NEW status \in {"pending", "accepted", "rejected"},
         NEW by \in {"run", Pass}, e = NoEntity \/ Exists(e), Exists(f), e # f
  PROVE  FiledRow(Review(e, f, status, by))
BY ReviewShape DEF FiledRow, Review, Pass

LEMMA ExistsPositive == \A e : Exists(e) => e # NoEntity
BY DEF Exists, Entities, NoEntity

\* Everybody files such rows.
LEMMA RunFiles ==
  ASSUME RowsInv, NEW w \in Runs, LogMatch(w) \/ Propose(w)
  PROVE  \E r : /\ FiledRow(r) /\ File(r)
                /\ r.kind = "merge" /\ r.by = "run"
                /\ \/ r.source = NoEntity /\ r.status = "accepted"
                   \/ /\ RunAt(w, "propose") /\ r.status = "pending"
                      /\ r.source = run[w].entity /\ RunGo(w, "write")
<1>0. run[w].match \in Nat /\ run[w].entity \in Nat
  BY DEF RowsInv, GraphInv, Shape, RunShape
<1>1. CASE LogMatch(w)
  <2>1. FiledRow(Review(NoEntity, run[w].match, "accepted", "run"))
    BY <1>0, <1>1, FiledMerge, ExistsPositive DEF LogMatch, NoEntity
  <2> QED
    BY <1>1, <2>1 DEF LogMatch, Review
<1>2. CASE Propose(w)
  <2>1. FiledRow(Review(run[w].entity, run[w].match, "pending", "run"))
    BY <1>0, <1>2, FiledMerge DEF Propose, RowsInv, RunsApart
  <2> QED
    BY <1>2, <2>1 DEF Propose, Review
<1> QED
  BY <1>1, <1>2

LEMMA PassFiles ==
  ASSUME RowsInv, JudgeApart \/ LogMerge
  PROVE  \E r : /\ FiledRow(r) /\ File(r) /\ r.kind = "merge" /\ r.by = Pass
                /\ \/ /\ On(Pass, "judge") /\ UNCHANGED act
                      /\ \E p \in pairs :
                           /\ r.source = p[2] /\ r.target = p[1]
                           /\ pairs' = pairs \ {p}
                   \/ /\ On(Pass, "log") /\ LogMerge
                      /\ r.source = act[Pass].from /\ r.target = act[Pass].to
                      /\ r.status = "accepted" /\ UNCHANGED pairs
<1>1. CASE JudgeApart
  <2>1. PICK p \in pairs, status \in {"pending", "rejected"} :
          /\ On(Pass, "judge") /\ Exists(p[1]) /\ Exists(p[2])
          /\ File(Review(p[2], p[1], status, Pass))
          /\ pairs' = pairs \ {p} /\ UNCHANGED act
    BY <1>1 DEF JudgeApart
  <2>2. FiledRow(Review(p[2], p[1], status, Pass))
    BY <2>1, FiledMerge DEF RowsInv, GraphInv, Shape, PairsApart
  <2> QED
    BY <2>1, <2>2 DEF Review
<1>2. CASE LogMerge
  <2>1. act[Pass].from \in Nat /\ act[Pass].to \in Nat /\ act[Pass].from # act[Pass].to
    BY <1>2 DEF RowsInv, GraphInv, Shape, ActShape, ActRow, MergesApart, MergeOrLog,
                LogMerge, On, Actors
  <2>2. FiledRow(Review(act[Pass].from, act[Pass].to, "accepted", Pass))
    BY <1>2, <2>1, FiledMerge DEF LogMerge
  <2> QED
    BY <1>2, <2>2 DEF LogMerge, Review
<1> QED
  BY <1>1, <1>2

\* One review of strays nobody was asked about, or none.
LEMMA StraysFiled ==
  ASSUME RowsInv, FlagStrays
  PROVE  \/ UNCHANGED reviews
         \/ \E r : /\ FiledRow(r) /\ File(r)
                   /\ r.kind = "prune" /\ r.by = Pass
                   /\ r.ids \cap Asked = {}
<1>1. PICK old \in SUBSET (act[Pass].ids \ Asked) :
        IF old = {}
          THEN UNCHANGED reviews
          ELSE File([kind |-> "prune", source |-> NoEntity, target |-> NoEntity,
                     ids |-> old, status |-> "pending", by |-> Pass])
  BY DEF FlagStrays
<1>2. old \in SUBSET Nat
  BY DEF RowsInv, GraphInv, Shape, ActShape, ActRow, Actors
<1> DEFINE r == [kind |-> "prune", source |-> NoEntity, target |-> NoEntity,
                 ids |-> old, status |-> "pending", by |-> Pass]
<1>3. CASE old # {}
  <2>1. /\ FiledRow(r) /\ r.kind = "prune" /\ r.by = Pass
        /\ r.ids \cap Asked = {}
    BY <1>2, <1>3 DEF FiledRow, ReviewRow, NoEntity, Pass
  <2>2. File(r)
    BY <1>1, <1>3
  <2> HIDE DEF r
  <2> QED
    BY <2>1, <2>2
<1> QED
  BY <1>1, <1>3

LEMMA ReviewsStep ==
  ASSUME RowsInv, Next
  PROVE  \/ UNCHANGED reviews
         \/ \E r : FiledRow(r) /\ File(r)
         \/ \E u \in Reviewers : Delete(u) \/ Resolve(u)
<1>1. ASSUME NEW w \in Runs, LogMatch(w) \/ Propose(w)
      PROVE  \E r : FiledRow(r) /\ File(r)
  BY <1>1, RunFiles
<1>2. ASSUME JudgeApart \/ LogMerge
      PROVE  \E r : FiledRow(r) /\ File(r)
  BY <1>2, PassFiles
<1>3. ASSUME FlagStrays
      PROVE  UNCHANGED reviews \/ \E r : FiledRow(r) /\ File(r)
  BY <1>3, StraysFiled
<1> QED
  BY <1>1, <1>2, <1>3, ReviewsChange

LEMMA ReviewRowsKept ==
  ASSUME RowsInv, Next
  PROVE  ReviewRows'
<1>0. Shape /\ ReviewRows /\ IsABag(reviews)
  BY DEF RowsInv, GraphInv, ReviewRows
<1>1. CASE ~\E u \in Reviewers : Delete(u)
  <2>0. \A e : Exists(e) => Exists(e)'
    BY <1>0, <1>1, EntitiesStay
  <2>1. CASE UNCHANGED reviews
    BY <1>0, <2>0, <2>1 DEF ReviewRows
  <2>2. ASSUME NEW r, FiledRow(r), File(r) PROVE ReviewRows'
    <3>1. IsABag(reviews') /\ DOMAIN reviews' = DOMAIN reviews \cup {r}
      BY <1>0, <2>2, FileRow
    <3>2. \A q \in DOMAIN reviews' : q \in DOMAIN reviews \/ q = r
      BY <3>1
    <3> QED
      BY <1>0, <2>0, <2>2, <3>1, <3>2 DEF ReviewRows, FiledRow
  <2>3. ASSUME NEW u \in Reviewers, Resolve(u) PROVE ReviewRows'
    <3>1. PICK r \in RowsOf(u), s \in ReviewRow :
            /\ s.status = (IF act[u].accept THEN "accepted" ELSE "rejected")
            /\ s.kind = r.kind /\ s.source = r.source /\ s.target = r.target
            /\ s.ids = r.ids /\ s.by = r.by
            /\ Settled(r, s)
      BY <1>0, <2>3, ResolveRow
    <3>2. r \in DOMAIN reviews
      BY DEF RowsOf
    <3>3. IsABag(reviews') /\ DOMAIN reviews' \subseteq DOMAIN reviews \cup {s}
      BY <3>1 DEF Settled
    <3>4. s.status # "none"
      BY <3>1
    <3> QED
      BY <1>0, <2>0, <3>1, <3>2, <3>3, <3>4 DEF ReviewRows
  <2>4. \/ UNCHANGED reviews
        \/ \E r : FiledRow(r) /\ File(r)
        \/ \E u \in Reviewers : Resolve(u)
    BY <1>1, ReviewsStep
  <2> QED
    BY <2>1, <2>2, <2>3, <2>4
<1>2. ASSUME NEW u \in Reviewers, Delete(u) PROVE ReviewRows'
  <2>1. \A e : Exists(e) /\ e \notin Gone(u) => Exists(e)'
    BY <1>0, <1>2, DeleteRows DEF Exists, Entities
  <2>2. reviews' = [r \in {r \in DOMAIN reviews :
                            {r.source, r.target} \cap Gone(u) = {}} |-> reviews[r]]
    BY <1>2 DEF Delete, Gone
  <2>3. IsABag(reviews') /\ DOMAIN reviews' \subseteq DOMAIN reviews
    BY <1>0, <2>2 DEF IsABag
  <2>4. \A r \in DOMAIN reviews' : r.source \notin Gone(u) /\ r.target \notin Gone(u)
    BY <2>2
  <2> QED
    BY <1>0, <2>1, <2>3, <2>4 DEF ReviewRows
<1> QED
  BY <1>1, <1>2

-----------------------------------------------------------------------------
(* The pairs of a pass.                                                    *)

\* Links are finitely many, and so are the edges of an entity.
LEMMA EdgesNat == \A e : Edges(e) \in Nat /\ (Edges(e) = 0 => \A l \in Facts : at[l] # e)
<1> TAKE e
<1> DEFINE S == {l \in Facts : at[l] = e}
<1>1. IsFiniteSet(S)
  <2>1. S \in SUBSET Links /\ IsFiniteSet(Links)
    BY GraphAssumption DEF GraphAssumption, Facts
  <2> HIDE DEF S
  <2> QED
    BY <2>1, FS_Subset
<1>2. Cardinality(S) \in Nat /\ (Cardinality(S) = 0 <=> S = {})
  <2> HIDE DEF S
  <2> QED
    BY <1>1, FS_CardinalityType, FS_EmptySet
<1> QED
  BY <1>2 DEF Edges

\* pickWinner picks one of the two.
LEMMA OneWinner ==
  ASSUME EntityRows, NEW x \in Entities, NEW y \in Entities, Better(x, y)
  PROVE  x # y /\ ~Better(y, x)
<1>1. Edges(x) \in Nat /\ Edges(y) \in Nat
  BY EdgesNat
<1>2. entities[x].support \in Nat /\ entities[y].support \in Nat
  BY DEF EntityRows
<1>3. x \in Nat /\ y \in Nat
  BY DEF Entities
<1> QED
  BY <1>1, <1>2, <1>3 DEF Better

LEMMA PairsChange ==
  ASSUME Next
  PROVE  \/ pairs' \subseteq pairs
         \/ Load
BY DEF Next, Start, Exact, Recall, Bump, LogMatch, Create, Propose, Write, RunFails,
       Block, JudgeSame, JudgeApart, LogMerge, FlagStrays, Decide, Select, Delete,
       Resolve, Repoint, MoveBody, Tombstone, Fails, Dies, Abandon, tables, history

LEMMA PairsApartKept ==
  ASSUME RowsInv, Next
  PROVE  PairsApart'
<1>0. Shape /\ PairsApart /\ EntityRows
  BY DEF RowsInv, GraphInv
<1>1. Entities \subseteq Entities'
  BY <1>0, EntitiesStay DEF Entities
<1>2. CASE pairs' \subseteq pairs
  BY <1>0, <1>1, <1>2 DEF PairsApart
<1>3. CASE Load
  <2>1. pairs' = {p \in Live \X Live : Better(p[1], p[2])}
    BY <1>3 DEF Load
  <2>2. ASSUME NEW p \in pairs'
        PROVE  p \in Entities \X Entities /\ p[1] # p[2]
    <3>1. p \in Entities \X Entities /\ Better(p[1], p[2])
      BY <2>1 DEF Live
    <3> QED
      BY <1>0, <3>1, OneWinner
  <2> QED
    BY <1>1, <2>2 DEF PairsApart
<1> QED
  BY <1>2, <1>3, PairsChange

LEMMA RowsStep == RowsInv /\ [Next]_vars => RowsInv'
<1>1. ASSUME RowsInv, UNCHANGED vars PROVE RowsInv'
  <2>1. GraphInv'
    BY <1>1, GraphStep DEF RowsInv
  <2> QED
    BY <1>1, <2>1 DEF RowsInv, vars, EntityRows, ReviewRows, RunsApart, MergesApart,
                      PairsApart, Exists, Entities, RunAt
<1>2. ASSUME RowsInv, Next PROVE RowsInv'
  BY <1>2, GraphStep, EntityRowsKept, ReviewRowsKept, RunsApartKept, MergesApartKept,
     PairsApartKept DEF RowsInv
<1> QED
  BY <1>1, <1>2

LEMMA InitRows == Init => RowsInv
<1> SUFFICES ASSUME Init PROVE RowsInv
  OBVIOUS
<1>1. GraphInv
  BY InitGraph
<1>2. Len(SeedKeys) \in Nat /\ DOMAIN SeedKeys = 1..Len(SeedKeys)
  BY GraphAssumption DEF GraphAssumption
<1>3. EntityRows
  BY <1>2, MaxSupportNat DEF Init, EntityRows, Entities
<1>4. ReviewRows
  BY DEF Init, ReviewRows, EmptyBag, SetToBag, IsABag
<1>5. RunsApart
  BY <1>2 DEF Init, RunsApart, RunAt, NoRun, NoEntity
<1>6. MergesApart
  BY DEF Init, MergesApart, MergeOrLog, MergeSteps, Classes, Idle
<1>7. PairsApart
  BY DEF Init, PairsApart
<1> QED
  BY <1>1, <1>3, <1>4, <1>5, <1>6, <1>7 DEF RowsInv
-----------------------------------------------------------------------------
(* No more entities than the seed and the mentions: a mention makes one.   *)

Before == {"exact", "recall", "create"}

\* The mentions that may yet make an entity.
Waiting == {m \in done : \E w \in Runs : run[w].step \in Before /\ run[w].mention = m}

CountInv ==
  /\ done \subseteq Mentions
  /\ \A w \in Runs : run[w].step \in Before => run[w].mention \in done
  /\ \A v, w \in Runs :
       run[v].step \in Before /\ run[w].step \in Before
         /\ run[v].mention = run[w].mention => v = w
  /\ Len(entities) + Cardinality(Waiting) <= Len(SeedKeys) + Cardinality(done)

Limits ==
  passes \in 0..MaxPasses /\ decisions \in 0..MaxDecisions /\ deaths \in 0..MaxDeaths

LEMMA MentionsFinite ==
  /\ IsFiniteSet(Mentions)
  /\ \A S \in SUBSET Mentions : IsFiniteSet(S) /\ Cardinality(S) \in Nat
  /\ \A S, T \in SUBSET Mentions : S \subseteq T => Cardinality(S) <= Cardinality(T)
<1>1. Mentions \in SUBSET Links /\ IsFiniteSet(Links)
  BY GraphAssumption DEF GraphAssumption, Facts
<1>2. IsFiniteSet(Mentions)
  BY <1>1, FS_Subset
<1>3. \A S \in SUBSET Mentions : IsFiniteSet(S)
  BY <1>2, FS_Subset
<1>4. \A S \in SUBSET Mentions : Cardinality(S) \in Nat
  BY <1>3, FS_CardinalityType
<1>5. ASSUME NEW S \in SUBSET Mentions, NEW T \in SUBSET Mentions, S \subseteq T
      PROVE  Cardinality(S) <= Cardinality(T)
  <2>1. IsFiniteSet(T) /\ S \in SUBSET T
    BY <1>3, <1>5
  <2> QED
    BY <2>1, FS_Subset
<1> QED
  BY <1>2, <1>3, <1>4, <1>5

LEMMA RunChange ==
  ASSUME Next
  PROVE  \/ UNCHANGED <<run, done>>
         \/ \E w \in Runs : \/ Start(w) \/ Exact(w) \/ Recall(w) \/ Bump(w) \/ LogMatch(w)
                            \/ Create(w) \/ Propose(w) \/ Write(w) \/ RunFails(w)
BY DEF Next, Load, Block, JudgeSame, JudgeApart, LogMerge, FlagStrays, Decide, Select,
       Delete, Resolve, Repoint, MoveBody, Tombstone, Fails, Dies, Abandon

\* A run goes on with its own mention.
LEMMA RunGoesOn ==
  ASSUME Shape, NEW w \in Runs,
         Exact(w) \/ Recall(w) \/ Bump(w) \/ LogMatch(w) \/ Create(w) \/ Propose(w)
           \/ Write(w) \/ RunFails(w)
  PROVE  /\ done' = done
         /\ \A v \in Runs : v # w => run'[v] = run[v]
         /\ run'[w].step \in Before =>
              run[w].step \in Before /\ run'[w].mention = run[w].mention
         /\ Create(w) => run[w].step \in Before /\ run'[w].step \notin Before
<1>0. RunShape
  BY DEF Shape
<1>1. CASE Exact(w)
  BY <1>0, <1>1 DEF RunShape, Exact, RunAt, RunGo, Before, Create
<1>2. CASE Recall(w)
  BY <1>0, <1>2 DEF RunShape, Recall, RunAt, RunGo, Before, Create
<1>3. CASE Bump(w) \/ LogMatch(w) \/ Propose(w)
  BY <1>0, <1>3 DEF RunShape, Bump, LogMatch, Propose, RunAt, RunGo, Before, Create
<1>4. CASE Create(w)
  BY <1>0, <1>4 DEF RunShape, RunAt, Before, Create
<1>5. CASE Write(w) \/ RunFails(w)
  <2>1. run' = [run EXCEPT ![w] = NoRun] /\ done' = done
    BY <1>5 DEF Write, RunFails
  <2>2. Create(w) => run'[w].step \notin Before /\ run[w].step \in Before
    BY <1>0, <1>4 DEF RunShape, RunAt, Before, Create
  <2> QED
    BY <1>0, <2>1, <2>2 DEF RunShape, NoRun, Before
<1> QED
  BY <1>1, <1>2, <1>3, <1>4, <1>5

LEMMA CountKept ==
  ASSUME Shape, CountInv, Next
  PROVE  CountInv'
<1>0. /\ Len(entities) \in Nat /\ Len(SeedKeys) \in Nat
      /\ done \subseteq Mentions /\ Waiting \subseteq done
      /\ Cardinality(Waiting) \in Nat /\ Cardinality(done) \in Nat
      /\ RunShape
  BY GraphAssumption, MentionsFinite DEF GraphAssumption, CountInv, Shape, Waiting
<1>1. ASSUME done' = done, Len(entities') = Len(entities),
             \A v \in Runs : run'[v].step \in Before =>
               run[v].step \in Before /\ run'[v].mention = run[v].mention
      PROVE  CountInv'
  <2>1. Waiting' \subseteq Waiting
    BY <1>1 DEF Waiting
  <2>2. Cardinality(Waiting') <= Cardinality(Waiting) /\ Cardinality(Waiting') \in Nat
    BY <1>0, <2>1, MentionsFinite
  <2>3. Len(entities') + Cardinality(Waiting') <= Len(SeedKeys) + Cardinality(done')
    BY <1>0, <1>1, <2>2 DEF CountInv
  <2> QED
    BY <1>1, <2>3 DEF CountInv
<1>2. ASSUME NEW w \in Runs, Start(w) PROVE CountInv'
  <2>1. PICK m \in Mentions \ done : \E key \in KeysOf[m] :
          /\ run' = [run EXCEPT ![w] = [NoRun EXCEPT !.step = "exact", !.mention = m,
                                                     !.key = key]]
          /\ done' = done \cup {m} /\ UNCHANGED entities /\ RunAt(w, "idle")
    BY <1>2 DEF Start, tables
  <2>2. /\ \A v \in Runs : v # w => run'[v] = run[v]
        /\ run'[w].step = "exact" /\ run'[w].mention = m
    BY <1>0, <2>1 DEF RunShape, NoRun
  <2>3. Waiting' = Waiting \cup {m}
    BY <2>1, <2>2 DEF Waiting, Before, RunAt
  <2>4. /\ Cardinality(Waiting') = Cardinality(Waiting) + 1
        /\ Cardinality(done') = Cardinality(done) + 1
    <3>1. IsFiniteSet(Waiting) /\ IsFiniteSet(done)
      BY <1>0, MentionsFinite
    <3>2. m \notin Waiting /\ m \notin done
      BY <1>0, <2>1
    <3>3. Cardinality(Waiting \cup {m}) = Cardinality(Waiting) + 1
      BY <3>1, <3>2, FS_AddElement
    <3>4. Cardinality(done \cup {m}) = Cardinality(done) + 1
      BY <3>1, <3>2, FS_AddElement
    <3> QED
      BY <2>1, <2>3, <3>3, <3>4
  <2>5. Len(entities') + Cardinality(Waiting') <= Len(SeedKeys) + Cardinality(done')
    BY <1>0, <2>1, <2>4 DEF CountInv
  <2>6. \A v \in Runs : v # w /\ run'[v].step \in Before => run'[v].mention # m
    BY <2>1, <2>2 DEF CountInv
  <2>7. done' \subseteq Mentions
    BY <1>0, <2>1
  <2>8. \A v \in Runs : run'[v].step \in Before => run'[v].mention \in done'
    BY <2>1, <2>2 DEF CountInv
  <2>9. \A u, v \in Runs :
          run'[u].step \in Before /\ run'[v].step \in Before
            /\ run'[u].mention = run'[v].mention => u = v
    BY <2>2, <2>6 DEF CountInv
  <2> QED
    BY <2>5, <2>7, <2>8, <2>9 DEF CountInv
<1>3. ASSUME NEW w \in Runs, Create(w) PROVE CountInv'
  <2>1. /\ done' = done
        /\ \A v \in Runs : v # w => run'[v] = run[v]
        /\ run[w].step \in Before /\ run'[w].step \notin Before
    BY <1>3, RunGoesOn
  <2>2. Len(entities') = Len(entities) + 1
    BY <1>3, CreateRows
  <2> DEFINE m == run[w].mention
  <2>3. m \in Waiting
    BY <2>1 DEF CountInv, Waiting
  <2>4. Waiting' = Waiting \ {m}
    BY <2>1 DEF CountInv, Waiting
  <2> HIDE DEF m
  <2>5. Cardinality(Waiting') = Cardinality(Waiting) - 1
    <3>1. IsFiniteSet(Waiting)
      BY <1>0, MentionsFinite
    <3>2. Cardinality(Waiting \ {m}) = Cardinality(Waiting) - 1
      BY <2>3, <3>1, FS_RemoveElement
    <3> QED
      BY <2>4, <3>2
  <2>6. Len(entities') + Cardinality(Waiting') <= Len(SeedKeys) + Cardinality(done')
    BY <1>0, <2>1, <2>2, <2>5 DEF CountInv
  <2> QED
    BY <2>1, <2>6 DEF CountInv
<1>4. ASSUME NEW w \in Runs, ~Create(w), UNCHANGED Len(entities),
             Exact(w) \/ Recall(w) \/ Bump(w) \/ LogMatch(w) \/ Propose(w)
               \/ Write(w) \/ RunFails(w)
      PROVE  CountInv'
  BY <1>1, <1>4, RunGoesOn
<1>5. UNCHANGED Len(entities) \/ \E w \in Runs : Create(w)
  <2>1. ASSUME NEW w \in Runs, Bump(w) PROVE UNCHANGED Len(entities)
    BY <2>1, BumpRows
  <2>2. ASSUME NEW a \in Actors, MoveBody(a) \/ Tombstone(a) PROVE UNCHANGED Len(entities)
    BY <2>2, BodyRows, TombstoneRows
  <2>3. ASSUME NEW u \in Reviewers, Delete(u) PROVE UNCHANGED Len(entities)
    BY <2>3, DeleteRows
  <2> QED
    BY <2>1, <2>2, <2>3, EntitiesChange
<1>6. CASE \E w \in Runs : Create(w)
  BY <1>3, <1>6
<1>7. CASE ~\E w \in Runs : Create(w)
  <2>1. UNCHANGED Len(entities)
    BY <1>5, <1>7
  <2>2. CASE UNCHANGED <<run, done>>
    BY <1>1, <2>1, <2>2
  <2> QED
    BY <1>2, <1>4, <1>7, <2>1, <2>2, RunChange
<1> QED
  BY <1>6, <1>7

LEMMA LimitsKept ==
  ASSUME Limits, Next
  PROVE  Limits'
<1>1. {MaxPasses, MaxDecisions, MaxDeaths} \subseteq Nat
  BY GraphAssumption DEF GraphAssumption
<1>2. CASE Load
  BY <1>1, <1>2 DEF Limits, Load
<1>3. ASSUME NEW u \in Reviewers, Decide(u) PROVE Limits'
  BY <1>1, <1>3 DEF Limits, Decide
<1>4. ASSUME NEW a \in Actors, Dies(a) PROVE Limits'
  BY <1>1, <1>4 DEF Limits, Dies, Abandon
<1>5. \/ UNCHANGED counters
      \/ Load \/ (\E u \in Reviewers : Decide(u)) \/ (\E a \in Actors : Dies(a))
  BY DEF Next, Start, Exact, Recall, Bump, LogMatch, Create, Propose, Write, RunFails,
         Block, JudgeSame, JudgeApart, LogMerge, FlagStrays, Select, Delete, Resolve,
         Repoint, MoveBody, Tombstone, Fails, Abandon, counters
<1> QED
  BY <1>2, <1>3, <1>4, <1>5 DEF counters, Limits

TypeInv == RowsInv /\ CountInv /\ Limits

LEMMA TypeInvImpliesTypeOK == TypeInv => TypeOK
<1> SUFFICES ASSUME TypeInv PROVE TypeOK
  OBVIOUS
<1>0. /\ Shape /\ NoLinkDangles /\ EntityRows /\ ReviewRows /\ PairsApart /\ Limits
      /\ \A e \in Entities : entities[e] \in EntityRow
  BY DEF TypeInv, RowsInv, GraphInv, Shape, Entities
<1>1. /\ Len(entities) \in Nat /\ Len(SeedKeys) \in Nat
      /\ Cardinality(Waiting) \in Nat /\ Cardinality(done) \in Nat
      /\ Cardinality(Mentions) \in Nat /\ Cardinality(done) <= Cardinality(Mentions)
      /\ Len(entities) + Cardinality(Waiting) <= Len(SeedKeys) + Cardinality(done)
  <2>1. /\ done \in SUBSET Mentions /\ Waiting \in SUBSET Mentions
        /\ Mentions \in SUBSET Mentions
    BY DEF TypeInv, CountInv, Waiting
  <2> QED
    BY <1>0, <2>1, MentionsFinite, GraphAssumption
       DEF GraphAssumption, TypeInv, CountInv, Shape
<1>2. Len(entities) <= MaxEntities
  BY <1>1 DEF MaxEntities
<1>3. \A e \in Entities :
        /\ entities[e].exists \in BOOLEAN
        /\ entities[e].support \in 1..MaxSupport
        /\ entities[e].body \in BOOLEAN
        /\ \/ entities[e].merged = NoEntity
           \/ Exists(e) /\ entities[e].merged # e /\ Exists(entities[e].merged)
  BY <1>0 DEF EntityRow, EntityRows
<1>4. at \in [Links -> {e \in Entities : Exists(e)} \cup {NoEntity}]
  BY <1>0 DEF Shape, NoLinkDangles, Exists
<1>5. /\ IsABag(reviews)
      /\ \A r \in DOMAIN reviews :
           /\ r.kind \in {"merge", "prune"}
           /\ r.status \in {"pending", "accepted", "rejected"}
           /\ \A e \in {r.source, r.target} : e = NoEntity \/ Exists(e)
  BY <1>0 DEF Shape, ReviewRow, ReviewRows
<1>6. (\A w \in Runs : run[w].step \in RunSteps) /\ (\A a \in Actors : act[a].step \in ActSteps)
  BY <1>0 DEF Shape, RunShape, ActShape, ActRow
<1>7. pairs \subseteq Ids \X Ids
  <2>1. MaxEntities \in Nat
    BY <1>1 DEF MaxEntities
  <2>2. Entities \subseteq Ids
    BY <1>1, <1>2, <2>1 DEF Entities, Ids
  <2> QED
    BY <1>0, <2>2 DEF PairsApart
<1> QED
  BY <1>0, <1>2, <1>3, <1>4, <1>5, <1>6, <1>7 DEF TypeOK, Limits

LEMMA InitTypes == Init => TypeInv
<1> SUFFICES ASSUME Init PROVE TypeInv
  OBVIOUS
<1>1. CountInv
  <2>1. Waiting = {} /\ done = {}
    BY DEF Init, Waiting
  <2>2. Cardinality({}) = 0
    BY FS_EmptySet
  <2>3. Len(entities) = Len(SeedKeys) /\ Len(SeedKeys) \in Nat
    BY GraphAssumption DEF GraphAssumption, Init
  <2>4. \A w \in Runs : run[w].step \notin Before
    BY DEF Init, NoRun, Before
  <2> QED
    BY <2>1, <2>2, <2>3, <2>4 DEF CountInv
<1>2. Limits
  BY GraphAssumption DEF GraphAssumption, Init, Limits
<1> QED
  BY <1>1, <1>2, InitRows DEF TypeInv

LEMMA TypeStep == TypeInv /\ [Next]_vars => TypeInv'
<1> SUFFICES ASSUME TypeInv, [Next]_vars PROVE TypeInv'
  OBVIOUS
<1>1. RowsInv'
  BY RowsStep DEF TypeInv
<1>2. CASE UNCHANGED vars
  BY <1>1, <1>2 DEF vars, TypeInv, CountInv, Waiting, Limits
<1>3. CASE Next
  BY <1>1, <1>3, CountKept, LimitsKept DEF TypeInv, RowsInv, GraphInv
<1> QED
  BY <1>1, <1>2, <1>3

\* The type invariant, for any graph: no reference dangles, nothing is merged
\* with itself, and a mention makes at most one entity.
THEOREM GraphTypesHold == Spec => []TypeOK
<1>1. Init => TypeInv
  BY InitTypes
<1>2. TypeInv /\ [Next]_vars => TypeInv'
  BY TypeStep
<1>3. TypeInv => TypeOK
  BY TypeInvImpliesTypeOK
<1> QED
  BY <1>1, <1>2, <1>3, PTL DEF Spec

-----------------------------------------------------------------------------
(* Nobody is asked twice.                                                  *)

\* A pass has filed a review of the two.
PassReviewed(x, y) ==
  \E r \in DOMAIN reviews :
    r.by = Pass /\ r.kind = "merge" /\ {r.source, r.target} = {x, y}

AskInv ==
  /\ AskedOnce
  /\ \A p, q \in pairs : {p[1], p[2]} = {q[1], q[2]} => p = q
  /\ act[Pass].step \in MergeOrLog \cup {"judge"} =>
       \A p \in pairs : ~PassReviewed(p[1], p[2])
  /\ act[Pass].step \in MergeOrLog =>
       /\ ~PassReviewed(act[Pass].from, act[Pass].to)
       /\ \A p \in pairs : {p[1], p[2]} # {act[Pass].from, act[Pass].to}

\* What a row that a pass files must be, not to ask again.
Unasked(r) ==
  \/ r.by = "run"
  \/ r.kind = "merge" /\ ~PassReviewed(r.source, r.target)
  \/ r.kind = "prune" /\ r.ids \cap Asked = {}

LEMMA AskedFile ==
  ASSUME RowsInv, AskedOnce, NEW r, FiledRow(r), File(r), Unasked(r)
  PROVE  AskedOnce'
<1>0. ReviewRows /\ Shape
  BY DEF RowsInv, GraphInv
<1>1. /\ DOMAIN reviews' = DOMAIN reviews \cup {r}
      /\ \A q \in DOMAIN reviews \ {r} : reviews'[q] = reviews[q]
      /\ r \notin DOMAIN reviews => reviews'[r] = 1
  BY <1>0, FileRow DEF ReviewRows
<1>2. CASE r.by = "run"
  BY <1>1, <1>2 DEF AskedOnce, Pass
<1>3. CASE r.by # "run"
  <2>1. ASSUME NEW q \in DOMAIN reviews, q.by = Pass
        PROVE  /\ q.ids \cap r.ids = {}
               /\ \/ {q.source, q.target} # {r.source, r.target}
                  \/ r.kind = "prune" /\ q.kind = "prune"
               /\ q # r
    <3>1. /\ q.kind \in {"merge", "prune"} /\ r.kind \in {"merge", "prune"}
          /\ q.kind = "merge" => q.source # q.target /\ q.ids = {}
          /\ q.kind = "prune" => q.source = NoEntity /\ q.target = NoEntity /\ q.ids # {}
          /\ r.kind = "merge" => r.source # r.target /\ r.ids = {}
          /\ r.kind = "prune" => r.source = NoEntity /\ r.target = NoEntity /\ r.ids # {}
      BY <1>0 DEF ReviewRows, FiledRow, Shape, ReviewRow
    <3>2. CASE r.kind = "merge"
      <4>1. q.kind = "merge" => {q.source, q.target} # {r.source, r.target}
        BY <1>3, <2>1, <3>2 DEF Unasked, PassReviewed
      <4>2. q.kind = "prune" => {q.source, q.target} # {r.source, r.target}
        BY <3>1, <3>2
      <4> QED
        BY <3>1, <3>2, <4>1, <4>2
    <3>3. CASE r.kind = "prune"
      <4>1. q.ids \cap r.ids = {}
        BY <1>3, <3>3 DEF Unasked, Asked
      <4>2. q.kind = "merge" => {q.source, q.target} # {r.source, r.target}
        BY <3>1, <3>3
      <4> QED
        BY <3>1, <3>3, <4>1, <4>2
    <3> QED
      BY <3>1, <3>2, <3>3
  <2>2. r.by = Pass => r \notin DOMAIN reviews
    BY <2>1
  <2>3. r.by = Pass
    BY <1>3 DEF FiledRow, ReviewRow
  <2>4. \A q \in DOMAIN reviews' : q \in DOMAIN reviews \/ q = r
    BY <1>1
  <2>5. \A q \in DOMAIN reviews : q.by = Pass => reviews'[q] = 1
    BY <1>1, <2>1 DEF AskedOnce
  <2>6. \A q, t \in DOMAIN reviews' : q.by = Pass /\ t.by = Pass =>
          q = t \/ (q.ids \cap t.ids = {} /\
                    ({q.source, q.target} # {t.source, t.target} \/ t.kind = "prune"))
    <3> SUFFICES ASSUME NEW q \in DOMAIN reviews', NEW t \in DOMAIN reviews',
                        q.by = Pass, t.by = Pass, q # t
                 PROVE  q.ids \cap t.ids = {} /\
                        ({q.source, q.target} # {t.source, t.target} \/ t.kind = "prune")
      OBVIOUS
    <3>1. CASE q = r
      BY <2>1, <2>4, <3>1
    <3>2. CASE t = r
      BY <2>1, <2>4, <3>2
    <3>3. CASE q # r /\ t # r
      BY <2>4, <3>3 DEF AskedOnce
    <3> QED
      BY <3>1, <3>2, <3>3
  <2> QED
    BY <1>1, <2>2, <2>3, <2>4, <2>5, <2>6 DEF AskedOnce
<1> QED
  BY <1>2, <1>3

\* A status changes; who was asked what does not.
LEMMA AskedResolve ==
  ASSUME RowsInv, AskedOnce, NEW u \in Reviewers, Resolve(u)
  PROVE  AskedOnce' /\ \A x, y : PassReviewed(x, y)' => PassReviewed(x, y)
<1>0. ReviewRows /\ Shape /\ IsABag(reviews)
  BY DEF RowsInv, GraphInv, ReviewRows
<1>1. PICK r \in RowsOf(u), s \in ReviewRow :
        /\ s.kind = r.kind /\ s.source = r.source /\ s.target = r.target
        /\ s.ids = r.ids /\ s.by = r.by
        /\ Settled(r, s)
  BY <1>0, ResolveRow
<1>2. r \in DOMAIN reviews
  BY DEF RowsOf
<1>3. /\ DOMAIN reviews' \subseteq DOMAIN reviews \cup {s}
      /\ \A q \in DOMAIN reviews \ {r, s} : reviews'[q] = reviews[q]
      /\ reviews[r] = 1 /\ s # r => r \notin DOMAIN reviews'
      /\ reviews[r] = 1 /\ (s = r \/ s \notin DOMAIN reviews) => reviews'[s] = 1
  BY <1>1 DEF Settled
<1>4. \A x, y : PassReviewed(x, y)' => PassReviewed(x, y)
  BY <1>1, <1>2, <1>3 DEF PassReviewed
<1>5. CASE r.by # Pass
  BY <1>1, <1>3, <1>4, <1>5 DEF AskedOnce
<1>6. CASE r.by = Pass
  <2>1. reviews[r] = 1
    BY <1>2, <1>6 DEF AskedOnce
  <2>2. s = r \/ s \notin DOMAIN reviews
    <3> SUFFICES ASSUME s \in DOMAIN reviews, s # r PROVE FALSE
      OBVIOUS
    <3>1. r.ids \cap s.ids = {} /\ ({r.source, r.target} # {s.source, s.target}
                                    \/ s.kind = "prune")
      BY <1>1, <1>2, <1>6 DEF AskedOnce
    <3>2. s.kind = "prune" /\ s.ids = {}
      BY <1>1, <3>1
    <3> QED
      BY <1>0, <3>2 DEF ReviewRows
  <2>3. \A q \in DOMAIN reviews' : q = s \/ q \in DOMAIN reviews \ {r, s}
    BY <1>3, <2>1
  <2>4. \A q \in DOMAIN reviews' : q.by = Pass => reviews'[q] = 1
    BY <1>3, <2>1, <2>2, <2>3 DEF AskedOnce
  <2>5. \A q, t \in DOMAIN reviews' : q.by = Pass /\ t.by = Pass =>
          q = t \/ (q.ids \cap t.ids = {} /\
                    ({q.source, q.target} # {t.source, t.target} \/ t.kind = "prune"))
    <3> SUFFICES ASSUME NEW q \in DOMAIN reviews', NEW t \in DOMAIN reviews',
                        q.by = Pass, t.by = Pass, q # t
                 PROVE  q.ids \cap t.ids = {} /\
                        ({q.source, q.target} # {t.source, t.target} \/ t.kind = "prune")
      OBVIOUS
    <3>1. CASE q = s
      <4>1. t \in DOMAIN reviews /\ t # r
        BY <2>3, <3>1
      <4>2. r.ids \cap t.ids = {} /\
            ({r.source, r.target} # {t.source, t.target} \/ t.kind = "prune")
        BY <1>2, <1>6, <4>1 DEF AskedOnce
      <4> QED
        BY <1>1, <3>1, <4>2
    <3>2. CASE t = s
      <4>1. q \in DOMAIN reviews /\ q # r
        BY <2>3, <3>2
      <4>2. q.ids \cap r.ids = {} /\
            ({q.source, q.target} # {r.source, r.target} \/ r.kind = "prune")
        BY <1>2, <1>6, <4>1 DEF AskedOnce
      <4> QED
        BY <1>1, <3>2, <4>2
    <3>3. CASE q # s /\ t # s
      BY <2>3, <3>3 DEF AskedOnce
    <3> QED
      BY <3>1, <3>2, <3>3
  <2> QED
    BY <1>4, <2>4, <2>5 DEF AskedOnce
<1> QED
  BY <1>4, <1>5, <1>6

LEMMA AskedDelete ==
  ASSUME AskedOnce, NEW u \in Reviewers, Delete(u)
  PROVE  AskedOnce' /\ \A x, y : PassReviewed(x, y)' => PassReviewed(x, y)
<1>1. /\ DOMAIN reviews' \subseteq DOMAIN reviews
      /\ \A r \in DOMAIN reviews' : reviews'[r] = reviews[r]
  BY DEF Delete
<1> QED
  BY <1>1 DEF AskedOnce, PassReviewed

\* The three ways to file.
LEMMA FilesUnasked ==
  ASSUME RowsInv, AskInv, Next, ~UNCHANGED reviews,
         ~\E u \in Reviewers : Delete(u) \/ Resolve(u)
  PROVE  \E r : /\ FiledRow(r) /\ File(r) /\ Unasked(r)
                /\ \/ r.by = "run"
                   \/ r.kind = "prune"
                   \/ /\ On(Pass, "judge") /\ UNCHANGED act
                      /\ \E p \in pairs :
                           r.source = p[2] /\ r.target = p[1] /\ pairs' = pairs \ {p}
                   \/ /\ On(Pass, "log") /\ LogMerge /\ UNCHANGED pairs
                      /\ r.source = act[Pass].from /\ r.target = act[Pass].to
<1>1. ASSUME NEW w \in Runs, LogMatch(w) \/ Propose(w)
      PROVE  \E r : FiledRow(r) /\ File(r) /\ r.by = "run"
  BY <1>1, RunFiles
<1>2. CASE \E w \in Runs : LogMatch(w) \/ Propose(w)
  BY <1>1, <1>2 DEF Unasked
<1>3. CASE JudgeApart \/ LogMerge
  <2>1. PICK r : /\ FiledRow(r) /\ File(r) /\ r.kind = "merge" /\ r.by = Pass
                 /\ \/ /\ On(Pass, "judge") /\ UNCHANGED act
                       /\ \E p \in pairs :
                            /\ r.source = p[2] /\ r.target = p[1]
                            /\ pairs' = pairs \ {p}
                    \/ /\ On(Pass, "log") /\ LogMerge
                       /\ r.source = act[Pass].from /\ r.target = act[Pass].to
                       /\ UNCHANGED pairs
    BY <1>3, PassFiles
  <2>2. CASE On(Pass, "judge")
    <3>1. \A p \in pairs : ~PassReviewed(p[1], p[2])
      BY <2>2 DEF AskInv, On
    <3>2. ASSUME NEW p \in pairs, r.source = p[2], r.target = p[1]
          PROVE  ~PassReviewed(r.source, r.target)
      <4>1. {p[1], p[2]} = {p[2], p[1]}
        OBVIOUS
      <4> QED
        BY <3>1, <3>2, <4>1 DEF PassReviewed
    <3>3. ~On(Pass, "log")
      BY <2>2 DEF On
    <3> QED
      BY <2>1, <3>2, <3>3 DEF Unasked
  <2>3. CASE On(Pass, "log") /\ ~On(Pass, "judge")
    <3>1. ~PassReviewed(act[Pass].from, act[Pass].to)
      BY <2>3 DEF AskInv, On, MergeOrLog
    <3> QED
      BY <2>1, <2>3, <3>1 DEF Unasked
  <2> QED
    BY <2>1, <2>2, <2>3
<1>4. CASE FlagStrays
  BY <1>4, StraysFiled DEF Unasked
<1> QED
  BY <1>2, <1>3, <1>4, ReviewsChange

LEMMA AskedKept ==
  ASSUME RowsInv, AskInv, Next
  PROVE  /\ AskedOnce'
         /\ \A x, y : PassReviewed(x, y)' =>
              \/ PassReviewed(x, y)
              \/ /\ On(Pass, "judge") /\ UNCHANGED act
                 /\ \E p \in pairs : {x, y} = {p[1], p[2]} /\ pairs' = pairs \ {p}
              \/ /\ LogMerge /\ UNCHANGED pairs
                 /\ {x, y} = {act[Pass].from, act[Pass].to}
<1>0. AskedOnce /\ IsABag(reviews)
  BY DEF AskInv, RowsInv, ReviewRows
<1>1. CASE UNCHANGED reviews
  BY <1>0, <1>1 DEF AskedOnce, PassReviewed
<1>2. CASE \E u \in Reviewers : Delete(u) \/ Resolve(u)
  BY <1>0, <1>2, AskedDelete, AskedResolve
<1>3. CASE ~UNCHANGED reviews /\ ~\E u \in Reviewers : Delete(u) \/ Resolve(u)
  <2>1. PICK r : /\ FiledRow(r) /\ File(r) /\ Unasked(r)
                 /\ \/ r.by = "run"
                    \/ r.kind = "prune"
                    \/ /\ On(Pass, "judge") /\ UNCHANGED act
                       /\ \E p \in pairs :
                            r.source = p[2] /\ r.target = p[1] /\ pairs' = pairs \ {p}
                    \/ /\ On(Pass, "log") /\ LogMerge /\ UNCHANGED pairs
                       /\ r.source = act[Pass].from /\ r.target = act[Pass].to
    BY <1>3, FilesUnasked
  <2>2. AskedOnce'
    BY <1>0, <2>1, AskedFile
  <2>3. DOMAIN reviews' = DOMAIN reviews \cup {r}
    BY <1>0, <2>1, FileRow
  <2>4. ASSUME NEW x, NEW y, PassReviewed(x, y)', ~PassReviewed(x, y)
        PROVE  r.by = Pass /\ r.kind = "merge" /\ {r.source, r.target} = {x, y}
    BY <2>3, <2>4 DEF PassReviewed
  <2>5. \A p : {p[1], p[2]} = {p[2], p[1]}
    OBVIOUS
  <2>6. r.by = Pass => r.by # "run"
    BY DEF Pass
  <2> QED
    BY <2>1, <2>2, <2>4, <2>5, <2>6
<1> QED
  BY <1>1, <1>2, <1>3

\* Where judging comes from.
LEMMA JudgeFrom ==
  ASSUME Shape, Next, act'[Pass].step = "judge"
  PROVE  act[Pass].step = "judge" \/ Block \/ LogMerge
<1>0. ActShape /\ Pass \in Actors /\ Reviewers \subseteq Actors
  BY DEF Shape, Actors
<1>1. CASE Load
  BY <1>0, <1>1, LoadRow
<1>2. CASE JudgeSame
  <2>1. PICK p \in pairs : act' = BeginMerge(Pass, p[2], p[1])
    BY <1>2 DEF JudgeSame
  <2> QED
    BY <1>0, <2>1, JudgeSameRow
<1>3. CASE FlagStrays
  BY <1>0, <1>3, IdleRow DEF FlagStrays
<1>4. ASSUME NEW u \in Reviewers, Decide(u) \/ Select(u) \/ Delete(u) \/ Resolve(u)
      PROVE  act'[Pass] = act[Pass]
  <2>1. Pass # u
    BY GraphAssumption DEF GraphAssumption
  <2> QED
    BY <1>0, <1>4, <2>1, DecideRow, SelectRow, TurnRow, IdleRow DEF Delete, Resolve
<1>5. ASSUME NEW b \in Actors, Repoint(b)
      PROVE  act'[Pass] = act[Pass] \/ act'[Pass].step \in {"object", "chunk", "row", "body"}
  BY <1>0, <1>5, TurnRow DEF Repoint, After, Classes
<1>6. ASSUME NEW b \in Actors, MoveBody(b) \/ Tombstone(b)
      PROVE  act'[Pass] = act[Pass] \/ act'[Pass].step \in {"tombstone", "log", "resolve"}
  BY <1>0, <1>6, TurnRow DEF MoveBody, Tombstone, After
<1>7. ASSUME NEW b \in Actors, Fails(b) \/ Dies(b)
      PROVE  act'[Pass] = act[Pass] \/ act'[Pass].step = "idle"
  BY <1>0, <1>7, IdleRow DEF Fails, Dies, Abandon
<1> QED
  BY <1>1, <1>2, <1>3, <1>4, <1>5, <1>6, <1>7, ActChange

LEMMA PairsOnceKept ==
  ASSUME RowsInv, AskInv, Next
  PROVE  \A p, q \in pairs' : {p[1], p[2]} = {q[1], q[2]} => p = q
<1>1. CASE pairs' \subseteq pairs
  BY <1>1 DEF AskInv
<1>2. CASE Load
  <2> SUFFICES ASSUME NEW p \in pairs', NEW q \in pairs', {p[1], p[2]} = {q[1], q[2]}
               PROVE  p = q
    OBVIOUS
  <2>1. /\ p \in Entities \X Entities /\ q \in Entities \X Entities
        /\ Better(p[1], p[2]) /\ Better(q[1], q[2])
    BY <1>2 DEF Load, Live
  <2>2. ~(p[1] = q[2] /\ p[2] = q[1])
    BY <2>1, OneWinner DEF RowsInv
  <2>3. p[1] # p[2]
    BY <2>1, OneWinner DEF RowsInv
  <2>4. p[1] = q[1] /\ p[2] = q[2]
    BY <2>2, <2>3
  <2> QED
    BY <2>1, <2>4
<1> QED
  BY <1>1, <1>2, PairsChange

LEMMA AskKept ==
  ASSUME RowsInv, AskInv, Next
  PROVE  AskInv'
<1>0. Shape /\ ActShape
  BY DEF RowsInv, GraphInv, Shape
<1>1. \A x, y : PassReviewed(x, y)' =>
        \/ PassReviewed(x, y)
        \/ /\ On(Pass, "judge") /\ UNCHANGED act
           /\ \E p \in pairs : {x, y} = {p[1], p[2]} /\ pairs' = pairs \ {p}
        \/ /\ LogMerge /\ UNCHANGED pairs
           /\ {x, y} = {act[Pass].from, act[Pass].to}
  BY AskedKept
<1>2. LogMerge => act[Pass].step = "log" /\ act'[Pass].step = "judge"
  BY <1>0, LogMergeRow
<1>3. act'[Pass].step \in MergeOrLog \cup {"judge"} => pairs' \subseteq pairs
  <2>1. Load => act'[Pass].step = "block"
    BY <1>0, LoadRow
  <2>2. "block" \notin MergeOrLog \cup {"judge"}
    BY DEF MergeOrLog, MergeSteps, Classes
  <2> QED
    BY <2>1, <2>2, PairsChange
<1>4. ASSUME act'[Pass].step = "judge", NEW p \in pairs'
      PROVE  ~PassReviewed(p[1], p[2])'
  <2>1. p \in pairs
    BY <1>3, <1>4
  <2>2. CASE Block
    <3>1. ~Reviewed(p) /\ UNCHANGED reviews
      BY <1>4, <2>2 DEF Block, tables
    <3> QED
      BY <3>1 DEF Reviewed, PassReviewed
  <2>3. CASE LogMerge
    <3>1. /\ ~PassReviewed(p[1], p[2])
          /\ {p[1], p[2]} # {act[Pass].from, act[Pass].to}
          /\ ~On(Pass, "judge")
      BY <1>2, <2>1, <2>3 DEF AskInv, MergeOrLog, On
    <3> QED
      BY <1>1, <3>1
  <2>4. CASE act[Pass].step = "judge"
    <3>1. ~PassReviewed(p[1], p[2]) /\ ~LogMerge
      BY <1>2, <2>1, <2>4 DEF AskInv
    <3>2. \A q \in pairs : {p[1], p[2]} = {q[1], q[2]} /\ pairs' = pairs \ {q} => FALSE
      BY <1>4, <2>1 DEF AskInv
    <3> QED
      BY <1>1, <3>1, <3>2
  <2> QED
    BY <1>0, <1>4, <2>2, <2>3, <2>4, JudgeFrom
<1>5. ASSUME act'[Pass].step \in MergeOrLog
      PROVE  /\ \A p \in pairs' : ~PassReviewed(p[1], p[2])'
             /\ ~PassReviewed(act[Pass].from, act[Pass].to)'
             /\ \A p \in pairs' : {p[1], p[2]} # {act'[Pass].from, act'[Pass].to}
  <2>1. ~LogMerge
    BY <1>2, <1>5 DEF MergeOrLog, MergeSteps, Classes
  <2>2. CASE /\ act[Pass].step \in MergeOrLog
             /\ act'[Pass].from = act[Pass].from /\ act'[Pass].to = act[Pass].to
    <3>1. act[Pass].step # "judge"
      BY <2>2 DEF MergeOrLog, MergeSteps, Classes
    <3>2. \A x, y : PassReviewed(x, y)' => PassReviewed(x, y)
      BY <1>1, <2>1, <3>1 DEF On
    <3> QED
      BY <1>3, <1>5, <2>2, <3>2 DEF AskInv
  <2>3. ASSUME JudgeSame, NEW p \in pairs,
               act'[Pass].from = p[2], act'[Pass].to = p[1], pairs' = pairs \ {p}
        PROVE  /\ \A q \in pairs' : ~PassReviewed(q[1], q[2])'
               /\ ~PassReviewed(act[Pass].from, act[Pass].to)'
               /\ \A q \in pairs' : {q[1], q[2]} # {act'[Pass].from, act'[Pass].to}
    <3>1. act[Pass].step = "judge" /\ UNCHANGED reviews
      BY <2>3 DEF JudgeSame, On, tables
    <3>2. \A x, y : PassReviewed(x, y)' => PassReviewed(x, y)
      BY <3>1 DEF PassReviewed
    <3>3. \A q \in pairs : ~PassReviewed(q[1], q[2])
      BY <3>1 DEF AskInv
    <3>4. ~PassReviewed(p[2], p[1])
      <4>1. {p[1], p[2]} = {p[2], p[1]}
        OBVIOUS
      <4> QED
        BY <3>3, <4>1 DEF PassReviewed
    <3>5. \A q \in pairs' : {q[1], q[2]} # {p[2], p[1]}
      <4>1. {p[1], p[2]} = {p[2], p[1]}
        OBVIOUS
      <4> QED
        BY <2>3, <4>1 DEF AskInv
    <3> QED
      BY <2>3, <3>2, <3>3, <3>4, <3>5
  <2>4. Pass \in Actors /\ Pass \notin Reviewers
    BY GraphAssumption DEF GraphAssumption, Actors
  <2> QED
    BY <1>0, <1>5, <2>2, <2>3, <2>4, MergeFrom
<1> QED
  BY <1>4, <1>5, AskedKept, PairsOnceKept DEF AskInv

\* Nobody is asked twice, for any graph: whatever runs, merges, dies or is
\* decided in between, the passes file one review of a pair and flag a stray
\* once.
THEOREM NobodyIsAskedTwice == Spec => []AskedOnce
<1>1. Init => RowsInv /\ AskInv
  <2> SUFFICES ASSUME Init PROVE AskInv
    BY InitRows
  <2>1. DOMAIN reviews = {} /\ pairs = {} /\ act[Pass].step = "idle"
    BY DEF Init, EmptyBag, SetToBag, Idle, Actors
  <2> QED
    BY <2>1 DEF AskInv, AskedOnce, MergeOrLog, MergeSteps, Classes
<1>2. RowsInv /\ AskInv /\ [Next]_vars => (RowsInv /\ AskInv)'
  <2> SUFFICES ASSUME RowsInv, AskInv, [Next]_vars PROVE AskInv'
    BY RowsStep
  <2>1. CASE UNCHANGED vars
    BY <2>1 DEF vars, AskInv, AskedOnce, PassReviewed
  <2>2. CASE Next
    BY <2>2, AskKept
  <2> QED
    BY <2>1, <2>2
<1>3. AskInv => AskedOnce
  BY DEF AskInv
<1> QED
  BY <1>1, <1>2, <1>3, PTL DEF Spec

-----------------------------------------------------------------------------
(* A prune spares what is linked.                                          *)

\* What a prune is going to delete had no fact when it selected.
PruneInv ==
  /\ linked \in [Reviewers -> SUBSET (Facts \X Nat)]
  /\ \A u \in Reviewers : On(u, "delete") =>
       \A l \in Facts : \A e \in act[u].ids : <<l, e>> \notin linked[u]

LEMMA SelectPrunes ==
  ASSUME Shape, PruneInv, NEW u \in Reviewers, Select(u)
  PROVE  /\ linked' = [linked EXCEPT ![u] = FactLinks]
         /\ FactLinks \in SUBSET (Facts \X Nat)
         /\ \A l \in Facts : \A e \in act'[u].ids : <<l, e>> \notin FactLinks
<1>0. ActShape /\ u \in Actors /\ at \in [Links -> Nat] /\ Facts \subseteq Links
  BY DEF Shape, Actors, Facts
<1>1. PICK idle \in SUBSET {e \in act[u].review.ids :
                            IsLive(e) /\ ~entities[e].body /\ Edges(e) = 0} :
        act' = [act EXCEPT ![u].step = "delete", ![u].ids = idle]
  BY DEF Select
<1>2. act'[u].ids = idle
  BY <1>0, <1>1 DEF ActShape, ActRow
<1>3. \A e \in idle : \A l \in Facts : at[l] # e
  BY EdgesNat
<1>4. FactLinks \in SUBSET (Facts \X Nat)
  BY <1>0 DEF FactLinks
<1>5. \A l, e : <<l, e>> \in FactLinks => e = at[l]
  BY DEF FactLinks
<1> QED
  BY <1>2, <1>3, <1>4, <1>5 DEF Select

LEMMA LinkedChange ==
  ASSUME Next
  PROVE  \/ UNCHANGED linked
         \/ \E u \in Reviewers : Select(u) \/ Delete(u)
         \/ \E a \in Actors : Fails(a) \/ Dies(a)
BY DEF Next, Start, Exact, Recall, Bump, LogMatch, Create, Propose, Write, RunFails,
       Load, Block, JudgeSame, JudgeApart, LogMerge, FlagStrays, Decide, Resolve,
       Repoint, MoveBody, Tombstone, history

\* Where a deletion comes from.
LEMMA DeleteFrom ==
  ASSUME Shape, Next, NEW u \in Reviewers, act'[u].step = "delete"
  PROVE  act'[u] = act[u] \/ Select(u)
<1>0. ActShape /\ u \in Actors /\ Pass \in Actors /\ Reviewers \subseteq Actors /\ u # Pass
  BY GraphAssumption DEF GraphAssumption, Shape, Actors
<1>1. CASE Load \/ LogMerge
  BY <1>0, <1>1, LoadRow, LogMergeRow
<1>2. CASE Block
  BY <1>0, <1>2, TurnRow DEF Block
<1>3. CASE JudgeSame
  <2>1. PICK p \in pairs : act' = BeginMerge(Pass, p[2], p[1])
    BY <1>3 DEF JudgeSame
  <2> QED
    BY <1>0, <2>1, JudgeSameRow
<1>4. CASE FlagStrays
  BY <1>0, <1>4, IdleRow DEF FlagStrays
<1>5. ASSUME NEW v \in Reviewers, Decide(v) PROVE act'[u] = act[u]
  BY <1>0, <1>5, DecideRow
<1>6. ASSUME NEW v \in Reviewers, Select(v) PROVE act'[u] = act[u] \/ v = u
  BY <1>0, <1>6, SelectRow
<1>7. ASSUME NEW v \in Reviewers, Delete(v) PROVE act'[u] = act[u]
  BY <1>0, <1>7, TurnRow DEF Delete
<1>8. ASSUME NEW v \in Reviewers, Resolve(v) PROVE act'[u] = act[u]
  BY <1>0, <1>8, IdleRow DEF Resolve
<1>9. ASSUME NEW b \in Actors, Repoint(b) PROVE act'[u] = act[u]
  BY <1>0, <1>9, TurnRow DEF Repoint, After, Classes
<1>10. ASSUME NEW b \in Actors, MoveBody(b) \/ Tombstone(b) PROVE act'[u] = act[u]
  BY <1>0, <1>10, TurnRow DEF MoveBody, Tombstone, After
<1>11. ASSUME NEW b \in Actors, Fails(b) \/ Dies(b) PROVE act'[u] = act[u]
  BY <1>0, <1>11, IdleRow DEF Fails, Dies, Abandon
<1> QED
  BY <1>1, <1>2, <1>3, <1>4, <1>5, <1>6, <1>7, <1>8, <1>9, <1>10, <1>11, ActChange

LEMMA PruneKept ==
  ASSUME Shape, PruneInv, Next
  PROVE  PruneInv'
<1>0. ActShape /\ Reviewers \subseteq Actors
  BY DEF Shape, Actors
<1>1. CASE \E v \in Reviewers : Select(v)
  <2>1. PICK v \in Reviewers : Select(v)
    BY <1>1
  <2>2. /\ linked' = [linked EXCEPT ![v] = FactLinks]
        /\ FactLinks \in SUBSET (Facts \X Nat)
        /\ \A l \in Facts : \A e \in act'[v].ids : <<l, e>> \notin FactLinks
    BY <2>1, SelectPrunes
  <2>3. \A b \in Actors : b # v => act'[b] = act[b]
    BY <1>0, <2>1, SelectRow
  <2>4. linked' \in [Reviewers -> SUBSET (Facts \X Nat)]
    BY <2>2 DEF PruneInv
  <2>5. ASSUME NEW u \in Reviewers, act'[u].step = "delete", NEW l \in Facts,
               NEW e \in act'[u].ids
        PROVE  <<l, e>> \notin linked'[u]
    <3>1. CASE u = v
      BY <2>2, <2>5, <3>1 DEF PruneInv
    <3>2. CASE u # v
      <4>1. act'[u] = act[u] /\ linked'[u] = linked[u]
        BY <1>0, <2>2, <2>3, <3>2 DEF PruneInv
      <4> QED
        BY <2>5, <4>1 DEF PruneInv, On
    <3> QED
      BY <3>1, <3>2
  <2> QED
    BY <2>4, <2>5 DEF PruneInv, On
<1>2. CASE ~\E v \in Reviewers : Select(v)
  <2>1. /\ linked' \in [Reviewers -> SUBSET (Facts \X Nat)]
        /\ \A u \in Reviewers : linked'[u] \subseteq linked[u]
    <3>1. CASE UNCHANGED linked
      BY <3>1 DEF PruneInv
    <3>2. ASSUME NEW v \in Reviewers, Delete(v)
          PROVE  /\ linked' \in [Reviewers -> SUBSET (Facts \X Nat)]
                 /\ \A u \in Reviewers : linked'[u] \subseteq linked[u]
      BY <3>2 DEF PruneInv, Delete
    <3>3. ASSUME NEW a \in Actors, Fails(a) \/ Dies(a)
          PROVE  /\ linked' \in [Reviewers -> SUBSET (Facts \X Nat)]
                 /\ \A u \in Reviewers : linked'[u] \subseteq linked[u]
      <4>1. linked' = [u \in Reviewers |-> IF u = a THEN {} ELSE linked[u]]
        BY <3>3 DEF Fails, Dies, Abandon
      <4> QED
        BY <4>1 DEF PruneInv
    <3> QED
      BY <1>2, <3>1, <3>2, <3>3, LinkedChange
  <2>2. \A u \in Reviewers : act'[u].step = "delete" => act'[u] = act[u]
    BY <1>2, DeleteFrom
  <2> QED
    BY <2>1, <2>2 DEF PruneInv, On
<1> QED
  BY <1>1, <1>2

\* How a deletion ends: it is done, or nothing is.
LEMMA DeleteEnds ==
  ASSUME Shape, Next, NEW u \in Reviewers, On(u, "delete"), act'[u].step # "delete"
  PROVE  Delete(u) \/ UNCHANGED at
<1>0. ActShape /\ u \in Actors /\ Reviewers \subseteq Actors /\ act[u].step = "delete"
  BY DEF Shape, Actors, On
<1>1. ASSUME NEW v \in Reviewers, Delete(v) PROVE v = u
  BY <1>0, <1>1, TurnRow DEF Delete
<1>2. ASSUME NEW b \in Actors, Repoint(b) PROVE FALSE
  <2>1. b # u
    BY <1>0, <1>2 DEF Repoint, Classes
  <2> QED
    BY <1>0, <1>2, <2>1, TurnRow DEF Repoint
<1>3. ASSUME NEW w \in Runs, Write(w) PROVE FALSE
  BY <1>0, <1>3 DEF Write
<1>4. \/ UNCHANGED at
      \/ (\E w \in Runs : Write(w)) \/ (\E b \in Actors : Repoint(b))
      \/ (\E v \in Reviewers : Delete(v))
  BY DEF Next, Start, Exact, Recall, Bump, LogMatch, Create, Propose, RunFails,
         Load, Block, JudgeSame, JudgeApart, LogMerge, FlagStrays, Decide, Select,
         Resolve, MoveBody, Tombstone, Fails, Dies, Abandon, tables
<1> QED
  BY <1>1, <1>2, <1>3, <1>4

\* A prune deletes no entity with a fact it could have seen, for any graph,
\* runs and reviewers: the conditions of orphan_prune's query hold of every
\* fact that was there when it ran.
THEOREM PrunesSpareFacts == Spec => PruneSparesLinked
<1>1. Init => GraphInv /\ PruneInv
  <2> SUFFICES ASSUME Init PROVE PruneInv
    BY InitGraph
  <2> QED
    BY DEF Init, PruneInv, On, Idle, Actors
<1>2. GraphInv /\ PruneInv /\ [Next]_vars => (GraphInv /\ PruneInv)'
  <2> SUFFICES ASSUME GraphInv, PruneInv, [Next]_vars PROVE PruneInv'
    BY GraphStep
  <2>1. CASE UNCHANGED vars
    BY <2>1 DEF vars, PruneInv, On
  <2>2. CASE Next
    BY <2>2, PruneKept DEF GraphInv
  <2> QED
    BY <2>1, <2>2
<1>3. GraphInv /\ PruneInv /\ [Next]_vars =>
        [\A u \in Reviewers, l \in Facts :
           (On(u, "delete") /\ ~On(u, "delete")' /\ at[l] # NoEntity /\ at'[l] = NoEntity)
             => <<l, at[l]>> \notin linked[u]]_vars
  <2> SUFFICES ASSUME GraphInv, PruneInv, Next, NEW u \in Reviewers, NEW l \in Facts,
                      On(u, "delete"), ~On(u, "delete")',
                      at[l] # NoEntity, at'[l] = NoEntity
               PROVE  <<l, at[l]>> \notin linked[u]
    OBVIOUS
  <2>1. Delete(u)
    BY DeleteEnds DEF GraphInv, On
  <2>2. at' = [k \in Links |-> IF at[k] \in Gone(u) THEN NoEntity ELSE at[k]]
    BY <2>1 DEF Delete, Gone
  <2>3. at[l] \in act[u].ids
    BY <2>2 DEF Gone, Facts
  <2> QED
    BY <2>3 DEF PruneInv
<1> QED
  BY <1>1, <1>2, <1>3, PTL DEF Spec, PruneSparesLinked
-----------------------------------------------------------------------------
(* Every merge is on record, while one reviewer decides at a time.         *)

\* One reviewer, or several that never work at once: two decisions on one
\* review may reject the record of a merge that was accepted.
OneReviewer == \A u, v \in Reviewers : u = v

\* A run proposes its new entity once.
ProposeInv ==
  /\ \A q \in DOMAIN reviews : q.by = "run" /\ q.source # NoEntity =>
       /\ reviews[q] = 1
       /\ \A r \in DOMAIN reviews : r.by = "run" /\ r.source = q.source => r = q
  /\ \A w \in Runs : RunAt(w, "propose") =>
       /\ run[w].entity # NoEntity
       /\ \A r \in DOMAIN reviews : r.by = "run" => r.source # run[w].entity
  /\ \A v, w \in Runs : RunAt(v, "propose") /\ RunAt(w, "propose")
       /\ run[v].entity = run[w].entity => v = w

LEMMA ProposeFrom ==
  ASSUME Shape, Next, NEW w \in Runs, RunAt(w, "propose")'
  PROVE  run'[w] = run[w] \/ (Create(w) /\ run'[w].entity = Len(entities) + 1)
<1>0. RunShape
  BY DEF Shape
<1>1. ASSUME NEW v \in Runs, Start(v) PROVE run'[w] = run[w]
  BY <1>0, <1>1 DEF Start, RunShape, NoRun, RunAt
<1>2. ASSUME NEW v \in Runs, Exact(v) PROVE run'[w] = run[w]
  BY <1>0, <1>2 DEF Exact, RunShape, RunAt, RunGo
<1>3. ASSUME NEW v \in Runs, Recall(v) PROVE run'[w] = run[w]
  BY <1>0, <1>3 DEF Recall, RunShape, RunAt, RunGo
<1>4. ASSUME NEW v \in Runs, Bump(v) \/ LogMatch(v) \/ Propose(v) PROVE run'[w] = run[w]
  BY <1>0, <1>4 DEF Bump, LogMatch, Propose, RunShape, RunAt, RunGo
<1>5. ASSUME NEW v \in Runs, Create(v)
      PROVE  run'[w] = run[w] \/ (v = w /\ run'[w].entity = Len(entities) + 1)
  BY <1>0, <1>5 DEF Create, RunShape
<1>6. ASSUME NEW v \in Runs, Write(v) \/ RunFails(v) PROVE run'[w] = run[w]
  BY <1>0, <1>6 DEF Write, RunFails, RunShape, NoRun, RunAt
<1> QED
  BY <1>1, <1>2, <1>3, <1>4, <1>5, <1>6, RunChange

\* The proposals there are, after a step.
LEMMA ProposalsKept ==
  ASSUME RowsInv, ProposeInv, Next
  PROVE  /\ \A q \in DOMAIN reviews' : q.by = "run" /\ q.source # NoEntity =>
              /\ reviews'[q] = 1
              /\ \A r \in DOMAIN reviews' : r.by = "run" /\ r.source = q.source => r = q
         /\ \A q \in DOMAIN reviews' : q.by = "run" /\ q.source # NoEntity =>
              \/ \E r \in DOMAIN reviews : r.by = "run" /\ r.source = q.source
              \/ \E w \in Runs : /\ RunAt(w, "propose") /\ RunGo(w, "write")
                                 /\ q.source = run[w].entity
<1>0. IsABag(reviews) /\ Shape /\ RunShape
  BY DEF RowsInv, GraphInv, ReviewRows, Shape
<1>1. CASE UNCHANGED reviews
  BY <1>1 DEF ProposeInv
<1>2. ASSUME NEW u \in Reviewers, Delete(u)
      PROVE  DOMAIN reviews' \subseteq DOMAIN reviews
             /\ \A q \in DOMAIN reviews' : reviews'[q] = reviews[q]
  BY <1>2 DEF Delete
<1>3. CASE \E u \in Reviewers : Delete(u)
  BY <1>2, <1>3 DEF ProposeInv
<1>4. ASSUME NEW r, File(r), r.by = Pass
      PROVE  \A q \in DOMAIN reviews' : q.by = "run" =>
               q \in DOMAIN reviews /\ reviews'[q] = reviews[q]
  BY <1>0, <1>4, FileRow DEF Pass
<1>5. CASE JudgeApart \/ LogMerge \/ FlagStrays
  <2>1. UNCHANGED reviews \/ \E r : File(r) /\ r.by = Pass
    BY <1>5, PassFiles, StraysFiled
  <2> QED
    BY <1>1, <1>4, <2>1 DEF ProposeInv
<1>6. ASSUME NEW w \in Runs, LogMatch(w) \/ Propose(w)
      PROVE  /\ \A q \in DOMAIN reviews' : q.by = "run" /\ q.source # NoEntity =>
                  /\ reviews'[q] = 1
                  /\ \A r \in DOMAIN reviews' : r.by = "run" /\ r.source = q.source => r = q
             /\ \A q \in DOMAIN reviews' : q.by = "run" /\ q.source # NoEntity =>
                  \/ \E r \in DOMAIN reviews : r.by = "run" /\ r.source = q.source
                  \/ /\ RunAt(w, "propose") /\ RunGo(w, "write")
                     /\ q.source = run[w].entity
  <2>1. PICK r : /\ File(r) /\ r.by = "run"
                 /\ \/ r.source = NoEntity
                    \/ /\ RunAt(w, "propose") /\ RunGo(w, "write")
                       /\ r.source = run[w].entity
    BY <1>6, RunFiles
  <2>2. /\ DOMAIN reviews' = DOMAIN reviews \cup {r}
        /\ \A q \in DOMAIN reviews \ {r} : reviews'[q] = reviews[q]
        /\ r \notin DOMAIN reviews => reviews'[r] = 1
    BY <1>0, <2>1, FileRow
  <2>3. r.source # NoEntity =>
          /\ r \notin DOMAIN reviews
          /\ \A q \in DOMAIN reviews : q.by = "run" => q.source # r.source
    BY <2>1 DEF ProposeInv
  <2> QED
    BY <2>1, <2>2, <2>3 DEF ProposeInv
<1>7. CASE \E w \in Runs : LogMatch(w) \/ Propose(w)
  BY <1>6, <1>7
<1>8. CASE \E u \in Reviewers : Resolve(u)
  <2>1. PICK u \in Reviewers : Resolve(u)
    BY <1>8
  <2>2. PICK r \in RowsOf(u), s \in ReviewRow :
          /\ s.kind = r.kind /\ s.source = r.source /\ s.target = r.target
          /\ s.ids = r.ids /\ s.by = r.by
          /\ Settled(r, s)
    BY <1>0, <2>1, ResolveRow
  <2>3. r \in DOMAIN reviews
    BY DEF RowsOf
  <2>4. CASE r.by = "run" /\ r.source # NoEntity
    <3>1. reviews[r] = 1 /\ \A q \in DOMAIN reviews : q.by = "run" /\ q.source = r.source => q = r
      BY <2>3, <2>4 DEF ProposeInv
    <3>2. s = r \/ s \notin DOMAIN reviews
      BY <2>2, <2>4, <3>1
    <3>3. /\ reviews'[s] = 1
          /\ \A q \in DOMAIN reviews' : q = s \/ q \in DOMAIN reviews \ {r, s}
          /\ \A q \in DOMAIN reviews \ {r, s} : reviews'[q] = reviews[q]
      BY <2>2, <3>1, <3>2 DEF Settled
    <3> QED
      BY <2>2, <2>3, <2>4, <3>1, <3>3 DEF ProposeInv
  <2>5. CASE ~(r.by = "run" /\ r.source # NoEntity)
    <3>1. \A q \in DOMAIN reviews' : q.by = "run" /\ q.source # NoEntity =>
            q \in DOMAIN reviews \ {r, s} /\ reviews'[q] = reviews[q]
      BY <2>2, <2>5 DEF Settled
    <3> QED
      BY <3>1 DEF ProposeInv
  <2> QED
    BY <2>4, <2>5
<1> QED
  BY <1>1, <1>3, <1>5, <1>7, <1>8, ReviewsChange

LEMMA ProposeKept ==
  ASSUME RowsInv, ProposeInv, Next
  PROVE  ProposeInv'
<1>0. Shape /\ RunShape /\ RunsApart /\ ReviewRows /\ Len(entities) \in Nat
  BY DEF RowsInv, GraphInv, Shape
<1>1. \A w \in Runs : RunAt(w, "propose")' =>
        run'[w] = run[w] \/ (Create(w) /\ run'[w].entity = Len(entities) + 1)
  BY <1>0, ProposeFrom
<1>2. \A r \in DOMAIN reviews : r.source # Len(entities) + 1
  BY <1>0 DEF ReviewRows, Exists, Entities, NoEntity
<1>3. \A w \in Runs : run[w].entity # Len(entities) + 1
  BY <1>0 DEF RunsApart
<1>4. ASSUME NEW v \in Runs, NEW w \in Runs, Create(v), Create(w)
      PROVE  v = w
  <2>1. run'[v].step # run[v].step /\ \A x \in Runs : x # w => run'[x] = run[x]
    BY <1>0, <1>4, RunGoesOn
  <2> QED
    BY <2>1
<1>5. ASSUME NEW w \in Runs, RunAt(w, "propose")'
      PROVE  /\ run'[w].entity # NoEntity
             /\ \A r \in DOMAIN reviews' : r.by = "run" => r.source # run'[w].entity
  <2>1. CASE Create(w) /\ run'[w].entity = Len(entities) + 1
    <3>1. UNCHANGED reviews
      BY <2>1 DEF Create
    <3> QED
      BY <1>0, <1>2, <2>1, <3>1 DEF NoEntity
  <2>2. CASE run'[w] = run[w]
    <3>1. RunAt(w, "propose") /\ run[w].entity # NoEntity
      BY <1>5, <2>2 DEF RunAt, ProposeInv
    <3>2. ASSUME NEW r \in DOMAIN reviews', r.by = "run", r.source = run[w].entity
          PROVE  FALSE
      <4>1. PICK v \in Runs : /\ RunAt(v, "propose") /\ RunGo(v, "write")
                              /\ r.source = run[v].entity
        BY <3>1, <3>2, ProposalsKept DEF ProposeInv
      <4>2. v = w
        BY <3>1, <3>2, <4>1 DEF ProposeInv
      <4>3. run'[w].step = "write"
        BY <1>0, <4>1, <4>2 DEF RunGo, RunShape
      <4> QED
        BY <1>5, <4>3 DEF RunAt
    <3> QED
      BY <2>2, <3>1, <3>2
  <2> QED
    BY <1>1, <1>5, <2>1, <2>2
<1>6. ASSUME NEW v \in Runs, NEW w \in Runs, RunAt(v, "propose")', RunAt(w, "propose")',
             run'[v].entity = run'[w].entity
      PROVE  v = w
  BY <1>1, <1>3, <1>4, <1>6 DEF ProposeInv, RunAt
<1> QED
  BY <1>5, <1>6, ProposalsKept DEF ProposeInv

\* A merge review is one row, whatever its status.
Twins ==
  \A q, r \in DOMAIN reviews :
    (q.kind = "merge" /\ q.source # NoEntity
       /\ [q EXCEPT !.status = "pending"] = [r EXCEPT !.status = "pending"]) => q = r

LEMMA TwinsAreOne ==
  ASSUME RowsInv, AskedOnce, ProposeInv
  PROVE  Twins
<1> SUFFICES ASSUME NEW q \in DOMAIN reviews, NEW r \in DOMAIN reviews,
                    q.kind = "merge", q.source # NoEntity,
                    [q EXCEPT !.status = "pending"] = [r EXCEPT !.status = "pending"]
             PROVE  q = r
  BY DEF Twins
<1>1. q \in ReviewRow /\ r \in ReviewRow
  BY DEF RowsInv, GraphInv, Shape
<1>2. q.kind = r.kind /\ q.source = r.source /\ q.target = r.target /\ q.by = r.by
  BY <1>1 DEF ReviewRow
<1>3. q.by \in {"run", Pass}
  BY <1>1 DEF ReviewRow, RowsInv, ReviewRows
<1>4. CASE q.by = "run"
  BY <1>2, <1>4 DEF ProposeInv
<1>5. CASE q.by = Pass
  BY <1>2, <1>5 DEF AskedOnce
<1> QED
  BY <1>3, <1>4, <1>5

\* What a reviewer is deciding: the row is there and pending, and a merge is
\* the one that the row proposes.
DecisionInv ==
  \A u \in Reviewers :
    /\ act[u].step # "idle" =>
         /\ act[u].review.status = "pending"
         /\ act[u].review.kind = "merge" /\ act[u].review.source # NoEntity
              => act[u].review \in DOMAIN reviews
    /\ act[u].step \in {"select", "delete"} =>
         act[u].review.kind = "prune" /\ act[u].from = NoEntity
    /\ act[u].step \in MergeSteps \cup {"resolve"} /\ act[u].from # NoEntity =>
         /\ act[u].accept /\ act[u].review.kind = "merge"
         /\ act[u].review.source = act[u].from /\ act[u].review.target = act[u].to

\* A reviewer goes on with the same decision.
LEMMA ReviewerGoesOn ==
  ASSUME Shape, Next, NEW u \in Reviewers, act'[u].step # "idle"
  PROVE  \/ Decide(u)
         \/ /\ act[u].step # "idle" /\ ~Resolve(u)
            /\ act'[u].review = act[u].review /\ act'[u].accept = act[u].accept
            /\ act'[u].from = act[u].from /\ act'[u].to = act[u].to
            /\ \/ act'[u].step = act[u].step
               \/ act[u].step = "select" /\ act'[u].step = "delete"
               \/ act[u].step = "delete" /\ act'[u].step = "resolve"
               \/ act[u].step \in MergeSteps /\ act'[u].step \in MergeSteps \cup {"resolve"}
<1>0. ActShape /\ u \in Actors /\ Pass \in Actors /\ Reviewers \subseteq Actors /\ u # Pass
  BY GraphAssumption DEF GraphAssumption, Shape, Actors
<1>1. Resolve(u) => act'[u].step = "idle"
  BY <1>0, IdleRow DEF Resolve
<1>2. CASE act'[u] = act[u]
  BY <1>1, <1>2
<1>3. CASE UNCHANGED act
  BY <1>2, <1>3
<1>4. CASE Load \/ Block \/ JudgeSame \/ LogMerge \/ FlagStrays
  <2>1. act'[u] = act[u]
    <3>1. CASE Load \/ LogMerge
      BY <1>0, <3>1, LoadRow, LogMergeRow
    <3>2. CASE Block
      BY <1>0, <3>2, TurnRow DEF Block
    <3>3. CASE JudgeSame
      <4>1. PICK p \in pairs : act' = BeginMerge(Pass, p[2], p[1])
        BY <3>3 DEF JudgeSame
      <4> QED
        BY <1>0, <4>1, JudgeSameRow
    <3>4. CASE FlagStrays
      BY <1>0, <3>4, IdleRow DEF FlagStrays
    <3> QED
      BY <1>4, <3>1, <3>2, <3>3, <3>4
  <2> QED
    BY <1>2, <2>1
<1>5. ASSUME NEW v \in Reviewers, Decide(v) PROVE act'[u] = act[u] \/ Decide(u)
  BY <1>0, <1>5, DecideRow
<1>6. ASSUME NEW v \in Reviewers, Resolve(v) PROVE act'[u] = act[u] \/ Resolve(u)
  BY <1>0, <1>6, IdleRow DEF Resolve
<1>7. ASSUME NEW v \in Reviewers, Select(v)
      PROVE  act'[u] = act[u]
             \/ /\ act[u].step = "select" /\ act'[u].step = "delete"
                /\ act'[u].review = act[u].review /\ act'[u].accept = act[u].accept
                /\ act'[u].from = act[u].from /\ act'[u].to = act[u].to
  BY <1>0, <1>7, SelectRow
<1>8. ASSUME NEW v \in Reviewers, Delete(v)
      PROVE  act'[u] = act[u]
             \/ /\ act[u].step = "delete" /\ act'[u].step = "resolve"
                /\ act'[u].review = act[u].review /\ act'[u].accept = act[u].accept
                /\ act'[u].from = act[u].from /\ act'[u].to = act[u].to
  BY <1>0, <1>8, TurnRow DEF Delete, On
<1>9. ASSUME NEW b \in Actors, Repoint(b) \/ MoveBody(b) \/ Tombstone(b)
      PROVE  act'[u] = act[u]
             \/ /\ act[u].step \in MergeSteps
                /\ act'[u].step \in MergeSteps \cup {"resolve"}
                /\ act'[u].review = act[u].review /\ act'[u].accept = act[u].accept
                /\ act'[u].from = act[u].from /\ act'[u].to = act[u].to
  <2>1. CASE b # u
    BY <1>0, <1>9, <2>1, TurnRow DEF Repoint, MoveBody, Tombstone
  <2>2. CASE b = u /\ Repoint(u)
    BY <1>0, <2>2, TurnRow DEF Repoint, After, Classes, MergeSteps
  <2>3. CASE b = u /\ MoveBody(u)
    BY <1>0, <2>3, TurnRow DEF MoveBody, On, After, MergeSteps
  <2>4. CASE b = u /\ Tombstone(u)
    BY <1>0, <2>4, TurnRow DEF Tombstone, On, MergeSteps
  <2> QED
    BY <1>9, <2>1, <2>2, <2>3, <2>4
<1>10. ASSUME NEW b \in Actors, Fails(b) \/ Dies(b) PROVE act'[u] = act[u]
  BY <1>0, <1>10, IdleRow DEF Fails, Dies, Abandon
<1>11. MergeSteps \cap {"idle", "resolve"} = {}
  BY DEF MergeSteps, Classes
<1>12. Resolve(u) => act[u].step = "resolve"
  BY DEF Resolve, On
<1> QED
  BY <1>1, <1>2, <1>3, <1>4, <1>5, <1>6, <1>7, <1>8, <1>9, <1>10, <1>11, <1>12, ActChange

\* A row goes when one of its entities is deleted, or when it is settled.
LEMMA RowStays ==
  ASSUME RowsInv, Next, NEW r \in DOMAIN reviews
  PROVE  \/ r \in DOMAIN reviews'
         \/ \E u \in Reviewers :
              Delete(u) /\ (r.source \in Gone(u) \/ r.target \in Gone(u))
         \/ \E u \in Reviewers : Resolve(u) /\ r \in RowsOf(u)
<1>0. IsABag(reviews) /\ Shape
  BY DEF RowsInv, GraphInv, ReviewRows
<1>1. ASSUME NEW q, File(q) PROVE r \in DOMAIN reviews'
  BY <1>0, <1>1, FileRow
<1>2. ASSUME NEW u \in Reviewers, Delete(u)
      PROVE  r \in DOMAIN reviews' \/ r.source \in Gone(u) \/ r.target \in Gone(u)
  <2>1. reviews' = [q \in {q \in DOMAIN reviews :
                            {q.source, q.target} \cap Gone(u) = {}} |-> reviews[q]]
    BY <1>2 DEF Delete, Gone
  <2> QED
    BY <2>1
<1>3. ASSUME NEW u \in Reviewers, Resolve(u)
      PROVE  r \in DOMAIN reviews' \/ r \in RowsOf(u)
  <2>1. PICK q \in RowsOf(u), s \in ReviewRow : Settled(q, s)
    BY <1>0, <1>3, ResolveRow
  <2> QED
    BY <2>1 DEF Settled
<1> QED
  BY <1>1, <1>2, <1>3, ReviewsStep

LEMMA DecisionKept ==
  ASSUME OneReviewer, RowsInv, DecisionInv, Next
  PROVE  DecisionInv'
<1>0. Shape /\ ActShape
  BY DEF RowsInv, GraphInv, Shape
<1> SUFFICES ASSUME NEW u \in Reviewers
             PROVE  /\ act'[u].step # "idle" =>
                         /\ act'[u].review.status = "pending"
                         /\ act'[u].review.kind = "merge" /\ act'[u].review.source # NoEntity
                              => act'[u].review \in DOMAIN reviews'
                    /\ act'[u].step \in {"select", "delete"} =>
                         act'[u].review.kind = "prune" /\ act'[u].from = NoEntity
                    /\ act'[u].step \in MergeSteps \cup {"resolve"} /\ act'[u].from # NoEntity =>
                         /\ act'[u].accept /\ act'[u].review.kind = "merge"
                         /\ act'[u].review.source = act'[u].from
                         /\ act'[u].review.target = act'[u].to
  BY DEF DecisionInv
<1>1. MergeSteps \cap {"idle", "select", "delete", "resolve"} = {}
  BY DEF MergeSteps, Classes
<1>2. CASE act'[u].step = "idle"
  BY <1>1, <1>2
<1>3. CASE Decide(u)
  <2>1. UNCHANGED reviews
    BY <1>3 DEF Decide, tables
  <2>2. "subject" \notin {"select", "delete"}
    OBVIOUS
  <2> QED
    BY <1>0, <1>3, <2>1, <2>2, DecideRow
<1>4. CASE /\ act[u].step # "idle" /\ ~Resolve(u)
           /\ act'[u].review = act[u].review /\ act'[u].accept = act[u].accept
           /\ act'[u].from = act[u].from /\ act'[u].to = act[u].to
           /\ \/ act'[u].step = act[u].step
              \/ act[u].step = "select" /\ act'[u].step = "delete"
              \/ act[u].step = "delete" /\ act'[u].step = "resolve"
              \/ act[u].step \in MergeSteps /\ act'[u].step \in MergeSteps \cup {"resolve"}
  <2>1. ASSUME act[u].review.kind = "merge", act[u].review.source # NoEntity
        PROVE  act[u].review \in DOMAIN reviews'
    <3>1. act[u].review \in DOMAIN reviews
      BY <1>4, <2>1 DEF DecisionInv
    <3>2. \A v \in Reviewers : ~Resolve(v)
      BY <1>4 DEF OneReviewer
    <3>3. \A v \in Reviewers : ~Delete(v)
      BY <2>1 DEF OneReviewer, Delete, On, DecisionInv
    <3> QED
      BY <3>1, <3>2, <3>3, RowStays
  <2>2. act'[u].step \in {"select", "delete"} => act[u].step \in {"select", "delete"}
    BY <1>1, <1>4
  <2>3. act'[u].step \in MergeSteps \cup {"resolve"} /\ act'[u].from # NoEntity =>
          act[u].step \in MergeSteps \cup {"resolve"}
    BY <1>1, <1>4 DEF DecisionInv
  <2> QED
    BY <1>4, <2>1, <2>2, <2>3 DEF DecisionInv
<1> QED
  BY <1>0, <1>2, <1>3, <1>4, ReviewerGoesOn

-----------------------------------------------------------------------------

\* Who is about to file the merge of e into f.
AboutToLog(a, e, f) ==
  act[a].from = e /\ act[a].to = f /\ act[a].step \in {"log", "resolve"}

OnRecord(e, f) ==
  \E r \in DOMAIN reviews : r.source = e /\ r.target = f /\ r.status = "accepted"

LogInv ==
  \A e \in Entities \ cut :
    \/ entities[e].merged = NoEntity
    \/ \E a \in Actors : AboutToLog(a, e, entities[e].merged)
    \/ OnRecord(e, entities[e].merged)

\* Who is about to file does it, or ends.
LEMMA LogsOrEnds ==
  ASSUME Shape, Next, NEW a \in Actors, act[a].step \in {"log", "resolve"}
  PROVE  \/ act'[a] = act[a]
         \/ a \in Reviewers /\ Resolve(a)
         \/ a = Pass /\ LogMerge
         \/ act[a].from \in cut'
<1>0. ActShape /\ Pass \in Actors /\ Reviewers \subseteq Actors
  BY DEF Shape, Actors
<1>1. ASSUME Load \/ Block \/ JudgeSame \/ FlagStrays PROVE act'[a] = act[a]
  <2>1. CASE Load
    BY <1>0, <2>1, LoadRow DEF Load, On
  <2>2. CASE Block
    BY <1>0, <2>2, TurnRow DEF Block, On
  <2>3. CASE JudgeSame
    <3>1. PICK p \in pairs : act' = BeginMerge(Pass, p[2], p[1]) /\ On(Pass, "judge")
      BY <2>3 DEF JudgeSame
    <3> QED
      BY <1>0, <3>1, JudgeSameRow DEF On
  <2>4. CASE FlagStrays
    BY <1>0, <2>4, IdleRow DEF FlagStrays, On
  <2> QED
    BY <1>1, <2>1, <2>2, <2>3, <2>4
<1>2. CASE LogMerge
  BY <1>0, <1>2, LogMergeRow
<1>3. ASSUME NEW u \in Reviewers, Decide(u) PROVE act'[a] = act[a]
  BY <1>0, <1>3, DecideRow
<1>4. ASSUME NEW u \in Reviewers, Select(u) PROVE act'[a] = act[a]
  BY <1>0, <1>4, SelectRow
<1>5. ASSUME NEW u \in Reviewers, Delete(u) PROVE act'[a] = act[a]
  BY <1>0, <1>5, TurnRow DEF Delete, On
<1>6. ASSUME NEW u \in Reviewers, Resolve(u) PROVE act'[a] = act[a] \/ (a \in Reviewers /\ Resolve(a))
  BY <1>0, <1>6, IdleRow DEF Resolve
<1>7. ASSUME NEW b \in Actors, Repoint(b) \/ MoveBody(b) \/ Tombstone(b)
      PROVE  act'[a] = act[a]
  BY <1>0, <1>7, TurnRow DEF Repoint, MoveBody, Tombstone, On, Classes
<1>8. ASSUME NEW b \in Actors, Fails(b) \/ Dies(b)
      PROVE  act'[a] = act[a] \/ act[a].from \in cut'
  BY <1>0, <1>8, IdleRow DEF Fails, Dies, Abandon
<1> QED
  BY <1>1, <1>2, <1>3, <1>4, <1>5, <1>6, <1>7, <1>8, ActChange

\* Where a tombstone comes from.
LEMMA MergedFrom ==
  ASSUME Shape, Next, NEW e \in Entities', entities'[e].merged # NoEntity
  PROVE  \/ /\ e \in Entities /\ entities'[e].merged = entities[e].merged
            /\ ~\E u \in Reviewers :
                 Delete(u) /\ (e \in Gone(u) \/ entities[e].merged \in Gone(u))
         \/ \E a \in Actors :
              /\ Tombstone(a) /\ e = act[a].from /\ entities'[e].merged = act[a].to
              /\ e \in Entities
<1>1. ASSUME NEW u \in Reviewers, Delete(u)
      PROVE  /\ e \in Entities /\ entities'[e].merged = entities[e].merged
             /\ e \notin Gone(u) /\ entities[e].merged \notin Gone(u)
  <2>1. e \in Entities
    BY <1>1, DeleteRows DEF Entities
  <2> QED
    BY <1>1, <2>1, DeleteRows
<1>2. ASSUME NEW a \in Actors, Tombstone(a)
      PROVE  /\ e \in Entities
             /\ \/ entities'[e].merged = entities[e].merged
                \/ e = act[a].from /\ entities'[e].merged = act[a].to
  <2>1. e \in Entities
    BY <1>2, TombstoneRows DEF Entities
  <2> QED
    BY <1>2, <2>1, TombstoneRows
<1>3. ASSUME NEW a \in Actors, MoveBody(a)
      PROVE  e \in Entities /\ entities'[e].merged = entities[e].merged
  <2>1. e \in Entities
    BY <1>3, BodyRows DEF Entities
  <2> QED
    BY <1>3, <2>1, BodyRows
<1>4. ASSUME NEW w \in Runs, Bump(w)
      PROVE  e \in Entities /\ entities'[e].merged = entities[e].merged
  <2>1. e \in Entities
    BY <1>4, BumpRows DEF Entities
  <2> QED
    BY <1>4, <2>1, BumpRows
<1>5. ASSUME NEW w \in Runs, Create(w)
      PROVE  e \in Entities /\ entities'[e].merged = entities[e].merged
  <2>1. e \in Entities \/ e = Len(entities) + 1
    BY <1>5, CreateRows DEF Entities
  <2> QED
    BY <1>5, <2>1, CreateRows
<1>6. ASSUME UNCHANGED entities
      PROVE  e \in Entities /\ entities'[e].merged = entities[e].merged
  BY <1>6 DEF Entities
<1>7. /\ e \in Entities
      /\ \/ entities'[e].merged = entities[e].merged
         \/ \E a \in Actors :
              Tombstone(a) /\ e = act[a].from /\ entities'[e].merged = act[a].to
  BY <1>1, <1>2, <1>3, <1>4, <1>5, <1>6, EntitiesChange
<1>8. CASE \E u \in Reviewers : Delete(u) /\ (e \in Gone(u) \/ entities[e].merged \in Gone(u))
  BY <1>1, <1>8
<1>9. CASE ~\E u \in Reviewers : Delete(u) /\ (e \in Gone(u) \/ entities[e].merged \in Gone(u))
  BY <1>7, <1>9
<1> QED
  BY <1>8, <1>9

LEMMA LogKept ==
  ASSUME OneReviewer, RowsInv, DecisionInv, Twins, LogInv, Next
  PROVE  LogInv'
<1>0. Shape /\ ActShape /\ IsABag(reviews)
  BY DEF RowsInv, GraphInv, Shape, ReviewRows
<1>c. cut \subseteq cut'
  BY DEF Next, Start, Exact, Recall, Bump, LogMatch, Create, Propose, Write, RunFails,
         Load, Block, JudgeSame, JudgeApart, LogMerge, FlagStrays, Decide, Select,
         Delete, Resolve, Repoint, MoveBody, Tombstone, Fails, Dies, Abandon, history
<1> SUFFICES ASSUME NEW e \in Entities' \ cut', entities'[e].merged # NoEntity
             PROVE  \/ \E a \in Actors : AboutToLog(a, e, entities[e].merged)'
                    \/ OnRecord(e, entities[e].merged)'
  BY DEF LogInv
<1>1. CASE \E a \in Actors : /\ Tombstone(a) /\ e = act[a].from
                             /\ entities'[e].merged = act[a].to
  <2>1. PICK a \in Actors : /\ Tombstone(a) /\ e = act[a].from
                            /\ entities'[e].merged = act[a].to
    BY <1>1
  <2>2. act'[a].step \in {"log", "resolve"} /\ act'[a].from = e
          /\ act'[a].to = entities'[e].merged
    BY <1>0, <2>1, TurnRow DEF Tombstone
  <2> QED
    BY <2>2 DEF AboutToLog
<1>2. CASE /\ e \in Entities /\ entities'[e].merged = entities[e].merged
           /\ ~\E u \in Reviewers :
                Delete(u) /\ (e \in Gone(u) \/ entities[e].merged \in Gone(u))
  <2> DEFINE f == entities[e].merged
  <2>0. f # NoEntity /\ e # NoEntity /\ e \in Entities \ cut
    BY <1>c, <1>2 DEF Entities, NoEntity
  <2>1. ASSUME NEW a \in Actors, AboutToLog(a, e, f)
        PROVE  (\E b \in Actors : act'[b].from = e /\ act'[b].to = f
                                 /\ act'[b].step \in {"log", "resolve"})
               \/ (\E r \in DOMAIN reviews' :
                     r.source = e /\ r.target = f /\ r.status = "accepted")
    <3>1. CASE act'[a] = act[a]
      BY <2>1, <3>1 DEF AboutToLog
    <3>2. CASE a \in Reviewers /\ Resolve(a)
      <4>1. act[a].step = "resolve" /\ act[a].from # NoEntity
        BY <2>0, <2>1, <3>2 DEF AboutToLog, Resolve, On
      <4>2. act[a].accept /\ act[a].review.source = e /\ act[a].review.target = f
        BY <2>1, <3>2, <4>1 DEF DecisionInv, AboutToLog
      <4>3. PICK r \in RowsOf(a), s \in ReviewRow :
              /\ s.status = (IF act[a].accept THEN "accepted" ELSE "rejected")
              /\ s.source = r.source /\ s.target = r.target
              /\ Settled(r, s)
        BY <1>0, <3>2, ResolveRow
      <4>4. r.source = act[a].review.source /\ r.target = act[a].review.target
        <5>1. r \in ReviewRow /\ [r EXCEPT !.status = "pending"] = act[a].review
          BY <1>0 DEF RowsOf, Shape
        <5> QED
          BY <5>1 DEF ReviewRow
      <4> QED
        BY <4>2, <4>3, <4>4 DEF Settled
    <3>3. CASE a = Pass /\ LogMerge
      <4>1. PICK r : File(r) /\ r = Review(e, f, "accepted", Pass)
        BY <2>1, <3>3 DEF LogMerge, AboutToLog
      <4>2. r \in DOMAIN reviews'
        BY <1>0, <4>1, FileRow
      <4> QED
        BY <4>1, <4>2 DEF Review
    <3>4. CASE act[a].from \in cut'
      BY <2>1, <3>4 DEF AboutToLog
    <3> QED
      BY <1>0, <2>1, <3>1, <3>2, <3>3, <3>4, LogsOrEnds DEF AboutToLog
  <2>2. ASSUME NEW r \in DOMAIN reviews, r.source = e, r.target = f, r.status = "accepted"
        PROVE  r \in DOMAIN reviews'
    <3>1. ASSUME NEW u \in Reviewers, Resolve(u), r \in RowsOf(u)
          PROVE  FALSE
      <4>1. r \in ReviewRow /\ [r EXCEPT !.status = "pending"] = act[u].review
        BY <1>0, <3>1 DEF RowsOf, Shape
      <4>2. /\ act[u].review.kind = r.kind /\ act[u].review.source = e
            /\ act[u].review.status = "pending" /\ act[u].step # "idle"
        BY <2>2, <3>1, <4>1 DEF ReviewRow, Resolve, On
      <4>3. r.kind = "merge"
        BY <2>0, <2>2, <4>1 DEF RowsInv, ReviewRows, ReviewRow
      <4>4. act[u].review \in DOMAIN reviews
        BY <2>0, <4>2, <4>3 DEF DecisionInv
      <4>5. [act[u].review EXCEPT !.status = "pending"] = act[u].review
        BY <4>1 DEF ReviewRow
      <4>6. r = act[u].review
        BY <2>0, <2>2, <4>1, <4>3, <4>4, <4>5 DEF Twins
      <4> QED
        BY <2>2, <4>2, <4>6
    <3>2. ~\E u \in Reviewers : Delete(u) /\ (r.source \in Gone(u) \/ r.target \in Gone(u))
      BY <1>2, <2>2
    <3> QED
      BY <3>1, <3>2, RowStays
  <2>3. (\E a \in Actors : AboutToLog(a, e, f)) \/ OnRecord(e, f)
    BY <2>0 DEF LogInv
  <2> QED
    BY <1>2, <2>1, <2>2, <2>3 DEF OnRecord, AboutToLog
<1> QED
  BY <1>0, <1>1, <1>2, MergedFrom

\* "every merge is visible in Review history", for any graph and runs and one
\* reviewer at a time: a merge has its accepted review, unless its process
\* ended before it could file it, or is about to.
THEOREM MergesAreOnRecord ==
  ASSUME OneReviewer
  PROVE  Spec => []MergesLogged
<1> DEFINE Inv == RowsInv /\ AskInv /\ ProposeInv /\ DecisionInv /\ LogInv
<1>1. Init => Inv
  <2> SUFFICES ASSUME Init PROVE Inv
    OBVIOUS
  <2>1. /\ DOMAIN reviews = {} /\ \A w \in Runs : run[w].step = "idle"
        /\ pairs = {} /\ \A a \in Actors : act[a].step = "idle"
    BY DEF Init, EmptyBag, SetToBag, Idle, NoRun
  <2>2. "idle" \notin MergeOrLog /\ "idle" \notin MergeSteps
    BY DEF MergeOrLog, MergeSteps, Classes
  <2>3. AskInv
    BY <2>1, <2>2 DEF AskInv, AskedOnce, Actors
  <2>4. ProposeInv
    BY <2>1 DEF ProposeInv, RunAt
  <2>5. DecisionInv
    BY <2>1, <2>2 DEF DecisionInv, Actors
  <2>6. LogInv
    <3>1. Len(SeedKeys) \in Nat /\ DOMAIN SeedKeys = 1..Len(SeedKeys)
      BY GraphAssumption DEF GraphAssumption
    <3> QED
      BY <3>1 DEF Init, LogInv, Entities
  <2> QED
    BY <2>3, <2>4, <2>5, <2>6, InitRows
<1>2. Inv /\ [Next]_vars => Inv'
  <2> SUFFICES ASSUME Inv, [Next]_vars PROVE Inv'
    OBVIOUS
  <2>1. RowsInv'
    BY RowsStep
  <2>2. CASE UNCHANGED vars
    <3>1. AskInv'
      BY <2>2 DEF vars, AskInv, AskedOnce, PassReviewed
    <3>2. ProposeInv'
      BY <2>2 DEF vars, ProposeInv, RunAt
    <3>3. DecisionInv'
      BY <2>2 DEF vars, DecisionInv
    <3>4. LogInv'
      BY <2>2 DEF vars, LogInv, AboutToLog, OnRecord, Entities
    <3> QED
      BY <2>1, <3>1, <3>2, <3>3, <3>4
  <2>3. CASE Next
    <3>1. Twins
      BY TwinsAreOne DEF AskInv
    <3>2. AskInv' /\ ProposeInv' /\ DecisionInv' /\ LogInv'
      BY <2>3, <3>1, AskKept, ProposeKept, DecisionKept, LogKept
    <3> QED
      BY <2>1, <3>2
  <2> QED
    BY <2>2, <2>3
<1>3. Inv => MergesLogged
  BY DEF LogInv, MergesLogged, AboutToLog, OnRecord
<1> HIDE DEF Inv
<1> QED
  BY <1>1, <1>2, <1>3, PTL DEF Spec
==============================================================================
