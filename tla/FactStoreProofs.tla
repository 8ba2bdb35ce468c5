---------------------------- MODULE FactStoreProofs ----------------------------
(***************************************************************************)
(* What upsertFact and the decisions promise about a slot, for any items,  *)
(* claims, runs, reviewers and margins and over histories of any length:   *)
(* it keeps its value, what is replaced is on file, what is superseded is  *)
(* retired, and the supersession guard holds.                              *)
(***************************************************************************)
EXTENDS FactStore, TLAPS

FactRow == [claim : Claims, item : Items \cup {NoOne}, current : BOOLEAN,
            next : Nat, gone : BOOLEAN]
ReviewRow == [kind : {"conflict", "extraction"}, old : Nat, new : Nat,
              held : BOOLEAN, item : Items \cup {NoOne},
              status : {"pending", "accepted", "rejected"}]
RunRow == [step : RunStep, item : Items \cup {NoOne}, claim : Claims,
           seen : Nat, target : Nat, held : BOOLEAN]
DecisionRow == [step : ReviewStep, review : Nat, accept : BOOLEAN,
                r : ReviewRow, rows : SUBSET Nat]

Shapes ==
  /\ facts \in Seq(FactRow)
  /\ reviews \in Seq(ReviewRow)
  /\ run \in [Runs -> RunRow]
  /\ reviewer \in [Reviewers -> DecisionRow]
  /\ gap \in BOOLEAN

Valuable(f) == f \in Rows /\ facts[f].claim # Empty

\* What a run remembers is true when it uses it.
RunOk(w) ==
  /\ run[w].seen \in Rows \cup {NoRow} /\ run[w].target \in Rows \cup {NoRow}
  /\ ~At(w, "idle") => run[w].claim # Empty /\ run[w].item \in Items
  /\ run[w].step \in {"guard", "hold"} => Valuable(run[w].seen)
  /\ At(w, "retire") => run[w].seen \in Rows
  /\ run[w].step \in {"retire", "insert", "link"} /\ run[w].seen # NoRow =>
       run[w].claim.conf + Margin >= facts[run[w].seen].claim.conf
  /\ At(w, "link") =>
       /\ run[w].seen \in Rows /\ run[w].seen # run[w].target
       /\ run[w].target \in Rows /\ facts[run[w].target].claim = run[w].claim
  /\ run[w].step \in {"source", "file"} => Valuable(run[w].target)
  /\ At(w, "file") => Valuable(run[w].seen)
  /\ run[w].held => run[w].step \in {"source", "file", "fill", "close"}
  /\ run[w].held /\ At(w, "source") =>
       Valuable(run[w].seen) /\ run[w].seen # run[w].target

\* A review names values, or nothing.
ReviewOk(k) ==
  /\ reviews[k].item \in Items
  /\ \A f \in {reviews[k].old, reviews[k].new} :
       f # NoRow => f \in Live /\ facts[f].claim # Empty

\* A decision read a review that still names the rows it read, if they live.
DecisionOk(u) ==
  /\ ~On(u, "idle") => reviewer[u].review \in DOMAIN reviews
  /\ reviewer[u].step \in {"apply", "reapply", "withdraw", "restore"} =>
       /\ Valuable(Read(u).old) /\ Valuable(Read(u).new)
       /\ Read(u).old \in Live => reviews[reviewer[u].review].old = Read(u).old
       /\ Read(u).new \in Live => reviews[reviewer[u].review].new = Read(u).new
  /\ On(u, "apply") => reviews[reviewer[u].review].held

Bounds ==
  /\ \A f \in Rows : facts[f].next \in Rows \cup {NoRow}
  /\ sources \subseteq Live \X Items
  /\ starts \in 0..MaxStarts /\ decisions \in 0..MaxDecisions
  /\ deaths \in 0..MaxDeaths
  /\ unfiled \subseteq Rows /\ crossed \subseteq Rows

\* A row a run is about to link is retired, unless it was crossed.
LinksAreSafe ==
  \A w \in Runs : At(w, "link") => run[w].seen \notin Current \ crossed

Reviewed(f) ==
  \E k \in DOMAIN reviews : f \in {reviews[k].old, reviews[k].new}

\* Run w has replaced row f, or recorded it as held, and will file it.
InHand(w, f) ==
  \/ /\ ~run[w].held /\ run[w].seen = f
     /\ \/ run[w].step \in {"insert", "link"}
        \/ run[w].step \in {"source", "file"} /\ run[w].target # f
  \/ run[w].held /\ run[w].target = f /\ run[w].step \in {"source", "file"}

Filed(f) ==
  facts[f].claim = Empty \/ Reviewed(f) \/ \E w \in Runs : InHand(w, f)

ReplacedIsFiled == \A f \in Live \ (Current \cup unfiled) : Filed(f)

Replacing(w) == At(w, "insert") /\ run[w].seen # NoRow
Turning(u) == reviewer[u].step \in {"reapply", "restore"}

\* While a slot has no value, someone is about to write one.
ValueIsComing ==
  \/ gap \/ Valued
  \/ \E w \in Runs : Replacing(w)
  \/ \E u \in Reviewers : Turning(u)
  \/ \A f \in Rows : facts[f].claim = Empty

Reads ==
  /\ \A w \in Runs : RunOk(w)
  /\ \A k \in DOMAIN reviews : ReviewOk(k)
  /\ \A u \in Reviewers : DecisionOk(u)

FactInv ==
  /\ Shapes /\ Bounds /\ Reads
  /\ SupersededIsRetired /\ LinksAreSafe
  /\ GuardHolds /\ ReplacedIsFiled /\ ValueIsComing

-----------------------------------------------------------------------------
\* Rows of the tables, and the two ways the tables change.

LEMMA RowsAreShaped ==
  /\ Empty \in Claims /\ Empty.conf = 0
  /\ NoRun \in RunRow /\ NoDecision \in DecisionRow /\ NoReview \in ReviewRow
  <1>1. Empty \in Claims /\ Empty.conf = 0
    BY DEF Empty, Claims
  <1>2. NoRun \in RunRow
    BY <1>1 DEF NoRun, RunRow, RunStep, NoRow
  <1>3. NoReview \in ReviewRow
    BY DEF NoReview, ReviewRow, NoRow
  <1>4. NoDecision \in DecisionRow
    BY <1>3 DEF NoDecision, DecisionRow, ReviewStep
  <1> QED
    BY <1>1, <1>2, <1>3, <1>4

LEMMA Confidences == \A c \in Claims : c.conf \in Nat
  BY FactAssumption DEF Claims, Empty

LEMMA RowsOfFacts ==
  ASSUME facts \in Seq(FactRow)
  PROVE  /\ Len(facts) \in Nat
         /\ facts \in [Rows -> FactRow]
         /\ \A f \in Rows : f \in Nat /\ f # NoRow /\ facts[f] \in FactRow
  BY DEF Rows, NoRow

\* insert into facts.
LEMMA RowAdded ==
  ASSUME facts \in Seq(FactRow), NEW r \in FactRow, facts' = Append(facts, r)
  PROVE  /\ facts' \in Seq(FactRow)
         /\ Len(facts) + 1 \notin Rows /\ Len(facts) + 1 # NoRow
         /\ Rows' = Rows \cup {Len(facts) + 1}
         /\ \A f \in Rows : facts'[f] = facts[f]
         /\ facts'[Len(facts) + 1] = r
  BY DEF Rows, NoRow

\* update or delete.
LEMMA RowsKept ==
  ASSUME facts \in Seq(FactRow), facts' \in [Rows -> FactRow]
  PROVE  facts' \in Seq(FactRow) /\ Rows' = Rows
  <1>1. Len(facts) \in Nat /\ Rows = 1..Len(facts)
    BY DEF Rows
  <1>2. facts' \in Seq(FactRow) /\ Len(facts') = Len(facts)
    BY <1>1
  <1> QED
    BY <1>1, <1>2 DEF Rows

LEMMA ReviewAdded ==
  ASSUME reviews \in Seq(ReviewRow), NEW r \in ReviewRow,
         reviews' = Append(reviews, r)
  PROVE  /\ reviews' \in Seq(ReviewRow)
         /\ DOMAIN reviews' = DOMAIN reviews \cup {Len(reviews) + 1}
         /\ Len(reviews) + 1 \notin DOMAIN reviews
         /\ \A k \in DOMAIN reviews : reviews'[k] = reviews[k]
         /\ reviews'[Len(reviews) + 1] = r
  OBVIOUS

LEMMA ReviewsKept ==
  ASSUME reviews \in Seq(ReviewRow), reviews' \in [DOMAIN reviews -> ReviewRow]
  PROVE  reviews' \in Seq(ReviewRow) /\ DOMAIN reviews' = DOMAIN reviews
  <1>1. Len(reviews) \in Nat /\ DOMAIN reviews = 1..Len(reviews)
    OBVIOUS
  <1> QED
    BY <1>1

-----------------------------------------------------------------------------
\* Steps that touch neither facts nor reviews.

LEMMA RunMoves ==
  ASSUME FactInv, NEW w \in Runs, NEW r \in RunRow, run' = [run EXCEPT ![w] = r],
         RunOk(w)', ~Replacing(w), r.step # "link",
         \A f \in Live : InHand(w, f) =>
           facts[f].claim = Empty \/ Reviewed(f) \/ InHand(w, f)',
         sources' \subseteq Live \X Items, starts' \in 0..MaxStarts,
         UNCHANGED <<facts, reviews, reviewer, decisions, deaths, ghosts>>
  PROVE  FactInv'
  <1> USE DEF ghosts
  <1>1. run'[w] = r /\ \A v \in Runs \ {w} : run'[v] = run[v]
    BY DEF FactInv, Shapes
  <1>2. Shapes'
    BY DEF FactInv, Shapes
  <1>3. UNCHANGED <<Rows, Live, Current, Valued>>
    BY DEF Rows, Live, Current, Valued
  <1>4. Bounds'
    BY <1>3 DEF FactInv, Bounds
  <1>5. ASSUME NEW v \in Runs  PROVE RunOk(v)'
    <2>1. CASE v = w
      BY <2>1
    <2>2. CASE v # w
      BY <1>1, <1>3, <2>2 DEF FactInv, Reads, RunOk, At, Valuable
    <2> QED
      BY <2>1, <2>2
  <1>6. Reads'
    BY <1>3, <1>5 DEF FactInv, Reads, ReviewOk, DecisionOk, On, Read, Valuable
  <1>7. SupersededIsRetired' /\ GuardHolds'
    BY <1>3 DEF FactInv, SupersededIsRetired, GuardHolds
  <1>8. LinksAreSafe'
    BY <1>1, <1>3 DEF FactInv, LinksAreSafe, At
  <1>9. ASSUME NEW f \in Live \ (Current \cup unfiled)  PROVE Filed(f)'
    <2>1. Reviewed(f) => Reviewed(f)'
      BY DEF Reviewed
    <2>2. \A v \in Runs \ {w} : InHand(v, f) => InHand(v, f)'
      BY <1>1 DEF InHand
    <2> QED
      BY <2>1, <2>2 DEF FactInv, ReplacedIsFiled, Filed
  <1>10. ReplacedIsFiled'
    BY <1>3, <1>9 DEF ReplacedIsFiled
  <1>11. ValueIsComing'
    BY <1>1, <1>3 DEF FactInv, ValueIsComing, Replacing, Turning, At
  <1> QED
    BY <1>2, <1>4, <1>6, <1>7, <1>8, <1>10, <1>11 DEF FactInv

LEMMA StartStep ==
  ASSUME FactInv, NEW w \in Runs, Start(w)
  PROVE  FactInv'
  <1>1. PICK i \in Items : \E c \in ClaimsOf[i] :
          /\ At(w, "idle") /\ starts < MaxStarts
          /\ run' = [run EXCEPT ![w] = [NoRun EXCEPT !.step = "look", !.item = i,
                                                     !.claim = c]]
          /\ starts' = starts + 1
          /\ UNCHANGED <<tables, reviewer, decisions, deaths, ghosts>>
    BY DEF Start
  <1>2. PICK c \in ClaimsOf[i] :
          /\ At(w, "idle") /\ starts < MaxStarts
          /\ run' = [run EXCEPT ![w] = [NoRun EXCEPT !.step = "look", !.item = i,
                                                     !.claim = c]]
          /\ starts' = starts + 1
          /\ UNCHANGED <<tables, reviewer, decisions, deaths, ghosts>>
    BY <1>1
  <1> DEFINE r == [NoRun EXCEPT !.step = "look", !.item = i, !.claim = c]
  <1>3. c \in Claims /\ c # Empty
    BY FactAssumption DEF Claims, Empty
  <1>4. /\ r.step = "look" /\ r.item = i /\ r.claim = c
        /\ r.seen = NoRow /\ r.target = NoRow /\ r.held = FALSE
    BY DEF NoRun
  <1>5. r \in RunRow
    BY <1>3, RowsAreShaped DEF RunRow, RunStep
  <1>6. run'[w] = r
    BY <1>2 DEF FactInv, Shapes
  <1>7. RunOk(w)'
    BY <1>3, <1>4, <1>6 DEF RunOk, At
  <1>8. ~Replacing(w) /\ \A f \in Live : ~InHand(w, f)
    BY <1>2 DEF FactInv, Reads, RunOk, Replacing, InHand, At
  <1>9. starts' \in 0..MaxStarts /\ sources' \subseteq Live \X Items
    BY <1>2, FactAssumption DEF FactInv, Bounds, tables
  <1> HIDE DEF r
  <1> QED
    BY <1>2, <1>4, <1>5, <1>7, <1>8, <1>9, RunMoves DEF r, tables

LEMMA LookStep ==
  ASSUME FactInv, NEW w \in Runs, Look(w)
  PROVE  FactInv'
  <1>1. PICK f \in IF Current = {} THEN {NoRow} ELSE Current :
          run' = [run EXCEPT ![w].seen = f, ![w].target = f,
                             ![w].step = AfterLook(w, f)]
    BY DEF Look
  <1> DEFINE r == [run[w] EXCEPT !.seen = f, !.target = f,
                                 !.step = AfterLook(w, f)]
  <1>2. /\ At(w, "look") /\ run[w] \in RunRow /\ ~run[w].held
        /\ run[w].claim # Empty /\ run[w].item \in Items
    BY DEF Look, FactInv, Shapes, Reads, RunOk, At
  <1>3. f \in Rows \cup {NoRow} /\ f \in Nat
    BY <1>1, RowsOfFacts DEF FactInv, Shapes, Current, Live, NoRow
  <1>4. AfterLook(w, f) \in {"insert", "source", "retire", "guard"}
    BY DEF AfterLook
  <1>5. r \in RunRow
    BY <1>2, <1>3, <1>4 DEF RunRow, RunStep
  <1>6. /\ run' = [run EXCEPT ![w] = r] /\ run'[w] = r
        /\ r.seen = f /\ r.target = f /\ r.step = AfterLook(w, f)
        /\ r.claim = run[w].claim /\ r.item = run[w].item /\ ~r.held
    BY <1>1, <1>2 DEF FactInv, Shapes, RunRow
  <1>7. UNCHANGED <<facts, Rows>>
    BY DEF Look, tables, Rows
  <1>8. f # NoRow => facts[f].claim.conf \in Nat /\ facts[f].claim \in Claims
    BY <1>3, RowsOfFacts, Confidences DEF FactInv, Shapes, FactRow
  <1>9. run[w].claim.conf \in Nat /\ run[w].claim \in Claims
    BY <1>2, Confidences DEF RunRow
  <1>10. /\ r.step = "insert" <=> f = NoRow
         /\ r.step = "retire" => facts[f].claim = Empty
         /\ r.step = "guard" => facts[f].claim # Empty
         /\ r.step = "source" => facts[f].claim.value = run[w].claim.value
    BY <1>6 DEF AfterLook
  <1>11. run[w].claim.value # Empty.value
    BY <1>2, <1>9, FactAssumption DEF Claims
  <1> HIDE DEF r
  <1>12. RunOk(w)'
    <2>1. r.step = "source" => Valuable(f)
      BY <1>3, <1>10, <1>11 DEF Valuable
    <2>2. r.step = "guard" => Valuable(f)
      BY <1>3, <1>10 DEF Valuable
    <2>3. r.step = "retire" =>
            f \in Rows /\ run[w].claim.conf + Margin >= facts[f].claim.conf
      BY <1>3, <1>9, <1>10, RowsAreShaped, FactAssumption
    <2>4. r.step \in {"insert", "source", "retire", "guard"}
      BY <1>4, <1>6
    <2>5. UNCHANGED <<facts, Rows>> /\ \A g : Valuable(g)' <=> Valuable(g)
      BY <1>7 DEF Valuable
    <2> QED
      BY <1>2, <1>3, <1>6, <1>10, <2>1, <2>2, <2>3, <2>4, <2>5 DEF RunOk, At
  <1>13. ~Replacing(w) /\ r.step # "link" /\ \A g \in Live : ~InHand(w, g)
    BY <1>2, <1>4, <1>6 DEF Replacing, InHand, At
  <1>14. starts' \in 0..MaxStarts /\ sources' \subseteq Live \X Items
    BY DEF FactInv, Bounds, Look, tables, counters
  <1> QED
    BY <1>5, <1>6, <1>12, <1>13, <1>14, RunMoves DEF Look, tables, counters

\* A run that moves on without having read anything new.
LEMMA GoesOn ==
  ASSUME FactInv, NEW w \in Runs, NEW s \in RunStep, Go(w, s)
  PROVE  LET r == [run[w] EXCEPT !.step = s] IN
           /\ r \in RunRow
           /\ run' = [run EXCEPT ![w] = r] /\ run'[w] = r
           /\ r.seen = run[w].seen /\ r.target = run[w].target /\ r.step = s
           /\ r.claim = run[w].claim /\ r.item = run[w].item
           /\ r.held = run[w].held
  BY DEF FactInv, Shapes, RunRow, Go

LEMMA GuardStep ==
  ASSUME FactInv, NEW w \in Runs, Guard(w)
  PROVE  FactInv'
  <1> DEFINE s == IF Weaker(run[w].claim, run[w].seen) THEN "hold" ELSE "retire"
             r == [run[w] EXCEPT !.step = s]
  <1>1. s \in RunStep /\ s \in {"hold", "retire"} /\ Go(w, s)
    BY DEF Guard, RunStep
  <1>2. /\ r \in RunRow /\ run' = [run EXCEPT ![w] = r] /\ run'[w] = r
        /\ r.seen = run[w].seen /\ r.target = run[w].target /\ r.step = s
        /\ r.claim = run[w].claim /\ r.item = run[w].item /\ r.held = run[w].held
    BY <1>1, GoesOn
  <1>3. /\ At(w, "guard") /\ run[w] \in RunRow /\ ~run[w].held
        /\ run[w].claim # Empty /\ run[w].item \in Items /\ Valuable(run[w].seen)
        /\ run[w].target \in Rows \cup {NoRow}
    BY DEF Guard, FactInv, Shapes, Reads, RunOk, At
  <1>4. /\ facts[run[w].seen].claim.conf \in Nat /\ run[w].claim.conf \in Nat
        /\ Margin \in Nat
    BY <1>3, RowsOfFacts, Confidences, FactAssumption
    DEF FactInv, Shapes, FactRow, RunRow, Valuable
  <1>5. s = "retire" =>
          run[w].claim.conf + Margin >= facts[run[w].seen].claim.conf
    BY <1>4 DEF Weaker
  <1>6. UNCHANGED <<facts, Rows>>
    BY DEF Guard, tables, Rows
  <1> HIDE DEF s, r
  <1>7. RunOk(w)'
    BY <1>1, <1>2, <1>3, <1>5, <1>6 DEF RunOk, At, Valuable
  <1>8. ~Replacing(w) /\ r.step # "link" /\ \A g \in Live : ~InHand(w, g)
    BY <1>1, <1>2, <1>3 DEF Replacing, InHand, At
  <1>9. starts' \in 0..MaxStarts /\ sources' \subseteq Live \X Items
    BY DEF FactInv, Bounds, Guard, tables, counters
  <1> QED
    BY <1>2, <1>7, <1>8, <1>9, RunMoves DEF Guard, tables, counters

LEMMA SourceStep ==
  ASSUME FactInv, NEW w \in Runs, Source(w)
  PROVE  FactInv'
  <1> DEFINE s == IF Contradicts(w) THEN "file" ELSE "fill"
             r == [run[w] EXCEPT !.step = s]
  <1>1. s \in RunStep /\ s \in {"file", "fill"} /\ Go(w, s)
    BY DEF Source, RunStep
  <1>2. /\ r \in RunRow /\ run' = [run EXCEPT ![w] = r] /\ run'[w] = r
        /\ r.seen = run[w].seen /\ r.target = run[w].target /\ r.step = s
        /\ r.claim = run[w].claim /\ r.item = run[w].item /\ r.held = run[w].held
    BY <1>1, GoesOn
  <1>3. /\ At(w, "source") /\ run[w] \in RunRow
        /\ run[w].claim # Empty /\ run[w].item \in Items /\ Valuable(run[w].target)
        /\ run[w].seen \in Rows \cup {NoRow}
        /\ run[w].held => Valuable(run[w].seen) /\ run[w].seen # run[w].target
    BY DEF Source, FactInv, Shapes, Reads, RunOk, At
  <1>4. \A f \in Rows : f # NoRow
    BY RowsOfFacts DEF FactInv, Shapes
  <1>5. UNCHANGED <<facts, Rows>>
    BY DEF Source, Rows
  <1>6. /\ s = "file" => Valuable(run[w].seen)
        /\ s = "fill" => run[w].seen = run[w].target
                           \/ run[w].seen = NoRow
                           \/ facts[run[w].seen].claim = Empty
    BY <1>3 DEF Contradicts, Valuable
  <1> HIDE DEF s, r
  <1>7. RunOk(w)'
    BY <1>1, <1>2, <1>3, <1>5, <1>6 DEF RunOk, At, Valuable
  <1>8. ~Replacing(w) /\ r.step # "link"
    BY <1>1, <1>2, <1>3 DEF Replacing, At
  <1>9. ASSUME NEW g \in Live, InHand(w, g)
        PROVE  facts[g].claim = Empty \/ InHand(w, g)'
    <2>1. g \in Rows
      BY DEF Live
    <2>2. s = "fill" => facts[g].claim = Empty
      BY <1>3, <1>4, <1>6, <1>9, <2>1 DEF InHand, At, Valuable
    <2>3. s = "file" => InHand(w, g)'
      BY <1>2, <1>3, <1>9 DEF InHand, At
    <2> QED
      BY <1>1, <2>2, <2>3
  <1>10. starts' \in 0..MaxStarts /\ sources' \subseteq Live \X Items
    BY <1>3 DEF FactInv, Bounds, Source, counters, Live, Valuable
  <1> QED
    BY <1>2, <1>7, <1>8, <1>9, <1>10, RunMoves DEF Source, counters

\* A run that ends early: what it had in hand is unfiled from then on.
LEMMA AbandonStep ==
  ASSUME FactInv, NEW w \in Runs, Abandon(w), deaths' \in 0..MaxDeaths
  PROVE  FactInv'
  <1>1. run'[w] = NoRun /\ \A v \in Runs \ {w} : run'[v] = run[v]
    BY DEF FactInv, Shapes, Abandon
  <1>2. Shapes'
    BY RowsAreShaped DEF FactInv, Shapes, Abandon, tables
  <1>3. UNCHANGED <<Rows, Live, Current, Valued>>
    BY DEF Abandon, tables, Rows, Live, Current, Valued
  <1>4. Bounds'
    BY <1>3 DEF FactInv, Bounds, Abandon, tables, Unfiled
  <1>5. ASSUME NEW v \in Runs  PROVE RunOk(v)'
    <2>1. CASE v = w
      BY <1>1, <2>1 DEF RunOk, At, NoRun
    <2>2. CASE v # w
      BY <1>1, <1>3, <2>2 DEF FactInv, Reads, RunOk, At, Valuable, Abandon, tables
    <2> QED
      BY <2>1, <2>2
  <1>6. Reads'
    BY <1>3, <1>5
    DEF FactInv, Reads, ReviewOk, DecisionOk, On, Read, Valuable, Abandon, tables
  <1>7. SupersededIsRetired' /\ GuardHolds'
    BY <1>3 DEF FactInv, SupersededIsRetired, GuardHolds, Abandon, tables
  <1>8. LinksAreSafe'
    BY <1>1, <1>3 DEF FactInv, LinksAreSafe, At, NoRun, Abandon, tables
  <1>9. ASSUME NEW f \in Live \ (Current \cup unfiled'), Filed(f)  PROVE Filed(f)'
    <2>1. Reviewed(f) => Reviewed(f)'
      BY DEF Reviewed, Abandon, tables
    <2>2. \A v \in Runs \ {w} : InHand(v, f) => InHand(v, f)'
      BY <1>1 DEF InHand
    <2>3. ~InHand(w, f)
      BY DEF InHand, Unfiled, Abandon, Live
    <2> QED
      BY <1>9, <2>1, <2>2, <2>3 DEF Filed, Abandon, tables
  <1>10. ReplacedIsFiled'
    BY <1>3, <1>9 DEF FactInv, ReplacedIsFiled, Abandon
  <1>11. ValueIsComing'
    BY <1>1, <1>3
    DEF FactInv, ValueIsComing, Replacing, Turning, At, Abandon, tables
  <1> QED
    BY <1>2, <1>4, <1>6, <1>7, <1>8, <1>10, <1>11 DEF FactInv

LEMMA RunFailsStep ==
  ASSUME FactInv, NEW w \in Runs, RunFails(w)
  PROVE  FactInv'
  BY AbandonStep DEF RunFails, FactInv, Bounds

LEMMA RunDiesStep ==
  ASSUME FactInv, NEW w \in Runs, RunDies(w)
  PROVE  FactInv'
  <1>1. deaths' \in 0..MaxDeaths
    BY FactAssumption DEF FactInv, Bounds, RunDies
  <1> QED
    BY <1>1, AbandonStep DEF RunDies

LEMMA ReviewerMoves ==
  ASSUME FactInv, NEW u \in Reviewers, NEW r \in DecisionRow,
         reviewer' = [reviewer EXCEPT ![u] = r], DecisionOk(u)',
         gap' \in BOOLEAN, gap => gap', Turning(u) => gap' \/ Valued,
         sources' \subseteq Live \X Items,
         decisions' \in 0..MaxDecisions, deaths' \in 0..MaxDeaths,
         UNCHANGED <<facts, reviews, run, starts, unfiled, crossed>>
  PROVE  FactInv'
  <1>1. reviewer'[u] = r /\ \A v \in Reviewers \ {u} : reviewer'[v] = reviewer[v]
    BY DEF FactInv, Shapes
  <1>2. Shapes'
    BY DEF FactInv, Shapes
  <1>3. UNCHANGED <<Rows, Live, Current, Valued>>
    BY DEF Rows, Live, Current, Valued
  <1>4. Bounds'
    BY <1>3 DEF FactInv, Bounds
  <1>5. ASSUME NEW v \in Reviewers  PROVE DecisionOk(v)'
    <2>1. CASE v = u
      BY <2>1
    <2>2. CASE v # u
      BY <1>1, <1>3, <2>2 DEF FactInv, Reads, DecisionOk, On, Read, Valuable
    <2> QED
      BY <2>1, <2>2
  <1>6. Reads'
    BY <1>3, <1>5 DEF FactInv, Reads, ReviewOk, RunOk, At, Valuable
  <1>7. SupersededIsRetired' /\ GuardHolds' /\ LinksAreSafe'
    BY <1>3 DEF FactInv, SupersededIsRetired, GuardHolds, LinksAreSafe, At
  <1>8. ReplacedIsFiled'
    BY <1>3 DEF FactInv, ReplacedIsFiled, Filed, Reviewed, InHand
  <1>9. ValueIsComing'
    BY <1>1, <1>3 DEF FactInv, ValueIsComing, Replacing, Turning, At
  <1> QED
    BY <1>2, <1>4, <1>6, <1>7, <1>8, <1>9 DEF FactInv

LEMMA DecideStep ==
  ASSUME FactInv, NEW u \in Reviewers, Decide(u)
  PROVE  FactInv'
  <1>1. PICK k \in DOMAIN reviews, accept \in BOOLEAN :
          reviewer' = [reviewer EXCEPT ![u] =
            [NoDecision EXCEPT !.step = FirstStep(reviews[k], accept),
                               !.review = k, !.accept = accept, !.r = reviews[k]]]
    BY DEF Decide
  <1> DEFINE s == FirstStep(reviews[k], accept)
             r == [NoDecision EXCEPT !.step = s, !.review = k,
                                     !.accept = accept, !.r = reviews[k]]
  <1>2. reviews[k] \in ReviewRow /\ k \in Nat
    BY DEF FactInv, Shapes
  <1>3. s \in {"apply", "withdraw", "unsource", "resolve"}
    BY DEF FirstStep
  <1>4. /\ s \in {"apply", "withdraw"} =>
             reviews[k].old # NoRow /\ reviews[k].new # NoRow
        /\ s = "apply" => reviews[k].held
    BY DEF FirstStep
  <1>5. r \in DecisionRow
    BY <1>2, <1>3, RowsAreShaped DEF DecisionRow, ReviewStep
  <1>6. /\ reviewer'[u] = r
        /\ r.step = s /\ r.review = k /\ r.r = reviews[k]
        /\ reviewer' = [reviewer EXCEPT ![u] = r]
    BY <1>1, RowsAreShaped DEF FactInv, Shapes, DecisionRow
  <1> HIDE DEF s, r
  <1>7. DecisionOk(u)'
    <2>1. UNCHANGED <<facts, reviews, Rows, Live>>
      BY DEF Decide, tables, Rows, Live
    <2>2. ReviewOk(k)
      BY DEF FactInv, Reads
    <2> QED
      BY <1>3, <1>4, <1>6, <2>1, <2>2 DEF DecisionOk, ReviewOk, On, Read, Valuable, Live
  <1>8. ~Turning(u)
    BY DEF Decide, On, Turning
  <1>9. decisions' \in 0..MaxDecisions
    BY FactAssumption DEF FactInv, Bounds, Decide
  <1>10. /\ gap' \in BOOLEAN /\ gap' = gap
         /\ sources' \subseteq Live \X Items /\ deaths' \in 0..MaxDeaths
    BY DEF FactInv, Shapes, Bounds, Decide, tables, ghosts
  <1> QED
    BY <1>5, <1>6, <1>7, <1>8, <1>9, <1>10, ReviewerMoves
    DEF Decide, tables, ghosts

\* A retraction goes on, with the rows it has collected.
LEMMA RetractionMoves ==
  ASSUME FactInv, NEW u \in Reviewers, NEW s \in {"select", "sieve", "delete"},
         NEW rows \in SUBSET Nat, ~On(u, "idle"), ~Turning(u),
         reviewer' = [reviewer EXCEPT ![u] =
                        [reviewer[u] EXCEPT !.step = s, !.rows = rows]],
         sources' \subseteq Live \X Items,
         UNCHANGED <<facts, reviews, run, counters, ghosts>>
  PROVE  FactInv'
  <1> DEFINE r == [reviewer[u] EXCEPT !.step = s, !.rows = rows]
  <1>1. s \in ReviewStep
    BY DEF ReviewStep
  <1>2. r \in DecisionRow /\ r.step = s /\ r.review = reviewer[u].review
    BY <1>1 DEF FactInv, Shapes, DecisionRow
  <1>3. reviewer'[u] = r
    BY DEF FactInv, Shapes
  <1> HIDE DEF r
  <1>4. DecisionOk(u)'
    BY <1>2, <1>3 DEF FactInv, Reads, DecisionOk, On
  <1> QED
    BY <1>2, <1>4, ReviewerMoves
    DEF FactInv, Shapes, Bounds, counters, ghosts, r

LEMMA UnsourceStep ==
  ASSUME FactInv, NEW u \in Reviewers, Unsource(u)
  PROVE  FactInv'
  <1>1. reviewer[u] \in DecisionRow
    BY DEF FactInv, Shapes
  <1>2. reviewer[u].rows \in SUBSET Nat
    BY <1>1 DEF DecisionRow
  <1>3. reviewer' = [reviewer EXCEPT ![u] =
          [reviewer[u] EXCEPT !.step = "select", !.rows = reviewer[u].rows]]
    BY <1>1 DEF Unsource, Turn, DecisionRow
  <1>4. sources' \subseteq Live \X Items
    BY DEF FactInv, Bounds, Unsource
  <1> QED
    BY <1>2, <1>3, <1>4, RetractionMoves DEF Unsource, On, Turning

LEMMA SelectStep ==
  ASSUME FactInv, NEW u \in Reviewers, SelectMine(u)
  PROVE  FactInv'
  <1> DEFINE rows == {f \in Live : facts[f].item = Read(u).item}
  <1>1. rows \in SUBSET Nat
    BY RowsOfFacts DEF FactInv, Shapes, Live
  <1>2. reviewer' = [reviewer EXCEPT ![u] =
                       [reviewer[u] EXCEPT !.step = "sieve", !.rows = rows]]
    BY DEF SelectMine, FactInv, Shapes, DecisionRow
  <1> HIDE DEF rows
  <1> QED
    BY <1>1, <1>2, RetractionMoves
    DEF SelectMine, On, Turning, tables, FactInv, Bounds

LEMMA SieveStep ==
  ASSUME FactInv, NEW u \in Reviewers, Sieve(u)
  PROVE  FactInv'
  <1> DEFINE rows == {f \in reviewer[u].rows : SourceCount(f) = 0}
  <1>1. reviewer[u] \in DecisionRow
    BY DEF FactInv, Shapes
  <1>2. rows \in SUBSET Nat
    BY <1>1 DEF DecisionRow
  <1>3. reviewer' = [reviewer EXCEPT ![u] =
                       [reviewer[u] EXCEPT !.step = "delete", !.rows = rows]]
    BY <1>1 DEF Sieve, DecisionRow, FactInv, Shapes
  <1> HIDE DEF rows
  <1> QED
    BY <1>2, <1>3, RetractionMoves
    DEF Sieve, On, Turning, tables, FactInv, Bounds

LEMMA LeaveStep ==
  ASSUME FactInv, NEW u \in Reviewers, Leave(u), deaths' \in 0..MaxDeaths
  PROVE  FactInv'
  <1>1. reviewer'[u] = NoDecision
    BY DEF FactInv, Shapes, Leave
  <1>2. DecisionOk(u)'
    BY <1>1 DEF DecisionOk, On, NoDecision
  <1>3. gap' \in BOOLEAN /\ (gap => gap') /\ (Turning(u) => gap' \/ Valued)
    BY DEF Leave, Turning, FactInv, Shapes
  <1> QED
    BY <1>2, <1>3, RowsAreShaped, ReviewerMoves
    DEF Leave, tables, FactInv, Bounds

LEMMA ReviewFailsStep ==
  ASSUME FactInv, NEW u \in Reviewers, ReviewFails(u)
  PROVE  FactInv'
  BY LeaveStep DEF ReviewFails, FactInv, Bounds

LEMMA ReviewDiesStep ==
  ASSUME FactInv, NEW u \in Reviewers, ReviewDies(u)
  PROVE  FactInv'
  <1>1. deaths' \in 0..MaxDeaths
    BY FactAssumption DEF FactInv, Bounds, ReviewDies
  <1> QED
    BY <1>1, LeaveStep DEF ReviewDies

-----------------------------------------------------------------------------
\* What others remember stays true: rows never vanish and claims never change.

LEMMA RunOkKept ==
  ASSUME NEW w \in Runs, RunOk(w), run'[w] = run[w], Rows \subseteq Rows',
         \A f \in Rows : facts'[f].claim = facts[f].claim
  PROVE  RunOk(w)'
  BY DEF RunOk, At, Valuable

LEMMA DecisionOkKept ==
  ASSUME NEW u \in Reviewers, DecisionOk(u), reviewer'[u] = reviewer[u],
         Rows \subseteq Rows',
         \A f \in Rows : /\ facts'[f].claim = facts[f].claim
                         /\ facts[f].gone => facts'[f].gone,
         DOMAIN reviews \subseteq DOMAIN reviews',
         \A k \in DOMAIN reviews :
           /\ reviews'[k].held = reviews[k].held
           /\ reviews[k].old \in Live' => reviews'[k].old = reviews[k].old
           /\ reviews[k].new \in Live' => reviews'[k].new = reviews[k].new
  PROVE  DecisionOk(u)'
  <1>1. \A f : Valuable(f) => Valuable(f)' /\ (f \in Live' => f \in Live)
    BY DEF Valuable, Live
  <1>2. CASE On(u, "idle")
    BY <1>2 DEF DecisionOk, On
  <1>3. CASE ~On(u, "idle")
    <2>1. reviewer[u].review \in DOMAIN reviews
      BY <1>3 DEF DecisionOk
    <2> QED
      BY <1>1, <1>3, <2>1 DEF DecisionOk, On, Read
  <1> QED
    BY <1>2, <1>3

\* A row is inserted and no review changes.
LEMMA AppendStep ==
  ASSUME FactInv, NEW r \in FactRow, r.next = NoRow, ~r.gone,
         facts' = Append(facts, r),
         UNCHANGED <<sources, reviews, reviewer, counters, unfiled, crossed>>
  PROVE  /\ facts' \in Seq(FactRow)
         /\ Len(facts) + 1 \notin Rows /\ Len(facts) + 1 # NoRow
         /\ Rows' = Rows \cup {Len(facts) + 1}
         /\ Live' = Live \cup {Len(facts) + 1}
         /\ Current' = Current \cup (IF r.current THEN {Len(facts) + 1} ELSE {})
         /\ \A f \in Rows : facts'[f] = facts[f]
         /\ facts'[Len(facts) + 1] = r
         /\ Bounds' /\ SupersededIsRetired' /\ GuardHolds'
         /\ \A k \in DOMAIN reviews' : ReviewOk(k)'
         /\ \A u \in Reviewers : DecisionOk(u)'
  <1> DEFINE n == Len(facts) + 1
  <1>1. /\ facts' \in Seq(FactRow)
        /\ n \notin Rows /\ n # NoRow /\ Rows' = Rows \cup {n}
        /\ \A f \in Rows : facts'[f] = facts[f]
        /\ facts'[n] = r
    BY RowAdded DEF FactInv, Shapes
  <1> HIDE DEF n
  <1>2. Live' = Live \cup {n}
    BY <1>1 DEF Live
  <1>3. Current' = Current \cup (IF r.current THEN {n} ELSE {})
    <2>1. Current' = {f \in Live' : facts'[f].current}
      BY DEF Current
    <2>2. \A f \in Live : facts'[f] = facts[f]
      BY <1>1 DEF Live
    <2> QED
      BY <1>1, <1>2, <2>1, <2>2 DEF Current
  <1>4. Bounds'
    BY <1>1, <1>2 DEF FactInv, Bounds, counters
  <1>5. SupersededIsRetired'
    BY <1>1, <1>3 DEF FactInv, SupersededIsRetired, Current, Live
  <1>6. GuardHolds'
    <2> SUFFICES ASSUME NEW f \in Live', facts'[f].next # NoRow
                 PROVE  LET g == facts'[f].next IN
                          \/ facts'[g].claim.conf + Margin >= facts'[f].claim.conf
                          \/ \E k \in DOMAIN reviews :
                               reviews[k].held /\ reviews[k].old = f /\ reviews[k].new = g
      BY DEF GuardHolds
    <2>1. f \in Live /\ facts'[f] = facts[f]
      BY <1>1, <1>2 DEF Live
    <2>2. facts[f].next \in Rows
      BY <2>1 DEF FactInv, Bounds, Live
    <2>3. LET g == facts[f].next IN
            /\ facts'[g] = facts[g]
            /\ \/ facts[g].claim.conf + Margin >= facts[f].claim.conf
               \/ \E k \in DOMAIN reviews :
                    reviews[k].held /\ reviews[k].old = f /\ reviews[k].new = g
      BY <1>1, <2>1, <2>2 DEF FactInv, GuardHolds
    <2> QED
      BY <2>1, <2>3
  <1>7. ASSUME NEW k \in DOMAIN reviews'  PROVE ReviewOk(k)'
    <2>1. k \in DOMAIN reviews /\ ReviewOk(k)
      BY DEF FactInv, Reads
    <2>2. \A f \in Live : f \in Live' /\ facts'[f] = facts[f]
      BY <1>1, <1>2 DEF Live
    <2> QED
      BY <2>1, <2>2 DEF ReviewOk
  <1>8. \A u \in Reviewers : DecisionOk(u)'
    BY <1>1, DecisionOkKept DEF FactInv, Reads
  <1> QED
    BY <1>1, <1>2, <1>3, <1>4, <1>5, <1>6, <1>7, <1>8 DEF n

LEMMA NewRowShaped ==
  ASSUME FactInv, NEW w \in Runs, NEW current \in BOOLEAN
  PROVE  LET r == NewRow(w, current) IN
           /\ r \in FactRow /\ r.next = NoRow /\ ~r.gone
           /\ r.current = current /\ r.claim = run[w].claim
  <1>1. run[w] \in RunRow
    BY DEF FactInv, Shapes
  <1> QED
    BY <1>1 DEF NewRow, FactRow, RunRow, NoRow

LEMMA HoldStep ==
  ASSUME FactInv, NEW w \in Runs, Hold(w)
  PROVE  FactInv'
  <1> DEFINE n == Len(facts) + 1
             r == [run[w] EXCEPT !.step = "source", !.target = n, !.held = TRUE]
  <1>1. /\ NewRow(w, FALSE) \in FactRow /\ NewRow(w, FALSE).next = NoRow
        /\ ~NewRow(w, FALSE).gone /\ ~NewRow(w, FALSE).current
        /\ NewRow(w, FALSE).claim = run[w].claim
    BY NewRowShaped
  <1>2. /\ facts' \in Seq(FactRow)
        /\ n \notin Rows /\ n # NoRow /\ Rows' = Rows \cup {n}
        /\ Live' = Live \cup {n} /\ Current' = Current
        /\ \A f \in Rows : facts'[f] = facts[f]
        /\ facts'[n].claim = run[w].claim
        /\ Bounds' /\ SupersededIsRetired' /\ GuardHolds'
        /\ \A k \in DOMAIN reviews' : ReviewOk(k)'
        /\ \A u \in Reviewers : DecisionOk(u)'
    BY <1>1, AppendStep DEF Hold, ghosts
  <1>3. /\ run[w] \in RunRow /\ At(w, "hold") /\ ~run[w].held
        /\ run[w].claim # Empty /\ run[w].item \in Items /\ Valuable(run[w].seen)
    BY DEF FactInv, Shapes, Reads, RunOk, Hold, At
  <1>4. n \in Nat
    BY RowsOfFacts DEF FactInv, Shapes
  <1>5. /\ run' = [run EXCEPT ![w] = r] /\ run'[w] = r /\ r \in RunRow
        /\ r.step = "source" /\ r.target = n /\ r.held /\ r.seen = run[w].seen
        /\ r.claim = run[w].claim /\ r.item = run[w].item
        /\ \A v \in Runs \ {w} : run'[v] = run[v]
    BY <1>3, <1>4 DEF FactInv, Shapes, Hold, RunRow, RunStep
  <1> HIDE DEF n, r
  <1>6. Shapes'
    BY <1>2, <1>5 DEF FactInv, Shapes, Hold, ghosts
  <1>7. ASSUME NEW v \in Runs  PROVE RunOk(v)'
    <2>1. CASE v = w
      BY <1>2, <1>3, <1>5, <2>1 DEF RunOk, At, Valuable
    <2>2. CASE v # w
      BY <1>2, <1>5, <2>2, RunOkKept DEF FactInv, Reads
    <2> QED
      BY <2>1, <2>2
  <1>8. LinksAreSafe'
    BY <1>2, <1>5 DEF FactInv, LinksAreSafe, At, Hold, ghosts
  <1>9. ASSUME NEW f \in Live' \ (Current \cup unfiled)  PROVE Filed(f)'
    <2>1. CASE f = n
      BY <1>5, <2>1 DEF Filed, InHand
    <2>2. CASE f \in Live
      <3>1. Filed(f) /\ facts'[f] = facts[f]
        BY <1>2, <1>9, <2>2 DEF FactInv, ReplacedIsFiled, Live
      <3>2. ~InHand(w, f) /\ \A v \in Runs \ {w} : InHand(v, f) => InHand(v, f)'
        BY <1>3, <1>5 DEF InHand, At
      <3> QED
        BY <3>1, <3>2 DEF Filed, Reviewed, Hold
    <2> QED
      BY <1>2, <2>1, <2>2
  <1>10. ReplacedIsFiled'
    BY <1>2, <1>9 DEF ReplacedIsFiled, Hold, ghosts
  <1>11. ValueIsComing'
    <2>1. gap \/ Valued \/ (\E v \in Runs : Replacing(v))
          \/ \E u \in Reviewers : Turning(u)
      BY <1>3 DEF FactInv, ValueIsComing, Valuable
    <2>2. Valued => Valued'
      BY <1>2 DEF Valued, Current, Live
    <2>3. \A v \in Runs : Replacing(v) => Replacing(v)'
      BY <1>3, <1>5 DEF Replacing, At
    <2> QED
      BY <2>1, <2>2, <2>3 DEF ValueIsComing, Turning, Hold, ghosts
  <1> QED
    BY <1>2, <1>6, <1>7, <1>8, <1>10, <1>11 DEF FactInv, Reads

LEMMA InsertStep ==
  ASSUME FactInv, NEW w \in Runs, Insert(w)
  PROVE  FactInv'
  <1> DEFINE n == Len(facts) + 1
             s == IF run[w].seen = NoRow THEN "source" ELSE "link"
             r == [run[w] EXCEPT !.step = s, !.target = n]
  <1>1. /\ NewRow(w, TRUE) \in FactRow /\ NewRow(w, TRUE).next = NoRow
        /\ ~NewRow(w, TRUE).gone /\ NewRow(w, TRUE).current
        /\ NewRow(w, TRUE).claim = run[w].claim
    BY NewRowShaped
  <1>2. /\ facts' \in Seq(FactRow)
        /\ n \notin Rows /\ n # NoRow /\ Rows' = Rows \cup {n}
        /\ Live' = Live \cup {n} /\ Current = {} /\ Current' = {n}
        /\ \A f \in Rows : facts'[f] = facts[f]
        /\ facts'[n].claim = run[w].claim
        /\ Bounds' /\ SupersededIsRetired' /\ GuardHolds'
        /\ \A k \in DOMAIN reviews' : ReviewOk(k)'
        /\ \A u \in Reviewers : DecisionOk(u)'
    BY <1>1, AppendStep DEF Insert
  <1>3. /\ run[w] \in RunRow /\ At(w, "insert") /\ ~run[w].held
        /\ run[w].claim # Empty /\ run[w].item \in Items
        /\ run[w].seen \in Rows \cup {NoRow}
        /\ run[w].seen # NoRow =>
             run[w].claim.conf + Margin >= facts[run[w].seen].claim.conf
    BY DEF FactInv, Shapes, Reads, RunOk, Insert, At
  <1>4. n \in Nat
    BY RowsOfFacts DEF FactInv, Shapes
  <1>5. /\ run' = [run EXCEPT ![w] = r] /\ run'[w] = r /\ r \in RunRow
        /\ r.step = s /\ r.target = n /\ ~r.held /\ r.seen = run[w].seen
        /\ r.claim = run[w].claim /\ r.item = run[w].item
        /\ \A v \in Runs \ {w} : run'[v] = run[v]
    BY <1>3, <1>4 DEF FactInv, Shapes, Insert, RunRow, RunStep
  <1>6. /\ run[w].seen = NoRow => s = "source"
        /\ run[w].seen # NoRow => s = "link"
    OBVIOUS
  <1> HIDE DEF n, s, r
  <1>7. Shapes'
    BY <1>2, <1>5 DEF FactInv, Shapes, Insert
  <1>8. ASSUME NEW v \in Runs  PROVE RunOk(v)'
    <2>1. CASE v = w
      BY <1>2, <1>3, <1>5, <1>6, <2>1 DEF RunOk, At, Valuable
    <2>2. CASE v # w
      BY <1>2, <1>5, <2>2, RunOkKept DEF FactInv, Reads
    <2> QED
      BY <2>1, <2>2
  <1>9. LinksAreSafe'
    <2>1. \A v \in Runs : run'[v].seen \in Rows \cup {NoRow}
      BY <1>3, <1>5 DEF FactInv, Reads, RunOk
    <2> QED
      BY <1>2, <2>1 DEF LinksAreSafe
  <1>10. ASSUME NEW f \in Live' \ (Current' \cup unfiled)  PROVE Filed(f)'
    <2>1. f \in Live /\ f \in Rows /\ f # NoRow
      BY <1>2, <1>10, RowsOfFacts DEF Live, FactInv, Shapes
    <2>2. Filed(f) /\ facts'[f] = facts[f]
      BY <1>2, <1>10, <2>1 DEF FactInv, ReplacedIsFiled, Live
    <2>3. \A v \in Runs : InHand(v, f) => InHand(v, f)'
      BY <1>3, <1>5, <1>6, <2>1 DEF InHand, At
    <2> QED
      BY <2>2, <2>3 DEF Filed, Reviewed, Insert
  <1>11. ReplacedIsFiled'
    BY <1>2, <1>10 DEF ReplacedIsFiled, Insert
  <1>12. ValueIsComing'
    BY <1>2, <1>3 DEF ValueIsComing, Valued
  <1> QED
    BY <1>2, <1>7, <1>8, <1>9, <1>11, <1>12 DEF FactInv, Reads

LEMMA FillStep ==
  ASSUME FactInv, NEW w \in Runs, Fill(w)
  PROVE  FactInv'
  <1> DEFINE n == Len(facts) + 1
             p == [claim |-> Empty, item |-> NoOne, current |-> TRUE,
                   next |-> NoRow, gone |-> FALSE]
             r == [run[w] EXCEPT !.step = "close"]
  <1>1. /\ r \in RunRow
        /\ run' = [run EXCEPT ![w] = r] /\ run'[w] = r
        /\ r.seen = run[w].seen /\ r.target = run[w].target /\ r.step = "close"
        /\ r.claim = run[w].claim /\ r.item = run[w].item /\ r.held = run[w].held
    BY GoesOn DEF Fill, RunStep
  <1>2. /\ run[w] \in RunRow /\ At(w, "fill")
        /\ run[w].claim # Empty /\ run[w].item \in Items
        /\ run[w].seen \in Rows \cup {NoRow} /\ run[w].target \in Rows \cup {NoRow}
    BY DEF FactInv, Shapes, Reads, RunOk, Fill, At
  <1>3. CASE ~(Templated /\ Current = {})
    <2>1. UNCHANGED facts
      BY <1>3 DEF Fill
    <2>2. RunOk(w)'
      BY <1>1, <1>2, <2>1 DEF RunOk, At, Rows
    <2>3. ~Replacing(w) /\ \A f \in Live : ~InHand(w, f)
      BY <1>2 DEF Replacing, InHand, At
    <2>4. starts' \in 0..MaxStarts /\ sources' \subseteq Live \X Items
      BY DEF FactInv, Bounds, Fill, counters
    <2> HIDE DEF r
    <2> QED
      BY <1>1, <2>1, <2>2, <2>3, <2>4, RunMoves DEF Fill, counters
  <1>4. CASE Templated /\ Current = {}
    <2>1. /\ p \in FactRow /\ p.next = NoRow /\ ~p.gone
          /\ p.current /\ p.claim = Empty
      BY RowsAreShaped DEF FactRow, NoRow
    <2>2. facts' = Append(facts, p)
      BY <1>4 DEF Fill
    <2> HIDE DEF p, r
    <2>3. /\ facts' \in Seq(FactRow)
          /\ n \notin Rows /\ n # NoRow /\ Rows' = Rows \cup {n}
          /\ Live' = Live \cup {n} /\ Current' = {n}
          /\ \A f \in Rows : facts'[f] = facts[f]
          /\ facts'[n].claim = Empty
          /\ Bounds' /\ SupersededIsRetired' /\ GuardHolds'
          /\ \A k \in DOMAIN reviews' : ReviewOk(k)'
          /\ \A u \in Reviewers : DecisionOk(u)'
      BY <1>4, <2>1, <2>2, AppendStep DEF Fill, ghosts
    <2> HIDE DEF n
    <2>4. \A v \in Runs \ {w} : run'[v] = run[v]
      BY <1>1 DEF FactInv, Shapes
    <2>5. Shapes'
      BY <1>1, <2>3 DEF FactInv, Shapes, Fill, ghosts
    <2>6. ASSUME NEW v \in Runs  PROVE RunOk(v)'
      <3>1. CASE v = w
        BY <1>1, <1>2, <2>3, <3>1 DEF RunOk, At
      <3>2. CASE v # w
        BY <2>3, <2>4, <3>2, RunOkKept DEF FactInv, Reads
      <3> QED
        BY <3>1, <3>2
    <2>7. LinksAreSafe'
      <3>1. \A v \in Runs : run'[v].seen \in Rows \cup {NoRow}
        BY <1>1, <1>2, <2>4 DEF FactInv, Reads, RunOk
      <3> QED
        BY <2>3, <3>1 DEF LinksAreSafe
    <2>8. ASSUME NEW f \in Live' \ (Current' \cup unfiled)  PROVE Filed(f)'
      <3>1. f \in Live /\ f \in Rows
        BY <2>3, <2>8 DEF Live
      <3>2. Filed(f) /\ facts'[f] = facts[f]
        BY <1>4, <2>3, <2>8, <3>1 DEF FactInv, ReplacedIsFiled
      <3>3. \A v \in Runs : InHand(v, f) => InHand(v, f)'
        BY <1>2, <2>4 DEF InHand, At
      <3> QED
        BY <3>2, <3>3 DEF Filed, Reviewed, Fill
    <2>9. ReplacedIsFiled'
      BY <2>3, <2>8 DEF ReplacedIsFiled, Fill, ghosts
    <2>10. ValueIsComing'
      <3>1. gap \/ (\E v \in Runs : Replacing(v))
            \/ (\E u \in Reviewers : Turning(u))
            \/ \A f \in Rows : facts[f].claim = Empty
        BY <1>4 DEF FactInv, ValueIsComing, Valued
      <3>2. \A v \in Runs : Replacing(v) => Replacing(v)'
        BY <1>2, <2>4 DEF Replacing, At
      <3>3. (\A f \in Rows : facts[f].claim = Empty) =>
              \A f \in Rows' : facts'[f].claim = Empty
        BY <2>3
      <3> QED
        BY <3>1, <3>2, <3>3 DEF ValueIsComing, Turning, Fill, ghosts
    <2> QED
      BY <2>3, <2>5, <2>6, <2>7, <2>9, <2>10 DEF FactInv, Reads
  <1> QED
    BY <1>3, <1>4

-----------------------------------------------------------------------------
\* Steps that update rows.

LEMMA EditStep ==
  ASSUME FactInv, facts' \in [Rows -> FactRow],
         \A f \in Rows : /\ facts'[f].claim = facts[f].claim
                         /\ facts'[f].gone = facts[f].gone
                         /\ facts'[f].next \in Rows \cup {NoRow},
         crossed' \subseteq Rows,
         UNCHANGED <<sources, reviews, counters, unfiled>>
  PROVE  /\ facts' \in Seq(FactRow) /\ Rows' = Rows /\ Live' = Live
         /\ Bounds' /\ \A k \in DOMAIN reviews' : ReviewOk(k)'
  <1>1. facts' \in Seq(FactRow) /\ Rows' = Rows
    BY RowsKept DEF FactInv, Shapes
  <1>2. Live' = Live
    BY <1>1 DEF Live
  <1>3. Bounds'
    BY <1>1, <1>2 DEF FactInv, Bounds, counters
  <1>4. \A k \in DOMAIN reviews' : ReviewOk(k)'
    BY <1>1, <1>2 DEF FactInv, Reads, ReviewOk, Live
  <1> QED
    BY <1>1, <1>2, <1>3, <1>4

\* The fields an update writes.
LEMMA RowEdited ==
  ASSUME FactInv, NEW g \in Rows, NEW r \in FactRow, facts' = [facts EXCEPT ![g] = r]
  PROVE  /\ facts' \in [Rows -> FactRow] /\ facts'[g] = r
         /\ \A f \in Rows \ {g} : facts'[f] = facts[f]
  BY RowsOfFacts DEF FactInv, Shapes

LEMMA RetireStep ==
  ASSUME FactInv, NEW w \in Runs, Retire(w)
  PROVE  FactInv'
  <1> DEFINE g == run[w].seen
             row == [facts[g] EXCEPT !.current = FALSE]
             r == [run[w] EXCEPT !.step = "insert"]
  <1>1. /\ run[w] \in RunRow /\ At(w, "retire") /\ ~run[w].held
        /\ run[w].claim # Empty /\ run[w].item \in Items
        /\ g \in Rows /\ run[w].target \in Rows \cup {NoRow}
    BY DEF FactInv, Shapes, Reads, RunOk, Retire, At
  <1>2. g # NoRow /\ facts[g] \in FactRow
    BY <1>1, RowsOfFacts DEF FactInv, Shapes
  <1>3. /\ row \in FactRow /\ ~row.current /\ row.claim = facts[g].claim
        /\ row.gone = facts[g].gone /\ row.next = facts[g].next
    BY <1>2 DEF FactRow
  <1>4. facts' = [facts EXCEPT ![g] = row]
    BY <1>1 DEF Retire
  <1>5. /\ r \in RunRow
        /\ run' = [run EXCEPT ![w] = r] /\ run'[w] = r
        /\ r.seen = g /\ r.target = run[w].target /\ r.step = "insert"
        /\ r.claim = run[w].claim /\ r.item = run[w].item /\ r.held = run[w].held
    BY GoesOn DEF Retire, RunStep
  <1>6. \A v \in Runs \ {w} : run'[v] = run[v]
    BY <1>5 DEF FactInv, Shapes
  <1> HIDE DEF row, r
  <1>7. /\ facts' \in [Rows -> FactRow] /\ facts'[g] = row
        /\ \A f \in Rows \ {g} : facts'[f] = facts[f]
    BY <1>1, <1>3, <1>4, RowEdited
  <1> HIDE DEF g
  <1>8. /\ \A f \in Rows : /\ facts'[f].claim = facts[f].claim
                           /\ facts'[f].gone = facts[f].gone
                           /\ facts'[f].next = facts[f].next
                           /\ facts'[f].current <=> facts[f].current /\ f # g
    BY <1>1, <1>3, <1>7
  <1>9. UNCHANGED <<sources, reviews, reviewer, counters, ghosts>>
    BY DEF Retire
  <1>10. /\ facts' \in Seq(FactRow) /\ Rows' = Rows /\ Live' = Live
         /\ Bounds' /\ \A k \in DOMAIN reviews' : ReviewOk(k)'
    BY <1>7, <1>8, <1>9, EditStep DEF FactInv, Bounds, ghosts
  <1>11. Current' = Current \ {g}
    BY <1>8, <1>10 DEF Current, Live
  <1>12. Shapes'
    BY <1>5, <1>9, <1>10 DEF FactInv, Shapes, ghosts
  <1>13. ASSUME NEW v \in Runs  PROVE RunOk(v)'
    <2>1. CASE v = w
      <3>1. run[w].claim.conf + Margin >= facts[g].claim.conf
        BY <1>1, <1>2 DEF FactInv, Reads, RunOk, At, g
      <3> QED
        BY <1>1, <1>5, <1>8, <1>10, <2>1, <3>1 DEF RunOk, At
    <2>2. CASE v # w
      BY <1>6, <1>8, <1>10, <2>2, RunOkKept DEF FactInv, Reads
    <2> QED
      BY <2>1, <2>2
  <1>14. \A u \in Reviewers : DecisionOk(u)'
    BY <1>8, <1>9, <1>10, DecisionOkKept DEF FactInv, Reads
  <1>15. SupersededIsRetired' /\ LinksAreSafe'
    BY <1>5, <1>6, <1>8, <1>9, <1>11
    DEF FactInv, SupersededIsRetired, LinksAreSafe, At, ghosts, Current, Live
  <1>16. GuardHolds'
    BY <1>8, <1>9, <1>10 DEF FactInv, GuardHolds, Bounds, Live
  <1>17. ASSUME NEW f \in Live \ (Current' \cup unfiled)  PROVE Filed(f)'
    <2>1. CASE f = g
      BY <1>1, <1>5, <2>1 DEF Filed, InHand
    <2>2. CASE f # g
      <3>1. Filed(f) /\ facts'[f].claim = facts[f].claim
        BY <1>8, <1>11, <1>17, <2>2 DEF FactInv, ReplacedIsFiled, Live
      <3>2. ~InHand(w, f) /\ \A v \in Runs \ {w} : InHand(v, f) => InHand(v, f)'
        BY <1>1, <1>6 DEF InHand, At
      <3> QED
        BY <1>9, <3>1, <3>2 DEF Filed, Reviewed
    <2> QED
      BY <2>1, <2>2
  <1>18. ReplacedIsFiled'
    BY <1>9, <1>10, <1>17 DEF ReplacedIsFiled, ghosts
  <1>19. ValueIsComing'
    BY <1>2, <1>5 DEF ValueIsComing, Replacing, At
  <1> QED
    BY <1>10, <1>12, <1>13, <1>14, <1>15, <1>16, <1>18, <1>19 DEF FactInv, Reads

LEMMA LinkStep ==
  ASSUME FactInv, NEW w \in Runs, Link(w)
  PROVE  FactInv'
  <1> DEFINE g == run[w].seen
             t == run[w].target
             row == [facts[g] EXCEPT !.next = t]
             r == [run[w] EXCEPT !.step = "source"]
  <1>1. /\ run[w] \in RunRow /\ At(w, "link") /\ ~run[w].held
        /\ run[w].claim # Empty /\ run[w].item \in Items
        /\ g \in Rows /\ t \in Rows /\ g # t /\ facts[t].claim = run[w].claim
    BY DEF FactInv, Shapes, Reads, RunOk, Link, At
  <1>2. g # NoRow /\ facts[g] \in FactRow /\ t \in Nat
    BY <1>1, RowsOfFacts DEF FactInv, Shapes
  <1>3. /\ row \in FactRow /\ row.next = t /\ row.claim = facts[g].claim
        /\ row.gone = facts[g].gone /\ row.current = facts[g].current
    BY <1>2 DEF FactRow
  <1>4. facts' = [facts EXCEPT ![g] = row]
    BY <1>1 DEF Link
  <1>5. /\ r \in RunRow
        /\ run' = [run EXCEPT ![w] = r] /\ run'[w] = r
        /\ r.seen = g /\ r.target = t /\ r.step = "source"
        /\ r.claim = run[w].claim /\ r.item = run[w].item /\ r.held = run[w].held
    BY GoesOn DEF Link, RunStep
  <1>6. \A v \in Runs \ {w} : run'[v] = run[v]
    BY <1>5 DEF FactInv, Shapes
  <1>7. run[w].claim.conf + Margin >= facts[g].claim.conf
    BY <1>1, <1>2 DEF FactInv, Reads, RunOk, At
  <1> HIDE DEF row, r
  <1>8. /\ facts' \in [Rows -> FactRow] /\ facts'[g] = row
        /\ \A f \in Rows \ {g} : facts'[f] = facts[f]
    BY <1>1, <1>3, <1>4, RowEdited
  <1>9. g \notin Current \ crossed
    BY <1>1 DEF FactInv, LinksAreSafe
  <1> HIDE DEF g, t
  <1>10. /\ \A f \in Rows : /\ facts'[f].claim = facts[f].claim
                            /\ facts'[f].gone = facts[f].gone
                            /\ facts'[f].current = facts[f].current
         /\ \A f \in Rows \ {g} : facts'[f].next = facts[f].next
         /\ facts'[g].next = t
    BY <1>1, <1>3, <1>8
  <1>11. UNCHANGED <<sources, reviews, reviewer, counters, ghosts>>
    BY DEF Link
  <1>12. /\ facts' \in Seq(FactRow) /\ Rows' = Rows /\ Live' = Live
         /\ Bounds' /\ \A k \in DOMAIN reviews' : ReviewOk(k)'
    BY <1>1, <1>8, <1>10, <1>11, EditStep DEF FactInv, Bounds, ghosts
  <1>13. Current' = Current
    BY <1>10, <1>12 DEF Current, Live
  <1>14. Shapes'
    BY <1>5, <1>11, <1>12 DEF FactInv, Shapes, ghosts
  <1>15. ASSUME NEW v \in Runs  PROVE RunOk(v)'
    <2>1. CASE v = w
      BY <1>1, <1>5, <1>10, <1>12, <2>1 DEF RunOk, At, Valuable
    <2>2. CASE v # w
      BY <1>6, <1>10, <1>12, <2>2, RunOkKept DEF FactInv, Reads
    <2> QED
      BY <2>1, <2>2
  <1>16. \A u \in Reviewers : DecisionOk(u)'
    BY <1>10, <1>11, <1>12, DecisionOkKept DEF FactInv, Reads
  <1>17. SupersededIsRetired' /\ LinksAreSafe'
    BY <1>5, <1>6, <1>9, <1>10, <1>11, <1>13
    DEF FactInv, SupersededIsRetired, LinksAreSafe, At, ghosts, Current, Live
  <1>18. GuardHolds'
    <2> SUFFICES ASSUME NEW f \in Live, facts'[f].next # NoRow
                 PROVE  LET h == facts'[f].next IN
                          \/ facts'[h].claim.conf + Margin >= facts'[f].claim.conf
                          \/ \E k \in DOMAIN reviews :
                               reviews[k].held /\ reviews[k].old = f /\ reviews[k].new = h
      BY <1>11, <1>12 DEF GuardHolds
    <2>1. CASE f = g
      BY <1>1, <1>7, <1>10, <2>1
    <2>2. CASE f # g
      BY <1>10, <2>2 DEF FactInv, GuardHolds, Bounds, Live
    <2> QED
      BY <2>1, <2>2
  <1>19. ASSUME NEW f \in Live \ (Current \cup unfiled)  PROVE Filed(f)'
    <2>1. Filed(f) /\ facts'[f].claim = facts[f].claim
      BY <1>10 DEF FactInv, ReplacedIsFiled, Live
    <2>2. \A v \in Runs : InHand(v, f) => InHand(v, f)'
      BY <1>1, <1>5, <1>6 DEF InHand, At, g, t
    <2> QED
      BY <1>11, <2>1, <2>2 DEF Filed, Reviewed
  <1>20. ReplacedIsFiled'
    BY <1>11, <1>12, <1>13, <1>19 DEF ReplacedIsFiled, ghosts
  <1>21. ValueIsComing'
    <2>1. Valued => Valued'
      BY <1>10, <1>13 DEF Valued, Current, Live
    <2>2. \A v \in Runs : Replacing(v) => Replacing(v)'
      BY <1>1, <1>6 DEF Replacing, At
    <2> QED
      BY <1>10, <1>11, <1>12, <2>1, <2>2 DEF FactInv, ValueIsComing, Turning, ghosts
  <1> QED
    BY <1>12, <1>14, <1>15, <1>16, <1>17, <1>18, <1>20, <1>21 DEF FactInv, Reads

-----------------------------------------------------------------------------
\* Steps that file a review.

LEMMA FilingMoves ==
  ASSUME FactInv, NEW w \in Runs, NEW q \in RunRow, run' = [run EXCEPT ![w] = q],
         RunOk(w)', ~Replacing(w), q.step # "link",
         NEW r \in ReviewRow, reviews' = Append(reviews, r), r.item \in Items,
         \A f \in {r.old, r.new} : f # NoRow => f \in Live /\ facts[f].claim # Empty,
         \A f \in Live : InHand(w, f) => f \in {r.old, r.new},
         UNCHANGED <<facts, sources, reviewer, counters, ghosts>>
  PROVE  FactInv'
  <1> USE DEF ghosts, counters
  <1>1. run'[w] = q /\ \A v \in Runs \ {w} : run'[v] = run[v]
    BY DEF FactInv, Shapes
  <1> DEFINE n == Len(reviews) + 1
  <1>2. /\ reviews' \in Seq(ReviewRow)
        /\ DOMAIN reviews' = DOMAIN reviews \cup {n} /\ n \notin DOMAIN reviews
        /\ \A k \in DOMAIN reviews : reviews'[k] = reviews[k]
        /\ reviews'[n] = r
    BY ReviewAdded DEF FactInv, Shapes
  <1> HIDE DEF n
  <1>3. UNCHANGED <<Rows, Live, Current, Valued>>
    BY DEF Rows, Live, Current, Valued
  <1>4. Shapes' /\ Bounds'
    BY <1>2, <1>3 DEF FactInv, Shapes, Bounds
  <1>5. ASSUME NEW v \in Runs  PROVE RunOk(v)'
    BY <1>1, <1>3, RunOkKept DEF FactInv, Reads
  <1>6. ASSUME NEW k \in DOMAIN reviews'  PROVE ReviewOk(k)'
    BY <1>2, <1>3 DEF FactInv, Reads, ReviewOk
  <1>7. \A u \in Reviewers : DecisionOk(u)'
    BY <1>2, <1>3, DecisionOkKept DEF FactInv, Reads
  <1>8. SupersededIsRetired' /\ LinksAreSafe'
    BY <1>1, <1>3 DEF FactInv, SupersededIsRetired, LinksAreSafe, At
  <1>9. GuardHolds'
    <2> SUFFICES ASSUME NEW f \in Live, facts[f].next # NoRow
                 PROVE  LET g == facts[f].next IN
                          \/ facts[g].claim.conf + Margin >= facts[f].claim.conf
                          \/ \E k \in DOMAIN reviews' :
                               reviews'[k].held /\ reviews'[k].old = f /\ reviews'[k].new = g
      BY <1>3 DEF GuardHolds
    <2>1. LET g == facts[f].next IN
            \/ facts[g].claim.conf + Margin >= facts[f].claim.conf
            \/ \E k \in DOMAIN reviews :
                 reviews[k].held /\ reviews[k].old = f /\ reviews[k].new = g
      BY DEF FactInv, GuardHolds
    <2> QED
      BY <1>2, <2>1
  <1>10. ASSUME NEW f \in Live \ (Current \cup unfiled)  PROVE Filed(f)'
    <2>1. Filed(f)
      BY DEF FactInv, ReplacedIsFiled
    <2>2. Reviewed(f) => Reviewed(f)'
      BY <1>2 DEF Reviewed
    <2>3. InHand(w, f) => Reviewed(f)'
      BY <1>2 DEF Reviewed
    <2>4. \A v \in Runs \ {w} : InHand(v, f) => InHand(v, f)'
      BY <1>1 DEF InHand
    <2> QED
      BY <2>1, <2>2, <2>3, <2>4 DEF Filed
  <1>11. ReplacedIsFiled'
    BY <1>3, <1>10 DEF ReplacedIsFiled
  <1>12. ValueIsComing'
    BY <1>1, <1>3 DEF FactInv, ValueIsComing, Replacing, Turning, At
  <1> QED
    BY <1>4, <1>5, <1>6, <1>7, <1>8, <1>9, <1>11, <1>12 DEF FactInv, Reads

LEMMA FileStep ==
  ASSUME FactInv, NEW w \in Runs, File(w)
  PROVE  FactInv'
  <1> DEFINE q == [run[w] EXCEPT !.step = "fill"]
             r == [kind |-> "conflict", old |-> run[w].seen, new |-> run[w].target,
                   held |-> run[w].held, item |-> run[w].item, status |-> "pending"]
  <1>1. /\ run[w] \in RunRow /\ At(w, "file")
        /\ run[w].claim # Empty /\ run[w].item \in Items
        /\ Valuable(run[w].seen) /\ Valuable(run[w].target)
    BY DEF FactInv, Shapes, Reads, RunOk, File, At
  <1>2. /\ q \in RunRow
        /\ run' = [run EXCEPT ![w] = q] /\ run'[w] = q
        /\ q.seen = run[w].seen /\ q.target = run[w].target /\ q.step = "fill"
        /\ q.claim = run[w].claim /\ q.item = run[w].item /\ q.held = run[w].held
    BY GoesOn DEF File, RunStep
  <1>3. r \in ReviewRow
    BY <1>1 DEF RunRow, ReviewRow
  <1>4. /\ reviews' = Append(reviews, r) /\ r.item \in Items
        /\ r.old = run[w].seen /\ r.new = run[w].target
    BY <1>1 DEF File
  <1>5. \A f \in {r.old, r.new} : f # NoRow => f \in Live /\ facts[f].claim # Empty
    BY <1>1 DEF File, Live, Valuable
  <1> HIDE DEF q, r
  <1>6. RunOk(w)'
    BY <1>1, <1>2 DEF RunOk, At, Valuable, File, Rows
  <1>7. ~Replacing(w) /\ \A f \in Live : InHand(w, f) => f \in {r.old, r.new}
    BY <1>1, <1>4 DEF Replacing, InHand, At
  <1> QED
    BY <1>2, <1>3, <1>4, <1>5, <1>6, <1>7, FilingMoves DEF File

LEMMA CloseStep ==
  ASSUME FactInv, NEW w \in Runs, Close(w)
  PROVE  FactInv'
  <1> DEFINE r == [NoReview EXCEPT !.kind = "extraction", !.item = run[w].item]
  <1>1. run[w] \in RunRow /\ At(w, "close") /\ run[w].item \in Items
    BY DEF FactInv, Shapes, Reads, RunOk, Close, At
  <1>2. run' = [run EXCEPT ![w] = NoRun] /\ run'[w] = NoRun
    BY DEF FactInv, Shapes, Close
  <1>3. RunOk(w)'
    BY <1>2 DEF RunOk, At, NoRun
  <1>4. ~Replacing(w) /\ \A f \in Live : ~InHand(w, f)
    BY <1>1 DEF Replacing, InHand, At
  <1>5. NoRun.step # "link" /\ NoRun \in RunRow
    BY RowsAreShaped DEF NoRun
  <1>6. CASE run[w].claim.conf < ReviewBelow
    <2>1. r \in ReviewRow /\ r.item \in Items /\ r.old = NoRow /\ r.new = NoRow
      BY <1>1, RowsAreShaped DEF ReviewRow, NoReview
    <2>2. reviews' = Append(reviews, r)
      BY <1>6 DEF Close
    <2> HIDE DEF r
    <2> QED
      BY <1>2, <1>3, <1>4, <1>5, <2>1, <2>2, FilingMoves DEF Close
  <1>7. CASE ~(run[w].claim.conf < ReviewBelow)
    <2>1. UNCHANGED reviews
      BY <1>7 DEF Close
    <2>2. starts' \in 0..MaxStarts /\ sources' \subseteq Live \X Items
      BY DEF FactInv, Bounds, Close, counters
    <2> QED
      BY <1>2, <1>3, <1>4, <1>5, <2>1, <2>2, RunMoves DEF Close, counters
  <1> QED
    BY <1>6, <1>7

LEMMA ResolveStep ==
  ASSUME FactInv, NEW u \in Reviewers, Resolve(u)
  PROVE  FactInv'
  <1> DEFINE m == reviewer[u].review
             s == IF reviewer[u].accept THEN "accepted" ELSE "rejected"
             r == [reviews[m] EXCEPT !.status = s]
  <1>1. m \in DOMAIN reviews
    BY DEF FactInv, Reads, DecisionOk, Resolve, On
  <1>2. reviews[m] \in ReviewRow
    BY <1>1 DEF FactInv, Shapes
  <1>3. /\ r \in ReviewRow /\ r.old = reviews[m].old /\ r.new = reviews[m].new
        /\ r.held = reviews[m].held /\ r.item = reviews[m].item
    BY <1>2 DEF ReviewRow
  <1>4. reviews' = [reviews EXCEPT ![m] = r]
    BY <1>1 DEF Resolve
  <1> HIDE DEF r
  <1>5. reviews \in [DOMAIN reviews -> ReviewRow]
    BY DEF FactInv, Shapes
  <1>6. /\ reviews' \in [DOMAIN reviews -> ReviewRow]
        /\ reviews'[m] = r /\ \A k \in DOMAIN reviews \ {m} : reviews'[k] = reviews[k]
    BY <1>1, <1>3, <1>4, <1>5
  <1>7. reviews' \in Seq(ReviewRow) /\ DOMAIN reviews' = DOMAIN reviews
    BY <1>6, ReviewsKept DEF FactInv, Shapes
  <1> HIDE DEF m
  <1>8. \A k \in DOMAIN reviews :
          /\ reviews'[k].old = reviews[k].old /\ reviews'[k].new = reviews[k].new
          /\ reviews'[k].held = reviews[k].held /\ reviews'[k].item = reviews[k].item
    BY <1>3, <1>6
  <1>9. /\ reviewer'[u] = NoDecision
        /\ \A v \in Reviewers \ {u} : reviewer'[v] = reviewer[v]
    BY DEF FactInv, Shapes, Resolve
  <1>10. UNCHANGED <<facts, sources, run, counters, ghosts, Rows, Live, Current, Valued>>
    BY DEF Resolve, Rows, Live, Current, Valued
  <1>11. Shapes' /\ Bounds'
    BY <1>7, <1>10, RowsAreShaped DEF FactInv, Shapes, Bounds, Resolve, ghosts, counters
  <1>12. \A v \in Runs : RunOk(v)'
    BY <1>10, RunOkKept DEF FactInv, Reads
  <1>13. ASSUME NEW k \in DOMAIN reviews'  PROVE ReviewOk(k)'
    BY <1>7, <1>8, <1>10 DEF FactInv, Reads, ReviewOk
  <1>14. ASSUME NEW v \in Reviewers  PROVE DecisionOk(v)'
    <2>1. CASE v = u
      BY <1>9, <2>1 DEF DecisionOk, On, NoDecision
    <2>2. CASE v # u
      BY <1>7, <1>8, <1>9, <1>10, <2>2, DecisionOkKept DEF FactInv, Reads
    <2> QED
      BY <2>1, <2>2
  <1>15. SupersededIsRetired' /\ LinksAreSafe'
    BY <1>10 DEF FactInv, SupersededIsRetired, LinksAreSafe, At, ghosts
  <1>16. GuardHolds'
    BY <1>7, <1>8, <1>10 DEF FactInv, GuardHolds
  <1>17. \A f : Reviewed(f) => Reviewed(f)'
    BY <1>7, <1>8 DEF Reviewed
  <1>18. ReplacedIsFiled'
    BY <1>10, <1>17 DEF FactInv, ReplacedIsFiled, Filed, InHand, ghosts
  <1>19. ~Turning(u)
    BY DEF Resolve, On, Turning
  <1>20. ValueIsComing'
    BY <1>9, <1>10, <1>19 DEF FactInv, ValueIsComing, Replacing, Turning, At, ghosts
  <1> QED
    BY <1>11, <1>12, <1>13, <1>14, <1>15, <1>16, <1>18, <1>20 DEF FactInv, Reads

-----------------------------------------------------------------------------
\* Decisions that update rows.

LEMMA TurnStep ==
  ASSUME FactInv, NEW u \in Reviewers,
         NEW s \in {"reapply", "restore", "resolve"}, Turn(u, s), ~On(u, "idle"),
         s # "resolve" => reviewer[u].step \in {"apply", "withdraw"},
         facts' \in [Rows -> FactRow],
         \A f \in Rows : /\ facts'[f].claim = facts[f].claim
                         /\ facts'[f].gone = facts[f].gone
                         /\ facts'[f].next \in Rows \cup {NoRow},
         crossed' \subseteq Rows, gap' \in BOOLEAN,
         UNCHANGED <<sources, reviews, run, counters, unfiled>>
  PROVE  /\ Rows' = Rows /\ Live' = Live
         /\ Shapes' /\ Bounds' /\ Reads' /\ reviewer'[u].step = s
         /\ \A v \in Reviewers \ {u} : reviewer'[v] = reviewer[v]
  <1> DEFINE r == [reviewer[u] EXCEPT !.step = s]
  <1>1. /\ facts' \in Seq(FactRow) /\ Rows' = Rows /\ Live' = Live
        /\ Bounds' /\ \A k \in DOMAIN reviews' : ReviewOk(k)'
    BY EditStep
  <1>2. reviewer[u] \in DecisionRow /\ s \in ReviewStep
    BY DEF FactInv, Shapes, ReviewStep
  <1>3. /\ r \in DecisionRow /\ r.step = s /\ r.review = reviewer[u].review
        /\ r.r = reviewer[u].r /\ reviewer' = [reviewer EXCEPT ![u] = r]
    BY <1>2 DEF DecisionRow, Turn
  <1> HIDE DEF r
  <1>4. reviewer'[u] = r /\ \A v \in Reviewers \ {u} : reviewer'[v] = reviewer[v]
    BY <1>3 DEF FactInv, Shapes
  <1>5. Shapes'
    BY <1>1, <1>3 DEF FactInv, Shapes
  <1>6. \A w \in Runs : RunOk(w)'
    BY <1>1, RunOkKept DEF FactInv, Reads
  <1>7. DecisionOk(u)'
    <2>1. DecisionOk(u)
      BY DEF FactInv, Reads
    <2> QED
      BY <1>1, <1>3, <1>4, <2>1 DEF DecisionOk, On, Read, Valuable
  <1>8. ASSUME NEW v \in Reviewers  PROVE DecisionOk(v)'
    <2>1. CASE v = u
      BY <1>7, <2>1
    <2>2. CASE v # u
      BY <1>1, <1>4, <2>2, DecisionOkKept DEF FactInv, Reads
    <2> QED
      BY <2>1, <2>2
  <1> QED
    BY <1>1, <1>3, <1>4, <1>5, <1>6, <1>8 DEF Reads

LEMMA ApplyStep ==
  ASSUME FactInv, NEW u \in Reviewers, Apply(u)
  PROVE  FactInv'
  <1> DEFINE g == Read(u).old
             t == Read(u).new
             row == [facts[g] EXCEPT !.current = FALSE, !.next = t]
  <1>1. /\ On(u, "apply") /\ g \in Live /\ t \in Live /\ g \in Rows /\ t \in Rows
        /\ reviewer[u].review \in DOMAIN reviews
        /\ reviews[reviewer[u].review].old = g
        /\ reviews[reviewer[u].review].new = t
        /\ reviews[reviewer[u].review].held
    BY DEF FactInv, Reads, DecisionOk, Apply, On, Live
  <1>2. facts[g] \in FactRow /\ t \in Nat
    BY <1>1, RowsOfFacts DEF FactInv, Shapes
  <1>3. /\ row \in FactRow /\ ~row.current /\ row.next = t
        /\ row.claim = facts[g].claim /\ row.gone = facts[g].gone
    BY <1>2 DEF FactRow
  <1>4. facts' = [facts EXCEPT ![g] = row]
    BY <1>1 DEF Apply
  <1> HIDE DEF row
  <1>5. /\ facts' \in [Rows -> FactRow] /\ facts'[g] = row
        /\ \A f \in Rows \ {g} : facts'[f] = facts[f]
    BY <1>1, <1>3, <1>4, RowEdited
  <1>6. UNCHANGED <<sources, reviews, run, counters, ghosts>> /\ Turn(u, "reapply")
    BY DEF Apply
  <1> HIDE DEF g, t
  <1>7. /\ \A f \in Rows : /\ facts'[f].claim = facts[f].claim
                           /\ facts'[f].gone = facts[f].gone
        /\ \A f \in Rows \ {g} : facts'[f].next = facts[f].next
        /\ facts'[g].next = t
        /\ \A f \in Rows : facts'[f].current <=> facts[f].current /\ f # g
    BY <1>1, <1>3, <1>5
  <1>8. /\ Rows' = Rows /\ Live' = Live
        /\ Shapes' /\ Bounds' /\ Reads' /\ reviewer'[u].step = "reapply"
        /\ \A v \in Reviewers \ {u} : reviewer'[v] = reviewer[v]
    <2>1. \A f \in Rows : facts'[f].next \in Rows \cup {NoRow}
      BY <1>1, <1>7 DEF FactInv, Bounds
    <2>2. ~On(u, "idle") /\ reviewer[u].step \in {"apply", "withdraw"}
      BY <1>1 DEF On
    <2>3. gap' \in BOOLEAN /\ crossed' \subseteq Rows /\ UNCHANGED unfiled
      BY <1>6 DEF FactInv, Shapes, Bounds, ghosts
    <2> QED
      BY <1>5, <1>6, <1>7, <2>1, <2>2, <2>3, TurnStep
  <1>9. Current' = Current \ {g}
    BY <1>7, <1>8 DEF Current, Live
  <1>10. SupersededIsRetired' /\ LinksAreSafe'
    BY <1>6, <1>7, <1>9
    DEF FactInv, SupersededIsRetired, LinksAreSafe, At, ghosts, Current, Live
  <1>11. GuardHolds'
    <2> SUFFICES ASSUME NEW f \in Live, facts'[f].next # NoRow
                 PROVE  LET h == facts'[f].next IN
                          \/ facts'[h].claim.conf + Margin >= facts'[f].claim.conf
                          \/ \E k \in DOMAIN reviews :
                               reviews[k].held /\ reviews[k].old = f /\ reviews[k].new = h
      BY <1>6, <1>8 DEF GuardHolds
    <2>1. CASE f = g
      BY <1>1, <1>7, <2>1
    <2>2. CASE f # g
      BY <1>7, <2>2 DEF FactInv, GuardHolds, Bounds, Live
    <2> QED
      BY <2>1, <2>2
  <1>12. ASSUME NEW f \in Live \ (Current' \cup unfiled)  PROVE Filed(f)'
    <2>1. CASE f = g
      BY <1>1, <1>6, <2>1 DEF Filed, Reviewed
    <2>2. CASE f # g
      <3>1. Filed(f) /\ facts'[f].claim = facts[f].claim
        BY <1>7, <1>9, <1>12, <2>2 DEF FactInv, ReplacedIsFiled, Live
      <3> QED
        BY <1>6, <3>1 DEF Filed, Reviewed, InHand
    <2> QED
      BY <2>1, <2>2
  <1>13. ReplacedIsFiled'
    BY <1>6, <1>8, <1>12 DEF ReplacedIsFiled, ghosts
  <1>14. ValueIsComing'
    BY <1>8 DEF ValueIsComing, Turning
  <1> QED
    BY <1>8, <1>10, <1>11, <1>13, <1>14 DEF FactInv

LEMMA WithdrawStep ==
  ASSUME FactInv, NEW u \in Reviewers, Withdraw(u)
  PROVE  FactInv'
  <1> DEFINE g == Read(u).new
             row == [facts[g] EXCEPT !.current = FALSE]
  <1>1. /\ On(u, "withdraw") /\ g \in Live /\ g \in Rows
        /\ reviewer[u].review \in DOMAIN reviews
        /\ reviews[reviewer[u].review].new = g
    BY DEF FactInv, Reads, DecisionOk, Withdraw, On, Live
  <1>2. facts[g] \in FactRow
    BY <1>1, RowsOfFacts DEF FactInv, Shapes
  <1>3. /\ row \in FactRow /\ ~row.current /\ row.next = facts[g].next
        /\ row.claim = facts[g].claim /\ row.gone = facts[g].gone
    BY <1>2 DEF FactRow
  <1>4. facts' = [facts EXCEPT ![g] = row]
    BY <1>1 DEF Withdraw
  <1> HIDE DEF row
  <1>5. /\ facts' \in [Rows -> FactRow] /\ facts'[g] = row
        /\ \A f \in Rows \ {g} : facts'[f] = facts[f]
    BY <1>1, <1>3, <1>4, RowEdited
  <1>6. UNCHANGED <<sources, reviews, run, counters, ghosts>> /\ Turn(u, "restore")
    BY DEF Withdraw
  <1> HIDE DEF g
  <1>7. \A f \in Rows : /\ facts'[f].claim = facts[f].claim
                        /\ facts'[f].gone = facts[f].gone
                        /\ facts'[f].next = facts[f].next
                        /\ facts'[f].current <=> facts[f].current /\ f # g
    BY <1>1, <1>3, <1>5
  <1>8. /\ Rows' = Rows /\ Live' = Live
        /\ Shapes' /\ Bounds' /\ Reads' /\ reviewer'[u].step = "restore"
        /\ \A v \in Reviewers \ {u} : reviewer'[v] = reviewer[v]
    <2>1. \A f \in Rows : facts'[f].next \in Rows \cup {NoRow}
      BY <1>7 DEF FactInv, Bounds
    <2>2. ~On(u, "idle") /\ reviewer[u].step \in {"apply", "withdraw"}
      BY <1>1 DEF On
    <2>3. gap' \in BOOLEAN /\ crossed' \subseteq Rows /\ UNCHANGED unfiled
      BY <1>6 DEF FactInv, Shapes, Bounds, ghosts
    <2> QED
      BY <1>5, <1>6, <1>7, <2>1, <2>2, <2>3, TurnStep
  <1>9. Current' = Current \ {g}
    BY <1>7, <1>8 DEF Current, Live
  <1>10. SupersededIsRetired' /\ LinksAreSafe'
    BY <1>6, <1>7, <1>9
    DEF FactInv, SupersededIsRetired, LinksAreSafe, At, ghosts, Current, Live
  <1>11. GuardHolds'
    BY <1>6, <1>7, <1>8 DEF FactInv, GuardHolds, Bounds, Live
  <1>12. ASSUME NEW f \in Live \ (Current' \cup unfiled)  PROVE Filed(f)'
    <2>1. CASE f = g
      BY <1>1, <1>6, <2>1 DEF Filed, Reviewed
    <2>2. CASE f # g
      <3>1. Filed(f) /\ facts'[f].claim = facts[f].claim
        BY <1>7, <1>9, <1>12, <2>2 DEF FactInv, ReplacedIsFiled, Live
      <3> QED
        BY <1>6, <3>1 DEF Filed, Reviewed, InHand
    <2> QED
      BY <2>1, <2>2
  <1>13. ReplacedIsFiled'
    BY <1>6, <1>8, <1>12 DEF ReplacedIsFiled, ghosts
  <1>14. ValueIsComing'
    BY <1>8 DEF ValueIsComing, Turning
  <1> QED
    BY <1>8, <1>10, <1>11, <1>13, <1>14 DEF FactInv

\* A decision makes row g current; whoever is about to link it crosses it.
LEMMA CurrentStep ==
  ASSUME FactInv, NEW u \in Reviewers, Turn(u, "resolve"), ~On(u, "idle"),
         NEW g \in Rows, MakeCurrent(g), facts[g].claim # Empty,
         NEW n \in {NoRow, facts[g].next},
         facts' = [facts EXCEPT ![g] = [facts[g] EXCEPT !.current = TRUE, !.next = n]],
         gap' = FALSE,
         crossed' = {f \in crossed \cup {g} : f # g \/ Linking(g) \/ n # NoRow},
         UNCHANGED <<sources, reviews, run, counters, unfiled>>
  PROVE  FactInv'
  <1> DEFINE row == [facts[g] EXCEPT !.current = TRUE, !.next = n]
  <1>1. facts[g] \in FactRow /\ NoRow \in Nat
    BY RowsOfFacts DEF FactInv, Shapes, NoRow
  <1>2. /\ row \in FactRow /\ row.current /\ row.next = n
        /\ row.claim = facts[g].claim /\ row.gone = facts[g].gone
    BY <1>1 DEF FactRow
  <1>3. facts' = [facts EXCEPT ![g] = row]
    OBVIOUS
  <1> HIDE DEF row
  <1>4. /\ facts' \in [Rows -> FactRow] /\ facts'[g] = row
        /\ \A f \in Rows \ {g} : facts'[f] = facts[f]
    BY <1>2, <1>3, RowEdited
  <1>5. /\ \A f \in Rows : /\ facts'[f].claim = facts[f].claim
                           /\ facts'[f].gone = facts[f].gone
                           /\ facts'[f].next \in {NoRow, facts[f].next}
                           /\ facts'[f].current <=> facts[f].current \/ f = g
        /\ facts'[g].next = n
    BY <1>2, <1>4
  <1>6. /\ Rows' = Rows /\ Live' = Live
        /\ Shapes' /\ Bounds' /\ Reads'
    <2>1. \A f \in Rows : facts'[f].next \in Rows \cup {NoRow}
      BY <1>5 DEF FactInv, Bounds
    <2>2. gap' \in BOOLEAN /\ crossed' \subseteq Rows
      BY DEF FactInv, Bounds
    <2> QED
      BY <1>4, <1>5, <2>1, <2>2, TurnStep
  <1>7. Current' = {g}
    BY <1>5, <1>6 DEF Current, Live, MakeCurrent
  <1>8. SupersededIsRetired'
    BY <1>5, <1>7 DEF SupersededIsRetired
  <1>9. LinksAreSafe'
    BY <1>7 DEF LinksAreSafe, Linking, At
  <1>10. GuardHolds'
    BY <1>5, <1>6 DEF FactInv, GuardHolds, Bounds, Live
  <1>11. ASSUME NEW f \in Live \ (Current' \cup unfiled)  PROVE Filed(f)'
    <2>1. Filed(f) /\ facts'[f].claim = facts[f].claim
      BY <1>5, <1>7, <1>11 DEF FactInv, ReplacedIsFiled, Live, MakeCurrent
    <2> QED
      BY <2>1 DEF Filed, Reviewed, InHand
  <1>12. ReplacedIsFiled'
    BY <1>6, <1>11 DEF ReplacedIsFiled
  <1>13. ValueIsComing'
    BY <1>5, <1>7 DEF ValueIsComing, Valued
  <1> QED
    BY <1>6, <1>8, <1>9, <1>10, <1>12, <1>13 DEF FactInv

LEMMA ReapplyStep ==
  ASSUME FactInv, NEW u \in Reviewers, Reapply(u)
  PROVE  FactInv'
  <1> DEFINE g == Read(u).new
  <1>1. /\ On(u, "reapply") /\ g \in Rows /\ facts[g].claim # Empty
        /\ MakeCurrent(g) /\ Turn(u, "resolve") /\ gap' = FALSE
        /\ UNCHANGED <<sources, reviews, run, counters, unfiled>>
    BY DEF FactInv, Reads, DecisionOk, Reapply, On, Valuable
  <1>2. facts[g] \in FactRow
    BY <1>1, RowsOfFacts DEF FactInv, Shapes
  <1>3. [facts[g] EXCEPT !.current = TRUE]
          = [facts[g] EXCEPT !.current = TRUE, !.next = facts[g].next]
    BY <1>2 DEF FactRow
  <1>4. facts' = [facts EXCEPT ![g] = [facts[g] EXCEPT !.current = TRUE,
                                                      !.next = facts[g].next]]
    BY <1>1, <1>3 DEF Reapply
  <1>5. crossed' = {f \in crossed \cup {g} :
                      f # g \/ Linking(g) \/ facts[g].next # NoRow}
    BY DEF Reapply
  <1> QED
    BY <1>1, <1>4, <1>5, CurrentStep DEF On

LEMMA RestoreStep ==
  ASSUME FactInv, NEW u \in Reviewers, Restore(u)
  PROVE  FactInv'
  <1> DEFINE g == Read(u).old
  <1>1. /\ On(u, "restore") /\ g \in Rows /\ facts[g].claim # Empty
        /\ MakeCurrent(g) /\ Turn(u, "resolve") /\ gap' = FALSE
        /\ UNCHANGED <<sources, reviews, run, counters, unfiled>>
    BY DEF FactInv, Reads, DecisionOk, Restore, On, Valuable
  <1>2. facts' = [facts EXCEPT ![g] = [facts[g] EXCEPT !.current = TRUE,
                                                      !.next = NoRow]]
    BY <1>1 DEF Restore
  <1>3. crossed' = {f \in crossed \cup {g} :
                      f # g \/ Linking(g) \/ NoRow # NoRow}
    BY DEF Restore
  <1> QED
    BY <1>1, <1>2, <1>3, CurrentStep DEF On

\* A retraction deletes rows; what refers to them is nulled with them.
LEMMA DeleteStep ==
  ASSUME FactInv, NEW u \in Reviewers, Delete(u)
  PROVE  FactInv'
  <1> DEFINE doomed == reviewer[u].rows \cap Live
             Ref(f) == IF f \in doomed THEN NoRow ELSE f
             row(f) == [facts[f] EXCEPT !.gone = @ \/ f \in doomed,
                                        !.current = @ /\ f \notin doomed,
                                        !.next = Ref(@)]
             rev(k) == [reviews[k] EXCEPT !.old = Ref(@), !.new = Ref(@)]
             r == [reviewer[u] EXCEPT !.step = "resolve"]
  <1>1. /\ facts' = [f \in Rows |-> row(f)]
        /\ reviews' = [k \in DOMAIN reviews |-> rev(k)]
        /\ sources' = {s \in sources : s[1] \notin doomed}
        /\ gap' = (gap \/ doomed \cap Current # {})
        /\ Turn(u, "resolve") /\ On(u, "delete")
        /\ UNCHANGED <<run, counters, unfiled, crossed>>
    BY DEF Delete
  <1>2. ASSUME NEW f \in Rows
        PROVE  /\ row(f) \in FactRow /\ row(f).claim = facts[f].claim
               /\ row(f).next = Ref(facts[f].next)
               /\ row(f).gone <=> facts[f].gone \/ f \in doomed
               /\ row(f).current <=> facts[f].current /\ f \notin doomed
    <2>1. facts[f] \in FactRow
      BY RowsOfFacts DEF FactInv, Shapes
    <2>2. Ref(facts[f].next) \in Nat
      BY <2>1 DEF FactRow, NoRow
    <2> QED
      BY <2>1, <2>2 DEF FactRow
  <1>3. ASSUME NEW k \in DOMAIN reviews
        PROVE  /\ rev(k) \in ReviewRow
               /\ rev(k).old = Ref(reviews[k].old) /\ rev(k).new = Ref(reviews[k].new)
               /\ rev(k).held = reviews[k].held /\ rev(k).item = reviews[k].item
    <2>1. reviews[k] \in ReviewRow
      BY DEF FactInv, Shapes
    <2>2. Ref(reviews[k].old) \in Nat /\ Ref(reviews[k].new) \in Nat
      BY <2>1 DEF ReviewRow, NoRow
    <2> QED
      BY <2>1, <2>2 DEF ReviewRow
  <1>4. /\ r \in DecisionRow /\ r.step = "resolve" /\ r.review = reviewer[u].review
        /\ reviewer' = [reviewer EXCEPT ![u] = r] /\ reviewer'[u] = r
        /\ \A v \in Reviewers \ {u} : reviewer'[v] = reviewer[v]
    BY <1>1 DEF FactInv, Shapes, DecisionRow, ReviewStep, Turn
  <1> HIDE DEF row, rev, r
  <1>5. /\ facts' \in [Rows -> FactRow]
        /\ reviews' \in [DOMAIN reviews -> ReviewRow]
    BY <1>1, <1>2, <1>3
  <1>6. /\ facts' \in Seq(FactRow) /\ Rows' = Rows
        /\ reviews' \in Seq(ReviewRow) /\ DOMAIN reviews' = DOMAIN reviews
    BY <1>5, RowsKept, ReviewsKept DEF FactInv, Shapes
  <1>7. \A f \in Rows : /\ facts'[f].claim = facts[f].claim
                        /\ facts'[f].next = Ref(facts[f].next)
                        /\ facts'[f].gone <=> facts[f].gone \/ f \in doomed
                        /\ facts'[f].current <=> facts[f].current /\ f \notin doomed
    BY <1>1, <1>2
  <1>8. \A k \in DOMAIN reviews :
          /\ reviews'[k].old = Ref(reviews[k].old)
          /\ reviews'[k].new = Ref(reviews[k].new)
          /\ reviews'[k].held = reviews[k].held /\ reviews'[k].item = reviews[k].item
    BY <1>1, <1>3
  <1>9. Live' = Live \ doomed
    BY <1>6, <1>7 DEF Live
  <1>10. Current' = Current \ doomed
    BY <1>6, <1>7, <1>9 DEF Current, Live
  <1>11. doomed \subseteq Live /\ NoRow \notin doomed
    BY RowsOfFacts DEF FactInv, Shapes, Live
  <1> HIDE DEF doomed
  <1>12. Shapes'
    <2>1. gap' \in BOOLEAN
      BY <1>1 DEF FactInv, Shapes
    <2> QED
      BY <1>1, <1>4, <1>6, <2>1 DEF FactInv, Shapes
  <1>13. Bounds'
    <2>1. \A f \in Rows : facts'[f].next \in Rows \cup {NoRow}
      BY <1>7 DEF FactInv, Bounds
    <2>2. sources' \subseteq Live' \X Items
      BY <1>1, <1>9 DEF FactInv, Bounds
    <2> QED
      BY <1>1, <1>6, <2>1, <2>2 DEF FactInv, Bounds, counters
  <1>14. \A w \in Runs : RunOk(w)'
    BY <1>1, <1>6, <1>7, RunOkKept DEF FactInv, Reads
  <1>15. ASSUME NEW k \in DOMAIN reviews'  PROVE ReviewOk(k)'
    <2>1. k \in DOMAIN reviews /\ ReviewOk(k)
      BY <1>6 DEF FactInv, Reads
    <2> QED
      BY <1>7, <1>8, <1>9, <2>1 DEF ReviewOk, Live
  <1>16. ASSUME NEW v \in Reviewers  PROVE DecisionOk(v)'
    <2>1. CASE v = u
      <3>1. reviewer[u].review \in DOMAIN reviews
        BY <1>1 DEF FactInv, Reads, DecisionOk, On
      <3> QED
        BY <1>4, <1>6, <2>1, <3>1 DEF DecisionOk, On
    <2>2. CASE v # u
      <3>1. \A k \in DOMAIN reviews :
              /\ reviews'[k].held = reviews[k].held
              /\ reviews[k].old \in Live' => reviews'[k].old = reviews[k].old
              /\ reviews[k].new \in Live' => reviews'[k].new = reviews[k].new
        BY <1>8, <1>9
      <3> QED
        BY <1>4, <1>6, <1>7, <2>2, <3>1, DecisionOkKept DEF FactInv, Reads
    <2> QED
      BY <2>1, <2>2
  <1>17. SupersededIsRetired'
    BY <1>1, <1>7, <1>10 DEF FactInv, SupersededIsRetired, Current, Live
  <1>18. LinksAreSafe'
    BY <1>1, <1>10 DEF FactInv, LinksAreSafe, At
  <1>19. GuardHolds'
    <2> SUFFICES ASSUME NEW f \in Live', facts'[f].next # NoRow
                 PROVE  LET g == facts'[f].next IN
                          \/ facts'[g].claim.conf + Margin >= facts'[f].claim.conf
                          \/ \E k \in DOMAIN reviews' :
                               reviews'[k].held /\ reviews'[k].old = f /\ reviews'[k].new = g
      BY DEF GuardHolds
    <2> DEFINE g == facts[f].next
    <2>1. /\ f \in Live /\ f \in Rows /\ f \notin doomed
          /\ facts'[f].next = g /\ g \notin doomed /\ g # NoRow
      BY <1>7, <1>9 DEF Live
    <2>2. g \in Rows
      BY <2>1 DEF FactInv, Bounds
    <2>3. \/ facts[g].claim.conf + Margin >= facts[f].claim.conf
          \/ \E k \in DOMAIN reviews :
               reviews[k].held /\ reviews[k].old = f /\ reviews[k].new = g
      BY <2>1 DEF FactInv, GuardHolds
    <2> QED
      BY <1>6, <1>7, <1>8, <2>1, <2>2, <2>3
  <1>20. ASSUME NEW f \in Live' \ (Current' \cup unfiled)  PROVE Filed(f)'
    <2>1. f \in Live /\ f \notin doomed /\ f \in Rows
      BY <1>9, <1>20 DEF Live
    <2>2. Filed(f) /\ facts'[f].claim = facts[f].claim
      BY <1>7, <1>10, <1>20, <2>1 DEF FactInv, ReplacedIsFiled
    <2>3. Reviewed(f) => Reviewed(f)'
      BY <1>6, <1>8, <2>1 DEF Reviewed
    <2> QED
      BY <1>1, <2>2, <2>3 DEF Filed, InHand
  <1>21. ReplacedIsFiled'
    BY <1>1, <1>20 DEF ReplacedIsFiled
  <1>22. ValueIsComing'
    <2>1. ~gap' /\ Valued => Valued'
      BY <1>1, <1>7, <1>10 DEF Valued, Current, Live
    <2>2. ~Turning(u)
      BY <1>1 DEF On, Turning
    <2>3. ~gap' => ~gap
      BY <1>1
    <2> QED
      BY <1>1, <1>4, <1>6, <1>7, <2>1, <2>2, <2>3
      DEF FactInv, ValueIsComing, Turning, Replacing, At
  <1> QED
    BY <1>12, <1>13, <1>14, <1>15, <1>16, <1>17, <1>18, <1>19, <1>21, <1>22
    DEF FactInv, Reads

-----------------------------------------------------------------------------
LEMMA Begins == Init => FactInv
  <1> SUFFICES ASSUME Init PROVE FactInv
    OBVIOUS
  <1>1. Rows = {} /\ DOMAIN reviews = {}
    BY DEF Init, Rows
  <1>2. Live = {} /\ Current = {}
    BY <1>1 DEF Live, Current
  <1>3. Shapes
    <2>1. facts \in Seq(FactRow) /\ reviews \in Seq(ReviewRow)
      BY DEF Init
    <2>2. run \in [Runs -> RunRow] /\ reviewer \in [Reviewers -> DecisionRow]
      BY RowsAreShaped DEF Init
    <2> QED
      BY <2>1, <2>2 DEF Init, Shapes
  <1>4. Bounds
    BY <1>1, FactAssumption DEF Init, Bounds
  <1>5. \A w \in Runs : RunOk(w) /\ ~At(w, "link")
    BY DEF Init, RunOk, At, NoRun
  <1>6. \A u \in Reviewers : DecisionOk(u)
    BY DEF Init, DecisionOk, On, NoDecision
  <1>7. Reads /\ LinksAreSafe
    BY <1>1, <1>5, <1>6 DEF Reads, LinksAreSafe
  <1>8. SupersededIsRetired /\ GuardHolds /\ ReplacedIsFiled /\ ValueIsComing
    BY <1>1, <1>2
    DEF SupersededIsRetired, GuardHolds, ReplacedIsFiled, ValueIsComing
  <1> QED
    BY <1>3, <1>4, <1>7, <1>8 DEF FactInv

LEMMA Steps == FactInv /\ [Next]_vars => FactInv'
  <1> SUFFICES ASSUME FactInv, [Next]_vars PROVE FactInv'
    OBVIOUS
  <1>1. ASSUME NEW w \in Runs, RunNext(w)  PROVE FactInv'
    BY <1>1, StartStep, LookStep, GuardStep, HoldStep, RetireStep, InsertStep,
       LinkStep, SourceStep, FileStep, FillStep, CloseStep, RunFailsStep,
       RunDiesStep
    DEF RunNext
  <1>2. ASSUME NEW u \in Reviewers, ReviewNext(u)  PROVE FactInv'
    BY <1>2, DecideStep, ApplyStep, ReapplyStep, WithdrawStep, RestoreStep,
       UnsourceStep, SelectStep, SieveStep, DeleteStep, ResolveStep,
       ReviewFailsStep, ReviewDiesStep
    DEF ReviewNext
  <1>3. CASE UNCHANGED vars
    <2>1. UNCHANGED <<facts, sources, reviews, run, reviewer, starts, decisions,
                      deaths, gap, unfiled, crossed, Rows, Live, Current, Valued>>
      BY <1>3 DEF vars, Rows, Live, Current, Valued
    <2>2. Shapes' /\ Bounds' /\ Reads'
      BY <2>1 DEF FactInv, Shapes, Bounds, Reads, RunOk, ReviewOk, DecisionOk,
                  At, On, Read, Valuable
    <2>3. SupersededIsRetired' /\ LinksAreSafe' /\ GuardHolds'
      BY <2>1 DEF FactInv, SupersededIsRetired, LinksAreSafe, GuardHolds, At
    <2>4. ReplacedIsFiled' /\ ValueIsComing'
      BY <2>1 DEF FactInv, ReplacedIsFiled, Filed, Reviewed, InHand,
                  ValueIsComing, Replacing, Turning, At
    <2> QED
      BY <2>2, <2>3, <2>4 DEF FactInv
  <1> QED
    BY <1>1, <1>2, <1>3 DEF Next

LEMMA FactInvHolds == Spec => []FactInv
  BY Begins, Steps, PTL DEF Spec

\* Rows, provenance, reviews and what runs and decisions remember keep their
\* types: no provenance and no review ever names a row that is gone.
THEOREM FactTypesHold == Spec => []TypeOK
  <1>1. ASSUME FactInv PROVE TypeOK
    <2>1. \A f \in Rows : facts[f] \in FactRow
      BY <1>1, RowsOfFacts DEF FactInv, Shapes
    <2>2. \A f \in Rows : facts[f] \in
            [claim : Claims, item : Items \cup {NoOne}, current : BOOLEAN,
             next : Rows \cup {NoRow}, gone : BOOLEAN]
      BY <1>1, <2>1 DEF FactInv, Bounds, FactRow
    <2>3. \A k \in DOMAIN reviews : reviews[k] \in ReviewRow /\ ReviewOk(k)
      BY <1>1 DEF FactInv, Shapes, Reads
    <2>4. \A k \in DOMAIN reviews : reviews[k] \in
            [kind : {"conflict", "extraction"}, old : Live \cup {NoRow},
             new : Live \cup {NoRow}, held : BOOLEAN, item : Items,
             status : {"pending", "accepted", "rejected"}]
      BY <2>3 DEF ReviewOk, ReviewRow
    <2>5. \A w \in Runs : run[w] \in RunRow /\ RunOk(w)
      BY <1>1 DEF FactInv, Shapes, Reads
    <2>6. \A w \in Runs : run[w] \in
            [step : RunStep, item : Items \cup {NoOne}, claim : Claims,
             seen : Rows \cup {NoRow}, target : Rows \cup {NoRow}, held : BOOLEAN]
      BY <2>5 DEF RunOk, RunRow
    <2>7. \A u \in Reviewers : reviewer[u].step \in ReviewStep
      BY <1>1 DEF FactInv, Shapes, DecisionRow
    <2> QED
      BY <1>1, <2>2, <2>4, <2>6, <2>7 DEF FactInv, Shapes, Bounds, TypeOK
  <1> QED
    BY <1>1, FactInvHolds, PTL

\* When nothing is under way, a slot that once had a value has one, unless
\* something ended between the two writes of a replacement or a retraction
\* deleted the row.
THEOREM SlotKeepsItsValue == Spec => []SlotKept
  <1>1. ASSUME FactInv PROVE SlotKept
    BY <1>1 DEF FactInv, ValueIsComing, SlotKept, Quiet, Replacing, Turning, At,
                On, Live
  <1> QED
    BY <1>1, FactInvHolds, PTL

\* When nothing is under way, every value that is not current any more is on
\* file, unless the run that replaced it ended before it filed.
THEOREM ReplacedValuesAreFiled == Spec => []ReplacementOnFile
  <1>1. ASSUME FactInv PROVE ReplacementOnFile
    BY <1>1 DEF FactInv, ReplacedIsFiled, Filed, Reviewed, InHand,
                ReplacementOnFile, Quiet, At
  <1> QED
    BY <1>1, FactInvHolds, PTL

\* No row is both current and superseded, unless a decision crossed its link.
THEOREM SupersededRowsAreRetired == Spec => []SupersededIsRetired
  <1>1. ASSUME FactInv PROVE SupersededIsRetired
    BY <1>1 DEF FactInv
  <1> QED
    BY <1>1, FactInvHolds, PTL

\* A row is superseded only within the margin, or by a candidate the user was
\* asked about.
THEOREM WeakClaimsAreHeld == Spec => []GuardHolds
  <1>1. ASSUME FactInv PROVE GuardHolds
    BY <1>1 DEF FactInv
  <1> QED
    BY <1>1, FactInvHolds, PTL
==============================================================================
