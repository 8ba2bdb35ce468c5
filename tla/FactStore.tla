------------------------------ MODULE FactStore ------------------------------
(***************************************************************************)
(* One single-valued slot of the fact store: the rows of `facts` that have *)
(* its claim_key, their provenance and the reviews about them              *)
(* (lib/datamodo/knowledge.ts, lib/datamodo/reviews.ts).                   *)
(*                                                                         *)
(* Runs are extraction runs: each files one claim of one item with         *)
(* upsertFact.  Reviewers are calls of acceptReview and rejectReview.      *)
(* None of them opens a transaction, so every SQL statement is one action, *)
(* and a statement fails on what the schema declares: the partial unique   *)
(* index facts_current_claim_uq and the foreign keys.                      *)
(*                                                                         *)
(* Rows are named by their position, in the order of insertion.            *)
(***************************************************************************)
EXTENDS Integers, Sequences, FiniteSets

CONSTANTS
  Items,        \* captured messages
  ClaimsOf,     \* what extraction may read in an item: [value, conf] records
  Runs,         \* extraction runs that may be live at one time
  Reviewers,    \* accept or reject calls that may be live at one time
  Margin,       \* SUPERSEDE_GUARD_MARGIN (confidences are in tenths)
  ReviewBelow,  \* EXTRACTION_REVIEW_BELOW
  Templated,    \* whether a kind's template declares the slot
  MaxStarts,    \* bound: runs that are ever started
  MaxDecisions, \* bound: decisions that are ever taken
  MaxDeaths     \* bound: processes that die between two statements

NoRow == 0
Empty == [value |-> "null", conf |-> 0]   \* a placeholder's claim

ASSUME FactAssumption ==
  /\ \A i \in Items : \A c \in ClaimsOf[i] :
        /\ c.conf \in Nat
        /\ c.value # Empty.value
  /\ Margin \in Nat
  /\ ReviewBelow \in Nat
  /\ Templated \in BOOLEAN
  /\ {MaxStarts, MaxDecisions, MaxDeaths} \subseteq Nat

NoOne == "nobody"      \* the item of a placeholder, or of no run
Claims == (UNION {ClaimsOf[i] : i \in Items}) \cup {Empty}

RunStep == {"idle", "look", "guard", "hold", "retire", "insert", "link",
            "source", "file", "fill", "close"}
ReviewStep == {"idle", "apply", "reapply", "withdraw", "restore", "unsource",
               "select", "sieve", "delete", "resolve"}

VARIABLES
  facts,      \* rows [claim, item, current (valid_to is null), next
              \*       (superseded_by), gone (deleted)]
  sources,    \* fact_sources: pairs <<row, item>>
  reviews,    \* knowledge_reviews: [kind, old, new, held, item, status]
  run,        \* a run: [step, item, claim, seen, target, held]
  reviewer,   \* a decision: [step, review, accept, r (as it was read), rows]
  starts, decisions, deaths,
  gap,        \* the slot lost its value: a replacement ended between its two
              \* writes, or the current row was retracted
  unfiled,    \* rows that a run replaced or wrote and ended before it filed
              \* their source and their conflict
  crossed     \* rows a decision made current while they had a successor, or
              \* while a run that had inserted one was about to link it

tables   == <<facts, sources, reviews>>
counters == <<starts, decisions, deaths>>
ghosts   == <<gap, unfiled, crossed>>
vars == <<facts, sources, reviews, run, reviewer, starts, decisions, deaths,
          gap, unfiled, crossed>>

Rows == 1..Len(facts)
Live == {f \in Rows : ~facts[f].gone}
Current == {f \in Live : facts[f].current}
Valued == \E f \in Current : facts[f].claim # Empty

TypeOK ==
  /\ \A f \in Rows : facts[f] \in
       [claim : Claims, item : Items \cup {NoOne}, current : BOOLEAN,
        next : Rows \cup {NoRow}, gone : BOOLEAN]
  /\ sources \subseteq Live \X Items
  /\ \A k \in DOMAIN reviews : reviews[k] \in
       [kind : {"conflict", "extraction"}, old : Live \cup {NoRow},
        new : Live \cup {NoRow}, held : BOOLEAN, item : Items,
        status : {"pending", "accepted", "rejected"}]
  /\ \A w \in Runs : run[w] \in
       [step : RunStep, item : Items \cup {NoOne}, claim : Claims,
        seen : Rows \cup {NoRow}, target : Rows \cup {NoRow}, held : BOOLEAN]
  /\ \A u \in Reviewers : reviewer[u].step \in ReviewStep
  /\ starts \in 0..MaxStarts /\ decisions \in 0..MaxDecisions
  /\ deaths \in 0..MaxDeaths
  /\ gap \in BOOLEAN /\ unfiled \subseteq Rows /\ crossed \subseteq Rows

NoRun == [step |-> "idle", item |-> NoOne, claim |-> Empty, seen |-> NoRow,
          target |-> NoRow, held |-> FALSE]
NoReview == [kind |-> "conflict", old |-> NoRow, new |-> NoRow, held |-> FALSE,
             item |-> NoOne, status |-> "pending"]
NoDecision == [step |-> "idle", review |-> 0, accept |-> FALSE,
               r |-> NoReview, rows |-> {}]

Init ==
  /\ facts = << >> /\ sources = {} /\ reviews = << >>
  /\ run = [w \in Runs |-> NoRun]
  /\ reviewer = [u \in Reviewers |-> NoDecision]
  /\ starts = 0 /\ decisions = 0 /\ deaths = 0
  /\ gap = FALSE /\ unfiled = {} /\ crossed = {}

-----------------------------------------------------------------------------
(* upsertFact, one statement after the other.                              *)

At(w, s) == run[w].step = s
Go(w, s) == run' = [run EXCEPT ![w].step = s]

NewRow(w, current) ==
  [claim |-> run[w].claim, item |-> run[w].item, current |-> current,
   next |-> NoRow, gone |-> FALSE]

\* A run of an item begins.  The lease of the queue (ExtractionQueue.tla)
\* keeps two live runs off the same item; a later run may repeat it.
Start(w) ==
  \E i \in Items : \E c \in ClaimsOf[i] :
    /\ At(w, "idle")
    /\ starts < MaxStarts
    /\ \A v \in Runs : run[v].item # i
    /\ run' = [run EXCEPT ![w] = [NoRun EXCEPT !.step = "look", !.item = i,
                                               !.claim = c]]
    /\ starts' = starts + 1
    /\ UNCHANGED <<tables, reviewer, decisions, deaths, ghosts>>

\* What the run does with the current row it read, before it reads more.
AfterLook(w, f) ==
  IF f = NoRow THEN "insert" ELSE
    CASE facts[f].claim.value = run[w].claim.value  -> "source"
      [] facts[f].claim = Empty                     -> "retire"
      [] OTHER                                      -> "guard"

\* The batched prefetch of the current rows, at the head of the fact loop.
Look(w) ==
  /\ At(w, "look")
  /\ \E f \in IF Current = {} THEN {NoRow} ELSE Current :
       run' = [run EXCEPT ![w].seen = f, ![w].target = f,
                          ![w].step = AfterLook(w, f)]
  /\ UNCHANGED <<tables, reviewer, counters, ghosts>>

SourceCount(f) == Cardinality({s \in sources : s[1] = f})

\* Mutant: only what has two sources is guarded.
WeakerThanCorroborated(claim, f) ==
  SourceCount(f) >= 2 /\ claim.conf < facts[f].claim.conf

\* The supersession guard: weaker by the margin, or weaker at all than a
\* value with two sources.
Weaker(claim, f) ==
  \/ claim.conf + Margin < facts[f].claim.conf
  \/ SourceCount(f) >= 2 /\ claim.conf < facts[f].claim.conf

Guard(w) ==
  /\ At(w, "guard")
  /\ Go(w, IF Weaker(run[w].claim, run[w].seen) THEN "hold" ELSE "retire")
  /\ UNCHANGED <<tables, reviewer, counters, ghosts>>

\* The weaker candidate is recorded retired.
Hold(w) ==
  /\ At(w, "hold")
  /\ facts' = Append(facts, NewRow(w, FALSE))
  /\ run' = [run EXCEPT ![w].step = "source", ![w].target = Len(facts) + 1,
                        ![w].held = TRUE]
  /\ UNCHANGED <<sources, reviews, reviewer, counters, ghosts>>

\* update facts set valid_to = now where id = current.id, whatever the row
\* has become since it was read.
Retire(w) ==
  /\ At(w, "retire")
  /\ ~facts[run[w].seen].gone
  /\ facts' = [facts EXCEPT ![run[w].seen].current = FALSE]
  /\ Go(w, "insert")
  /\ UNCHANGED <<sources, reviews, reviewer, counters, ghosts>>

\* facts.create with valid_to null: facts_current_claim_uq admits one.
Insert(w) ==
  /\ At(w, "insert")
  /\ Current = {}
  /\ facts' = Append(facts, NewRow(w, TRUE))
  /\ run' = [run EXCEPT ![w].step = IF run[w].seen = NoRow THEN "source"
                                                            ELSE "link",
                        ![w].target = Len(facts) + 1]
  /\ gap' = FALSE
  /\ UNCHANGED <<sources, reviews, reviewer, counters, unfiled, crossed>>

Link(w) ==
  /\ At(w, "link")
  /\ ~facts[run[w].seen].gone
  /\ ~facts[run[w].target].gone
  /\ facts' = [facts EXCEPT ![run[w].seen].next = run[w].target]
  /\ Go(w, "source")
  /\ UNCHANGED <<sources, reviews, reviewer, counters, ghosts>>

\* Mutant: only a held candidate is filed.
ContradictsHeld(w) == run[w].held

\* A conflict is filed for a held candidate and for a superseded value; a
\* placeholder is filled silently.
Contradicts(w) ==
  /\ run[w].seen \notin {NoRow, run[w].target}
  /\ facts[run[w].seen].claim # Empty

\* fact_sources upsert.
Source(w) ==
  /\ At(w, "source")
  /\ ~facts[run[w].target].gone
  /\ sources' = sources \cup {<<run[w].target, run[w].item>>}
  /\ Go(w, IF Contradicts(w) THEN "file" ELSE "fill")
  /\ UNCHANGED <<facts, reviews, reviewer, counters, ghosts>>

\* createConflictReview.
File(w) ==
  /\ At(w, "file")
  /\ ~facts[run[w].seen].gone
  /\ ~facts[run[w].target].gone
  /\ reviews' = Append(reviews,
       [kind |-> "conflict", old |-> run[w].seen, new |-> run[w].target,
        held |-> run[w].held, item |-> run[w].item, status |-> "pending"])
  /\ Go(w, "fill")
  /\ UNCHANGED <<facts, sources, reviewer, counters, ghosts>>

\* ensureTemplateSlots: a placeholder where the template's slot is empty.
Fill(w) ==
  /\ At(w, "fill")
  /\ facts' = IF Templated /\ Current = {}
                THEN Append(facts, [claim |-> Empty, item |-> NoOne,
                                    current |-> TRUE, next |-> NoRow,
                                    gone |-> FALSE])
                ELSE facts
  /\ Go(w, "close")
  /\ UNCHANGED <<sources, reviews, reviewer, counters, ghosts>>

\* The tail of runExtractionForItem: a review of a doubtful extraction.
Close(w) ==
  /\ At(w, "close")
  /\ reviews' = IF run[w].claim.conf < ReviewBelow
                  THEN Append(reviews, [NoReview EXCEPT !.kind = "extraction",
                                                        !.item = run[w].item])
                  ELSE reviews
  /\ run' = [run EXCEPT ![w] = NoRun]
  /\ UNCHANGED <<facts, sources, reviewer, counters, ghosts>>

\* What a run that ends leaves unfiled: a held candidate, or the row it has
\* retired and the one it has inserted.
Unfiled(w) ==
  {f \in Rows : \/ run[w].held /\ f = run[w].target
                \/ /\ ~run[w].held /\ f = run[w].seen
                   /\ run[w].step \in {"insert", "link", "source", "file"}
                \/ /\ ~run[w].held /\ f = run[w].target
                   /\ run[w].step \in {"link", "source", "file"}}

\* A run that ends early leaves a replacement half done, or a value it has
\* replaced without a conflict on file.
Abandon(w) ==
  /\ run' = [run EXCEPT ![w] = NoRun]
  /\ gap' = (gap \/ (At(w, "insert") /\ run[w].seen # NoRow /\ ~Valued))
  /\ unfiled' = unfiled \cup Unfiled(w)
  /\ UNCHANGED <<tables, reviewer, starts, decisions, crossed>>

\* The statement the run is at violates the unique index or a foreign key,
\* or updates a row that is gone: upsertFact throws.
RunFails(w) ==
  /\ \/ At(w, "retire") /\ facts[run[w].seen].gone
     \/ At(w, "insert") /\ Current # {}
     \/ At(w, "source") /\ facts[run[w].target].gone
     \/ /\ run[w].step \in {"link", "file"}
        /\ facts[run[w].seen].gone \/ facts[run[w].target].gone
  /\ Abandon(w)
  /\ UNCHANGED deaths

RunDies(w) ==
  /\ ~At(w, "idle")
  /\ deaths < MaxDeaths
  /\ deaths' = deaths + 1
  /\ Abandon(w)

-----------------------------------------------------------------------------
(* acceptReview and rejectReview.                                          *)

On(u, s) == reviewer[u].step = s
Turn(u, s) == reviewer' = [reviewer EXCEPT ![u].step = s]
Read(u) == reviewer[u].r

FirstStep(r, accept) ==
  LET whole == r.kind = "conflict" /\ NoRow \notin {r.old, r.new} IN
    CASE whole /\ accept /\ r.held        -> "apply"
      [] whole /\ ~accept /\ ~r.held      -> "withdraw"
      [] r.kind = "extraction" /\ ~accept -> "unsource"
      [] OTHER                            -> "resolve"

\* loadPending.
Decide(u) ==
  \E k \in DOMAIN reviews, accept \in BOOLEAN :
    /\ On(u, "idle")
    /\ decisions < MaxDecisions
    /\ reviews[k].status = "pending"
    /\ reviewer' = [reviewer EXCEPT ![u] =
                      [NoDecision EXCEPT !.step = FirstStep(reviews[k], accept),
                                         !.review = k, !.accept = accept,
                                         !.r = reviews[k]]]
    /\ decisions' = decisions + 1
    /\ UNCHANGED <<tables, run, starts, deaths, ghosts>>

\* Accepting a held conflict retires the old value ...
Apply(u) ==
  /\ On(u, "apply")
  /\ {Read(u).old, Read(u).new} \subseteq Live
  /\ facts' = [facts EXCEPT ![Read(u).old].current = FALSE,
                            ![Read(u).old].next = Read(u).new]
  /\ Turn(u, "reapply")
  /\ UNCHANGED <<sources, reviews, run, counters, ghosts>>

MakeCurrent(f) ==
  /\ f \in Live
  /\ Current \subseteq {f}

\* A run has inserted the successor of f and not yet linked it.
Linking(f) == \E w \in Runs : At(w, "link") /\ run[w].seen = f

\* ... and makes the candidate current.
Reapply(u) ==
  /\ On(u, "reapply")
  /\ MakeCurrent(Read(u).new)
  /\ facts' = [facts EXCEPT ![Read(u).new].current = TRUE]
  /\ Turn(u, "resolve")
  /\ gap' = FALSE
  /\ crossed' = {f \in crossed \cup {Read(u).new} :
                   f # Read(u).new \/ Linking(f) \/ facts[f].next # NoRow}
  /\ UNCHANGED <<sources, reviews, run, counters, unfiled>>

\* Rejecting an applied conflict retires the new value ...
Withdraw(u) ==
  /\ On(u, "withdraw")
  /\ Read(u).new \in Live
  /\ facts' = [facts EXCEPT ![Read(u).new].current = FALSE]
  /\ Turn(u, "restore")
  /\ UNCHANGED <<sources, reviews, run, counters, ghosts>>

\* Mutant: the link to the successor stays.
RestoreLinked(u) ==
  /\ On(u, "restore")
  /\ MakeCurrent(Read(u).old)
  /\ facts' = [facts EXCEPT ![Read(u).old].current = TRUE]
  /\ Turn(u, "resolve")
  /\ gap' = FALSE
  /\ crossed' = {f \in crossed \cup {Read(u).old} : f # Read(u).old \/ Linking(f)}
  /\ UNCHANGED <<sources, reviews, run, counters, unfiled>>

\* Mutant: the row is unlinked but stays retired.
RestoreRetired(u) ==
  /\ On(u, "restore")
  /\ MakeCurrent(Read(u).old)
  /\ facts' = [facts EXCEPT ![Read(u).old].next = NoRow]
  /\ Turn(u, "resolve")
  /\ gap' = FALSE
  /\ crossed' = {f \in crossed \cup {Read(u).old} : f # Read(u).old \/ Linking(f)}
  /\ UNCHANGED <<sources, reviews, run, counters, unfiled>>

\* ... and makes the old one current again.
Restore(u) ==
  /\ On(u, "restore")
  /\ MakeCurrent(Read(u).old)
  /\ facts' = [facts EXCEPT ![Read(u).old].current = TRUE,
                            ![Read(u).old].next = NoRow]
  /\ Turn(u, "resolve")
  /\ gap' = FALSE
  /\ crossed' = {f \in crossed \cup {Read(u).old} : f # Read(u).old \/ Linking(f)}
  /\ UNCHANGED <<sources, reviews, run, counters, unfiled>>

\* Rejecting an extraction deletes the item's provenance, ...
Unsource(u) ==
  /\ On(u, "unsource")
  /\ sources' = {s \in sources : s[2] # Read(u).item}
  /\ Turn(u, "select")
  /\ UNCHANGED <<facts, reviews, run, counters, ghosts>>

\* ... selects the rows the item wrote, ...
SelectMine(u) ==
  /\ On(u, "select")
  /\ reviewer' = [reviewer EXCEPT
       ![u].rows = {f \in Live : facts[f].item = Read(u).item},
       ![u].step = "sieve"]
  /\ UNCHANGED <<tables, run, counters, ghosts>>

\* ... keeps the ones that still have a source, ...
Sieve(u) ==
  /\ On(u, "sieve")
  /\ reviewer' = [reviewer EXCEPT
       ![u].rows = {f \in @ : SourceCount(f) = 0},
       ![u].step = "delete"]
  /\ UNCHANGED <<tables, run, counters, ghosts>>

\* Mutant: the provenance is not deleted with the row.
DeleteRowsOnly(u) ==
  LET doomed == reviewer[u].rows \cap Live IN
    /\ On(u, "delete")
    /\ facts' = [f \in Rows |->
         [facts[f] EXCEPT !.gone = @ \/ f \in doomed,
                          !.current = @ /\ f \notin doomed]]
    /\ gap' = (gap \/ doomed \cap Current # {})
    /\ Turn(u, "resolve")
    /\ UNCHANGED <<sources, reviews, run, counters, unfiled, crossed>>

\* ... and deletes the others: provenance cascades, references become null.
Delete(u) ==
  LET doomed == reviewer[u].rows \cap Live
      Ref(f) == IF f \in doomed THEN NoRow ELSE f IN
    /\ On(u, "delete")
    /\ facts' = [f \in Rows |->
         [facts[f] EXCEPT !.gone = @ \/ f \in doomed,
                          !.current = @ /\ f \notin doomed,
                          !.next = Ref(@)]]
    /\ sources' = {s \in sources : s[1] \notin doomed}
    /\ reviews' = [k \in DOMAIN reviews |->
         [reviews[k] EXCEPT !.old = Ref(@), !.new = Ref(@)]]
    /\ gap' = (gap \/ doomed \cap Current # {})
    /\ Turn(u, "resolve")
    /\ UNCHANGED <<run, counters, unfiled, crossed>>

\* The last statement sets the status, whatever it is by now.
Resolve(u) ==
  /\ On(u, "resolve")
  /\ reviews' = [reviews EXCEPT ![reviewer[u].review].status =
                   IF reviewer[u].accept THEN "accepted" ELSE "rejected"]
  /\ reviewer' = [reviewer EXCEPT ![u] = NoDecision]
  /\ UNCHANGED <<facts, sources, run, counters, ghosts>>

Leave(u) ==
  /\ reviewer' = [reviewer EXCEPT ![u] = NoDecision]
  /\ gap' = (gap \/ (reviewer[u].step \in {"reapply", "restore"} /\ ~Valued))
  /\ UNCHANGED <<tables, run, starts, decisions, unfiled, crossed>>

ReviewFails(u) ==
  /\ \/ On(u, "apply") /\ ~({Read(u).old, Read(u).new} \subseteq Live)
     \/ On(u, "reapply") /\ ~MakeCurrent(Read(u).new)
     \/ On(u, "withdraw") /\ Read(u).new \notin Live
     \/ On(u, "restore") /\ ~MakeCurrent(Read(u).old)
  /\ Leave(u)
  /\ UNCHANGED deaths

ReviewDies(u) ==
  /\ ~On(u, "idle")
  /\ deaths < MaxDeaths
  /\ deaths' = deaths + 1
  /\ Leave(u)

RunNext(w) ==
  \/ Start(w) \/ Look(w) \/ Guard(w) \/ Hold(w) \/ Retire(w) \/ Insert(w)
  \/ Link(w) \/ Source(w) \/ File(w) \/ Fill(w) \/ Close(w)
  \/ RunFails(w) \/ RunDies(w)

ReviewNext(u) ==
  \/ Decide(u) \/ Apply(u) \/ Reapply(u) \/ Withdraw(u) \/ Restore(u)
  \/ Unsource(u) \/ SelectMine(u) \/ Sieve(u) \/ Delete(u) \/ Resolve(u)
  \/ ReviewFails(u) \/ ReviewDies(u)

Next ==
  \/ \E w \in Runs : RunNext(w)
  \/ \E u \in Reviewers : ReviewNext(u)

Spec == Init /\ [][Next]_vars

-----------------------------------------------------------------------------
(* Properties.                                                             *)

Quiet ==
  /\ \A w \in Runs : At(w, "idle")
  /\ \A u \in Reviewers : On(u, "idle")

\* The slot keeps a value: once it had one, and unless something ended between
\* the two writes of a replacement or a retraction deleted the row, runs that
\* race over a stale row and decisions that flip it back never leave it empty,
\* or with a bare placeholder, when they are done.
SlotKept ==
  Quiet /\ ~gap /\ (\E f \in Live : facts[f].claim # Empty) => Valued

\* "A contradiction never overwrites": a value that is not current any more is
\* named by a conflict the user can see, unless the run that replaced it ended
\* between its first write and its last.
ReplacementOnFile ==
  Quiet => \A f \in Live \ (Current \cup unfiled) :
    facts[f].claim = Empty
      \/ \E k \in DOMAIN reviews : f \in {reviews[k].old, reviews[k].new}

\* "validTo: set when superseded" (timeline.ts): whatever restores, applies and
\* replacements race, no row is both current and linked to its successor, but
\* one that a decision brought back across the link of a run or, when a review
\* is accepted twice, after the row was replaced.
SupersededIsRetired == \A f \in Current \ crossed : facts[f].next = NoRow

\* "A clearly weaker claim never silently overwrites what we already believe":
\* a row's successor is within the margin, unless a held conflict says that
\* the user was asked.
GuardHolds ==
  \A f \in Live :
    LET g == facts[f].next IN
      g # NoRow =>
        \/ facts[g].claim.conf + Margin >= facts[f].claim.conf
        \/ \E k \in DOMAIN reviews :
             reviews[k].held /\ reviews[k].old = f /\ reviews[k].new = g

\* "every fact points at the exact message(s) supporting it", and a retraction
\* deletes "any fact left with no remaining source": when all is quiet, each
\* value has a source, but for those of a run that ended too early.
EveryFactSourced ==
  Quiet => \A f \in Live \ unfiled :
    facts[f].claim # Empty => SourceCount(f) > 0
==============================================================================
