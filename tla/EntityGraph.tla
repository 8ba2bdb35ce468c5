----------------------------- MODULE EntityGraph -----------------------------
(***************************************************************************)
(* The identities of one kind in one organisation: the rows of `entities`, *)
(* the rows that refer to them, and the reviews about them                 *)
(* (lib/datamodo/knowledge.ts, consolidate.ts, consolidate-core.ts,        *)
(* reviews.ts, neon/schema.sql).                                           *)
(*                                                                         *)
(* Runs resolve a mention to an entity and write a fact about it.  The     *)
(* pass is consolidateOrg: it loads the graph, judges pairs, merges and    *)
(* flags strays.  Reviewers decide what was proposed.  Nobody opens a      *)
(* transaction: every SQL statement is one action, and it throws on what   *)
(* the schema declares.                                                    *)
(*                                                                         *)
(* A link is a reference of a row to an entity: a fact to its subject or   *)
(* its object, a passage or a table row to the entity it shows.            *)
(***************************************************************************)
EXTENDS Integers, Sequences, FiniteSets, Bags

CONSTANTS
  Class,        \* what column each link is: a function into Classes
  Keys,         \* normalized keys
  SeedKeys,     \* keys of the entities there are, oldest first
  SeedAt,       \* the entity each link refers to, NoEntity if yet unwritten
  SeedBody,     \* the entities with a body
  KeysOf,       \* the keys that may be read in each mention
  Runs, Reviewers,
  MaxSupport,   \* bound: support counts no further
  MaxPasses,    \* bound: passes that are ever started
  MaxDecisions, \* bound: decisions that are ever taken
  MaxDeaths     \* bound: processes that die between two statements

NoEntity == 0
Links == DOMAIN Class
Mentions == DOMAIN KeysOf      \* a mention becomes the link of that name
Classes == {"subject", "object", "chunk", "row"}
Facts == {l \in Links : Class[l] \in {"subject", "object"}}
MaxEntities == Len(SeedKeys) + Cardinality(Mentions)
Ids == 1..MaxEntities
Pass == "pass"
Actors == {Pass} \cup Reviewers

ASSUME GraphAssumption ==
  /\ IsFiniteSet(Links)
  /\ Class \in [Links -> Classes]
  /\ SeedKeys \in Seq(Keys)
  /\ SeedKeys # << >>
  /\ \A j, k \in DOMAIN SeedKeys : SeedKeys[j] = SeedKeys[k] => j = k
  /\ SeedAt \in [Links -> DOMAIN SeedKeys \cup {NoEntity}]
  /\ SeedBody \subseteq DOMAIN SeedKeys
  /\ Mentions \subseteq {l \in Facts : SeedAt[l] = NoEntity}
  /\ KeysOf \in [Mentions -> SUBSET Keys]
  /\ Pass \notin Reviewers
  /\ MaxSupport \in Nat \ {0}
  /\ {MaxPasses, MaxDecisions, MaxDeaths} \subseteq Nat

VARIABLES
  entities,  \* rows [key, exists, merged (merged_into), support, body],
             \* in the order of creation
  at,        \* the entity each link refers to
  reviews,   \* knowledge_reviews, a bag of [kind, source, target, ids,
             \* status, by]
  run,       \* a run: [step, mention, key, entity, match]
  act,       \* the pass and the decisions: [step, from, to, review, accept,
             \* ids (the strays of the snapshot, the prunable entities)]
  pairs,     \* the pass: pairs <<winner, loser>> still to judge
  done,      \* mentions some run has taken
  passes, decisions, deaths,
  late,      \* links put on an entity that was merged away, or being so
  cut,       \* entities merged by a process that ended before it said so
  linked     \* the pairs <<fact, entity>> when a reviewer's prune selected

tables   == <<entities, at, reviews>>
counters == <<passes, decisions, deaths>>
history  == <<late, cut, linked>>
vars == <<entities, at, reviews, run, act, pairs, done, passes, decisions,
          deaths, late, cut, linked>>

Entities == 1..Len(entities)
Exists(e) == e \in Entities /\ entities[e].exists
IsLive(e) == Exists(e) /\ entities[e].merged = NoEntity
Live == {e \in Entities : IsLive(e)}

RunSteps == {"idle", "exact", "recall", "bump", "log", "create", "propose",
             "write"}
MergeSteps == Classes \cup {"body", "tombstone"}
ActSteps == MergeSteps \cup
  {"idle", "block", "judge", "log", "select", "delete", "resolve"}
Review(source, target, status, by) ==
  [kind |-> "merge", source |-> source, target |-> target, ids |-> {},
   status |-> status, by |-> by]
NoReview == Review(NoEntity, NoEntity, "none", "nobody")

Idle == [step |-> "idle", from |-> NoEntity, to |-> NoEntity, review |-> NoReview,
         accept |-> FALSE, ids |-> {}]
NoRun == [step |-> "idle", mention |-> "none", key |-> "none",
          entity |-> NoEntity, match |-> NoEntity]

\* Rows have their types, and no reference dangles.
TypeOK ==
  /\ Len(entities) <= MaxEntities
  /\ \A e \in Entities :
       /\ entities[e].exists \in BOOLEAN
       /\ entities[e].support \in 1..MaxSupport
       /\ entities[e].body \in BOOLEAN
       /\ \/ entities[e].merged = NoEntity
          \/ Exists(e) /\ entities[e].merged # e /\ Exists(entities[e].merged)
  /\ at \in [Links -> {e \in Entities : Exists(e)} \cup {NoEntity}]
  /\ IsABag(reviews)
  /\ \A r \in DOMAIN reviews :
       /\ r.kind \in {"merge", "prune"}
       /\ r.status \in {"pending", "accepted", "rejected"}
       /\ \A e \in {r.source, r.target} : e = NoEntity \/ Exists(e)
  /\ \A w \in Runs : run[w].step \in RunSteps
  /\ \A a \in Actors : act[a].step \in ActSteps
  /\ pairs \subseteq Ids \X Ids
  /\ passes \in 0..MaxPasses /\ decisions \in 0..MaxDecisions
  /\ deaths \in 0..MaxDeaths

Init ==
  /\ entities = [e \in DOMAIN SeedKeys |->
       [key |-> SeedKeys[e], exists |-> TRUE, merged |-> NoEntity,
        support |-> 1, body |-> e \in SeedBody]]
  /\ at = SeedAt
  /\ reviews = EmptyBag
  /\ run = [w \in Runs |-> NoRun]
  /\ act = [a \in Actors |-> Idle]
  /\ pairs = {} /\ done = {}
  /\ passes = 0 /\ decisions = 0 /\ deaths = 0
  /\ late = {} /\ cut = {} /\ linked = [u \in Reviewers |-> {}]

-----------------------------------------------------------------------------
(* resolveEntity, and the fact that is written with its answer.  A run     *)
(* that dies takes no further step: it holds nothing anybody waits for.    *)

RunAt(w, s) == run[w].step = s
RunGo(w, s) == run' = [run EXCEPT ![w].step = s]

Start(w) ==
  \E m \in Mentions \ done : \E key \in KeysOf[m] :
    /\ RunAt(w, "idle")
    /\ run' = [run EXCEPT ![w] = [NoRun EXCEPT !.step = "exact", !.mention = m,
                                               !.key = key]]
    /\ done' = done \cup {m}
    /\ UNCHANGED <<tables, act, pairs, counters, history>>

\* Tier 0: a live entity with the very key.
SameKey(w) == {e \in Live : entities[e].key = run[w].key}

Exact(w) ==
  /\ RunAt(w, "exact")
  /\ IF SameKey(w) = {}
       THEN RunGo(w, "recall")
       ELSE \E e \in SameKey(w) :
              run' = [run EXCEPT ![w].step = "bump", ![w].entity = e]
  /\ UNCHANGED <<tables, act, pairs, done, counters, history>>

\* Tiers 1 to 3: a candidate is near enough (trigram), or the judge is sure
\* of it, or in doubt, or nothing matches.
Recall(w) ==
  /\ RunAt(w, "recall")
  /\ \/ \E e \in Live, judged \in BOOLEAN :
          run' = [run EXCEPT ![w].step = "bump", ![w].entity = e,
                             ![w].match = IF judged THEN e ELSE NoEntity]
     \/ \E e \in Live :
          run' = [run EXCEPT ![w].step = "create", ![w].match = e]
     \/ RunGo(w, "create")
  /\ UNCHANGED <<tables, act, pairs, done, counters, history>>

\* bumpSupport, of the entity as it was found.
Bump(w) ==
  /\ RunAt(w, "bump")
  /\ Exists(run[w].entity)
  /\ entities' = [entities EXCEPT ![run[w].entity].support =
                    IF @ < MaxSupport THEN @ + 1 ELSE @]
  /\ RunGo(w, IF run[w].match = NoEntity THEN "write" ELSE "log")
  /\ UNCHANGED <<at, reviews, act, pairs, done, counters, history>>

File(r) == reviews' = reviews (+) SetToBag({r})

\* createMergeReview with no source: the audit of a sure match.
LogMatch(w) ==
  /\ RunAt(w, "log")
  /\ Exists(run[w].match)
  /\ File(Review(NoEntity, run[w].match, "accepted", "run"))
  /\ RunGo(w, "write")
  /\ UNCHANGED <<entities, at, act, pairs, done, counters, history>>

\* entities.create, which entities_norm_key_uq may refuse.
Create(w) ==
  /\ RunAt(w, "create")
  /\ SameKey(w) = {}
  /\ entities' = Append(entities,
       [key |-> run[w].key, exists |-> TRUE, merged |-> NoEntity,
        support |-> 1, body |-> FALSE])
  /\ run' = [run EXCEPT ![w].entity = Len(entities) + 1,
                        ![w].step = IF run[w].match = NoEntity THEN "write"
                                                               ELSE "propose"]
  /\ UNCHANGED <<at, reviews, act, pairs, done, counters, history>>

\* createMergeReview of the new entity and the doubtful match.
Propose(w) ==
  /\ RunAt(w, "propose")
  /\ Exists(run[w].entity)
  /\ Exists(run[w].match)
  /\ File(Review(run[w].entity, run[w].match, "pending", "run"))
  /\ RunGo(w, "write")
  /\ UNCHANGED <<entities, at, act, pairs, done, counters, history>>

\* Merged away, or in the middle of it.
Leaving(e) ==
  \/ entities[e].merged # NoEntity
  \/ \E a \in Actors : act[a].from = e /\ act[a].step \in MergeSteps

\* upsertFact with the resolved id, whatever became of it meanwhile.
Write(w) ==
  LET e == run[w].entity IN
  /\ RunAt(w, "write")
  /\ Exists(e)
  /\ at' = [at EXCEPT ![run[w].mention] = e]
  /\ late' = IF Leaving(e) THEN late \cup {run[w].mention} ELSE late
  /\ run' = [run EXCEPT ![w] = NoRun]
  /\ UNCHANGED <<entities, reviews, act, pairs, done, counters, cut, linked>>

\* The row is gone or the key is taken: the run throws.
RunFails(w) ==
  /\ \/ run[w].step \in {"bump", "write"} /\ ~Exists(run[w].entity)
     \/ RunAt(w, "log") /\ ~Exists(run[w].match)
     \/ RunAt(w, "propose") /\ ~(Exists(run[w].entity) /\ Exists(run[w].match))
     \/ RunAt(w, "create") /\ SameKey(w) # {}
  /\ run' = [run EXCEPT ![w] = NoRun]
  /\ UNCHANGED <<tables, act, pairs, done, counters, history>>

-----------------------------------------------------------------------------
(* mergeEntities, by the pass or by a reviewer who accepted the merge.     *)

On(a, s) == act[a].step = s
Turn(a, s) == act' = [act EXCEPT ![a].step = s]

BeginMerge(a, loser, winner) ==
  [act EXCEPT ![a].step = "subject", ![a].from = loser, ![a].to = winner]

\* Mutant: table rows stay behind.
AfterWithoutRows == [subject |-> "object", object |-> "chunk", chunk |-> "body",
                     row |-> "body", body |-> "tombstone"]

\* The order of its statements.
After == [subject |-> "object", object |-> "chunk", chunk |-> "row",
          row |-> "body", body |-> "tombstone"]

Hanging(class, e) == {l \in Links : Class[l] = class /\ at[l] = e}

\* One updateMany.
Repoint(a) ==
  LET moved == Hanging(act[a].step, act[a].from) IN
  /\ act[a].step \in Classes
  /\ moved = {} \/ Exists(act[a].to)
  /\ at' = [l \in Links |-> IF l \in moved THEN act[a].to ELSE at[l]]
  /\ late' = IF moved # {} /\ Leaving(act[a].to) THEN late \cup moved
                                                 ELSE late \ moved
  /\ Turn(a, After[act[a].step])
  /\ UNCHANGED <<entities, reviews, run, pairs, done, counters, cut, linked>>

\* The loser has a body and the winner, if there is one, has not.
BodyMoves(a) ==
  /\ Exists(act[a].from) /\ entities[act[a].from].body
  /\ Exists(act[a].to) => ~entities[act[a].to].body

MoveBody(a) ==
  /\ On(a, "body")
  /\ IF BodyMoves(a)
       THEN /\ Exists(act[a].to)
            /\ entities' = [entities EXCEPT ![act[a].to].body = TRUE]
       ELSE UNCHANGED entities
  /\ Turn(a, After["body"])
  /\ UNCHANGED <<at, reviews, run, pairs, done, counters, history>>

Tombstone(a) ==
  /\ On(a, "tombstone")
  /\ Exists(act[a].from)
  /\ Exists(act[a].to)
  /\ entities' = [entities EXCEPT ![act[a].from].merged = act[a].to]
  /\ Turn(a, IF a = Pass THEN "log" ELSE "resolve")
  /\ UNCHANGED <<at, reviews, run, pairs, done, counters, history>>

-----------------------------------------------------------------------------
(* consolidateOrg.  The workflow's concurrency group and maxDuration keep  *)
(* two passes apart.                                                       *)

\* edgeCount of loadEntities.
Edges(e) == Cardinality({l \in Facts : at[l] = e})

\* pickWinner: more edges, then more support, then the older one.
Better(x, y) ==
  \/ Edges(x) > Edges(y)
  \/ /\ Edges(x) = Edges(y)
     /\ \/ entities[x].support > entities[y].support
        \/ entities[x].support = entities[y].support /\ x < y

\* orphanEligible, but for the time since it was created and last used.
Stray(e) ==
  Edges(e) = 0 /\ entities[e].support = 1 /\ ~entities[e].body

\* loadEntities: all that the pass later knows of winners and strays.
Load ==
  /\ On(Pass, "idle")
  /\ passes < MaxPasses
  /\ passes' = passes + 1
  /\ pairs' = {p \in Live \X Live : Better(p[1], p[2])}
  /\ act' = [act EXCEPT ![Pass] =
       [Idle EXCEPT !.step = "block", !.ids = {e \in Live : Stray(e)}]]
  /\ UNCHANGED <<tables, run, done, decisions, deaths, history>>

\* Mutant: proposals that are still open do not count.
ReviewedIfDecided(p) ==
  \E r \in DOMAIN reviews :
    /\ r.kind = "merge" /\ r.status # "pending"
    /\ {r.source, r.target} = {p[1], p[2]}

\* reviewedPairKeys: any status, either direction.
Reviewed(p) ==
  \E r \in DOMAIN reviews :
    r.kind = "merge" /\ {r.source, r.target} = {p[1], p[2]}

\* The candidate queries and filterCandidatePairs.  Any pair may be similar;
\* the pass judges the ones that are, in an order the data gives.
Block ==
  /\ On(Pass, "block")
  /\ pairs' = {p \in pairs : IsLive(p[1]) /\ IsLive(p[2]) /\ ~Reviewed(p)}
  /\ Turn(Pass, "judge")
  /\ UNCHANGED <<tables, run, done, counters, history>>

\* Sure of a pair: merge it.
JudgeSame ==
  \E p \in pairs :
    /\ On(Pass, "judge")
    /\ act' = BeginMerge(Pass, p[2], p[1])
    /\ pairs' = pairs \ {p}
    /\ UNCHANGED <<tables, run, done, counters, history>>

\* In doubt, or sure that they differ: file it.
JudgeApart ==
  \E p \in pairs, status \in {"pending", "rejected"} :
    /\ On(Pass, "judge")
    /\ Exists(p[1]) /\ Exists(p[2])
    /\ File(Review(p[2], p[1], status, Pass))
    /\ pairs' = pairs \ {p}
    /\ UNCHANGED <<entities, at, run, act, done, counters, history>>

\* Mutant: the review names no source, as that of a sure match does.
LogMergeWithoutSource ==
  /\ On(Pass, "log")
  /\ Exists(act[Pass].from) /\ Exists(act[Pass].to)
  /\ File(Review(NoEntity, act[Pass].to, "accepted", Pass))
  /\ act' = [act EXCEPT ![Pass].step = "judge", ![Pass].from = NoEntity,
                        ![Pass].to = NoEntity]
  /\ UNCHANGED <<entities, at, run, pairs, done, counters, history>>

\* createMergeReview of the merge, after it.
LogMerge ==
  /\ On(Pass, "log")
  /\ Exists(act[Pass].from) /\ Exists(act[Pass].to)
  /\ File(Review(act[Pass].from, act[Pass].to, "accepted", Pass))
  /\ act' = [act EXCEPT ![Pass].step = "judge", ![Pass].from = NoEntity,
                        ![Pass].to = NoEntity]
  /\ UNCHANGED <<entities, at, run, pairs, done, counters, history>>

\* orphanAskedIds: any status.
Asked == UNION {r.ids : r \in DOMAIN reviews}

\* The pairs are exhausted, or the rest is not similar or over the budget:
\* the strays that are old enough are flagged, in one review.
FlagStrays ==
  \E old \in SUBSET (act[Pass].ids \ Asked) :
    /\ On(Pass, "judge")
    /\ IF old = {}
         THEN UNCHANGED reviews
         ELSE File([kind |-> "prune", source |-> NoEntity, target |-> NoEntity,
                    ids |-> old, status |-> "pending", by |-> Pass])
    /\ act' = [act EXCEPT ![Pass] = Idle]
    /\ pairs' = {}
    /\ UNCHANGED <<entities, at, run, done, counters, history>>

-----------------------------------------------------------------------------
(* acceptReview and rejectReview of merges and prunes.                     *)

Decide(u) ==
  \E r \in DOMAIN reviews, accept \in BOOLEAN :
    LET merges == accept /\ r.kind = "merge" IN
    /\ On(u, "idle")
    /\ decisions < MaxDecisions
    /\ r.status = "pending"
    /\ decisions' = decisions + 1
    /\ act' = [act EXCEPT ![u] =
         [step |-> CASE merges                         -> "subject"
                     [] accept /\ r.kind = "prune"     -> "select"
                     [] OTHER                          -> "resolve",
          from |-> IF merges THEN r.source ELSE NoEntity,
          to |-> IF merges THEN r.target ELSE NoEntity,
          review |-> r, accept |-> accept, ids |-> {}]]
    /\ UNCHANGED <<tables, run, pairs, done, passes, deaths, history>>

FactLinks == {<<l, at[l]>> : l \in {f \in Facts : at[f] # NoEntity}}

\* Mutant: what was a stray when it was flagged is one.
SelectFlagged(u) ==
  /\ On(u, "select")
  /\ \E idle \in SUBSET {e \in act[u].review.ids :
                           IsLive(e) /\ ~entities[e].body} :
       act' = [act EXCEPT ![u].step = "delete", ![u].ids = idle]
  /\ linked' = [linked EXCEPT ![u] = FactLinks]
  /\ UNCHANGED <<tables, run, pairs, done, counters, late, cut>>

\* Of the flagged entities, the ones still live, without a body, without a
\* fact, and not used of late.
Select(u) ==
  /\ On(u, "select")
  /\ \E idle \in SUBSET {e \in act[u].review.ids :
                           IsLive(e) /\ ~entities[e].body /\ Edges(e) = 0} :
       act' = [act EXCEPT ![u].step = "delete", ![u].ids = idle]
  /\ linked' = [linked EXCEPT ![u] = FactLinks]
  /\ UNCHANGED <<tables, run, pairs, done, counters, late, cut>>

\* What the foreign keys do with a deleted entity: cascade (subject, chunk,
\* reviews) or set null (object, row, merged_into: a tombstone revives).
Without(gone) ==
  [e \in Entities |->
     IF e \in gone THEN [entities[e] EXCEPT !.exists = FALSE, !.merged = NoEntity]
     ELSE IF entities[e].merged \in gone
       THEN [entities[e] EXCEPT !.merged = NoEntity]
     ELSE entities[e]]

\* entities_norm_key_uq.
KeysUnique(rows) ==
  \A e, f \in DOMAIN rows :
    /\ rows[e].exists /\ rows[e].merged = NoEntity
    /\ rows[f].exists /\ rows[f].merged = NoEntity
    /\ rows[e].key = rows[f].key
    => e = f

\* Mutant: the reviews of a deleted entity stay.
DeleteKeepingReviews(u) ==
  LET gone == {e \in act[u].ids : Exists(e)} IN
  /\ On(u, "delete")
  /\ KeysUnique(Without(gone))
  /\ entities' = Without(gone)
  /\ at' = [l \in Links |-> IF at[l] \in gone THEN NoEntity ELSE at[l]]
  /\ Turn(u, "resolve")
  /\ late' = {l \in late : at[l] \notin gone}
  /\ linked' = [linked EXCEPT ![u] = {}]
  /\ UNCHANGED <<reviews, run, pairs, done, counters, cut>>

\* entities.deleteMany of the selected ids.
Delete(u) ==
  LET gone == {e \in act[u].ids : Exists(e)} IN
  /\ On(u, "delete")
  /\ KeysUnique(Without(gone))
  /\ entities' = Without(gone)
  /\ at' = [l \in Links |-> IF at[l] \in gone THEN NoEntity ELSE at[l]]
  /\ reviews' = [r \in {r \in DOMAIN reviews :
                         {r.source, r.target} \cap gone = {}} |-> reviews[r]]
  /\ Turn(u, "resolve")
  /\ late' = {l \in late : at[l] \notin gone}
  /\ linked' = [linked EXCEPT ![u] = {}]
  /\ UNCHANGED <<run, pairs, done, counters, cut>>

\* The row that was read, whatever its status has become.
RowsOf(u) ==
  {r \in DOMAIN reviews : [r EXCEPT !.status = "pending"] = act[u].review}

\* The review's status.
Resolve(u) ==
  /\ On(u, "resolve")
  /\ \E r \in RowsOf(u) :
       reviews' = (reviews (-) SetToBag({r})) (+)
         SetToBag({[r EXCEPT !.status =
                      IF act[u].accept THEN "accepted" ELSE "rejected"]})
  /\ act' = [act EXCEPT ![u] = Idle]
  /\ UNCHANGED <<entities, at, run, pairs, done, counters, history>>

-----------------------------------------------------------------------------
\* A statement of a merge, a review or a prune that throws.
Throws(a) ==
  LET lost == ~Exists(act[a].from) \/ ~Exists(act[a].to) IN
  \/ /\ act[a].step \in Classes
     /\ ~Exists(act[a].to) /\ Hanging(act[a].step, act[a].from) # {}
  \/ On(a, "body") /\ BodyMoves(a) /\ ~Exists(act[a].to)
  \/ act[a].step \in {"tombstone", "log"} /\ lost
  \/ On(a, "judge") /\ \E p \in pairs : ~Exists(p[1]) \/ ~Exists(p[2])
  \/ On(a, "delete") /\ ~KeysUnique(Without({e \in act[a].ids : Exists(e)}))
  \/ On(a, "resolve") /\ RowsOf(a) = {}

\* What a process leaves that ends early: the rows as they are.
Abandon(a) ==
  /\ act' = [act EXCEPT ![a] = Idle]
  /\ pairs' = IF a = Pass THEN {} ELSE pairs
  /\ cut' = IF act[a].step \in {"log", "resolve"} THEN cut \cup {act[a].from}
                                                  ELSE cut
  /\ linked' = [u \in Reviewers |-> IF u = a THEN {} ELSE linked[u]]
  /\ UNCHANGED <<tables, run, done, passes, decisions, late>>

Fails(a) == Throws(a) /\ Abandon(a) /\ UNCHANGED deaths

Dies(a) ==
  /\ ~On(a, "idle")
  /\ deaths < MaxDeaths
  /\ deaths' = deaths + 1
  /\ Abandon(a)

Next ==
  \/ \E w \in Runs :
       \/ Start(w) \/ Exact(w) \/ Recall(w) \/ Bump(w) \/ LogMatch(w)
       \/ Create(w) \/ Propose(w) \/ Write(w) \/ RunFails(w)
  \/ Load \/ Block \/ JudgeSame \/ JudgeApart \/ LogMerge \/ FlagStrays
  \/ \E u \in Reviewers : Decide(u) \/ Select(u) \/ Delete(u) \/ Resolve(u)
  \/ \E a \in Actors :
       \/ Repoint(a) \/ MoveBody(a) \/ Tombstone(a) \/ Fails(a) \/ Dies(a)

Spec == Init /\ [][Next]_vars

-----------------------------------------------------------------------------
(* Properties.                                                             *)

\* A merge leaves nothing behind: whatever hangs on a tombstone was put
\* there by someone who still held the id while the merge went on or after
\* it (the code has no defence against that, see NoFactStranded).
TombstonesAreBare ==
  \A l \in Links \ late : at[l] # NoEntity => IsLive(at[l])

\* "every merge is visible in Review history": a tombstone has an accepted
\* review of that very merge, unless the process that merged ended before it
\* could say so, or is about to.
MergesLogged ==
  \A e \in Entities \ cut :
    \/ entities[e].merged = NoEntity
    \/ \E a \in Actors : act[a].from = e /\ act[a].step \in {"log", "resolve"}
    \/ \E r \in DOMAIN reviews :
         r.source = e /\ r.target = entities[e].merged /\ r.status = "accepted"

\* "decided is decided": whatever dies, is merged or decided in between, the
\* passes put no pair and no stray to the user twice.
AskedOnce ==
  \A q, r \in DOMAIN reviews :
    (q.by = Pass /\ r.by = Pass) =>
      /\ reviews[r] = 1
      /\ q = r \/ (q.ids \cap r.ids = {} /\
                  ({q.source, q.target} # {r.source, r.target} \/ r.kind = "prune"))

\* "Prune ONLY entities still unlinked right now": no fact that hangs where it
\* hung when a reviewer's prune selected is deleted by it or loses its object.
PruneSparesLinked ==
  [][\A u \in Reviewers, l \in Facts :
       (On(u, "delete") /\ ~On(u, "delete")' /\ at[l] # NoEntity /\ at'[l] = NoEntity)
         => <<l, at[l]>> \notin linked[u]]_vars

\* Nobody is at work.
Quiet ==
  /\ \A w \in Runs : RunAt(w, "idle")
  /\ \A a \in Actors : On(a, "idle")

\* "dedup merges re-point everything and leave this behind": once everybody
\* is done, every fact hangs on a live entity.
NoFactStranded ==
  Quiet => \A l \in Facts : at[l] # NoEntity => IsLive(at[l])
==============================================================================
