------------------------------ MODULE TableRows ------------------------------
(***************************************************************************)
(* The rows of one table, dataset_rows, and its versions,                  *)
(* dataset_snapshots (lib/datamodo/datasets.ts, project.ts, sheets.ts,     *)
(* knowledge.ts, app/dashboard/actions.ts, neon/schema.sql).               *)
(*                                                                         *)
(* Users add, edit and delete rows, decide proposals and restore versions  *)
(* from the dashboard; projections write the entities of the table's kind  *)
(* into rows; a synced sheet proposes additions and updates; merges move   *)
(* an entity's rows to another, and a prune unlinks them.  Nobody opens a  *)
(* transaction: every SQL statement is one action.  A row's data are the   *)
(* name in its label column, which the sheet is matched on too, and the    *)
(* rest of its cells.                                                      *)
(***************************************************************************)
EXTENDS Integers, Sequences, FiniteSets

CONSTANTS
  Names,      \* what may stand in the label column
  Entities,   \* entities of the kind: a subset of Names, their labels
  Cells,      \* what may stand in the other columns
  Typed,      \* the data that users ever type
  Sheets,     \* the sheets that are ever uploaded: sets of data
  Projectors, \* projections that may run at once
  Users, NoOne,
  MaxRows,    \* bound: rows ever created
  MaxOps,     \* bound: operations users start, changes of facts, merges,
              \* prunes and deaths
  MaxRuns     \* bound: projections and syncs started

NoRow == 0
Ids == 1..MaxRows
Data == Names \X Cells
Sync == "sync"
Workers == Projectors \cup {Sync}

ASSUME TableAssumption ==
  /\ Entities \subseteq Names
  /\ NoOne \notin Names
  /\ Typed \subseteq Data
  /\ Sheets \subseteq SUBSET Data
  /\ \A s \in Sheets : IsFiniteSet(s)
  /\ IsFiniteSet(Entities) /\ IsFiniteSet(Projectors)
  /\ Sync \notin Projectors
  /\ {MaxRows, MaxOps, MaxRuns} \subseteq Nat

VARIABLES
  identity, \* of an entity: "live"; "moved" (its rows follow another's, and it
           \* is to be a tombstone); "merged" (merged_into is set); "pruned"
  shows,   \* what the facts about each entity put into the other cells
  rows,    \* dataset_rows in the order of creation: [status, data,
           \* entity (subject_entity_id), edited (human_edited),
           \* target (target_row_id), agent (proposed_by is set)], and a ghost:
           \* typed, what a person last typed into it, NoOne if a projection
           \* had planned to rewrite it by then
  snaps,   \* dataset_snapshots: the rows' data in each
  work,    \* a projection or sync: [step, facts, create, update]; facts is
           \* NoOne for an entity the projection does not see
  user,    \* a user's request: [step, row, data, props, snap]
  due,     \* ghost: how many rows an entity may have: one, one more for each
           \* projection that planned to add it while another was about to, and
           \* those of the entities whose rows a merge moved to it
  counters \* [ops, runs]

vars == <<identity, shows, rows, snaps, work, user, due, counters>>
tables == <<identity, shows, rows, snaps, due>>
aside == <<identity, shows, snaps, due>>   \* what a change of rows leaves alone

Row == [status : {"accepted", "proposed"}, data : Data,
        entity : Entities \cup {NoOne}, edited : BOOLEAN,
        target : Ids \cup {NoRow}, agent : BOOLEAN, typed : Data \cup {NoOne}]
Gone == [status |-> "gone", data |-> NoOne, entity |-> NoOne,
         edited |-> FALSE, target |-> NoRow, agent |-> FALSE,
         typed |-> NoOne]

Accepted == {r \in DOMAIN rows : rows[r].status = "accepted"}
Proposed == {r \in DOMAIN rows : rows[r].status = "proposed"}
Asked    == {r \in DOMAIN rows : rows[r].agent}   \* once proposed, still there

ByHand(data) == [status |-> "accepted", data |-> data, entity |-> NoOne,
                 edited |-> FALSE, target |-> NoRow, agent |-> FALSE,
                 typed |-> NoOne]
Proposal(data, row) == [ByHand(data) EXCEPT !.status = "proposed",
                                            !.target = row, !.agent = TRUE]

\* The sequences a set of new rows may become: nothing orders one createMany.
Orders(new) ==
  {s \in [1..Cardinality(new) -> new] :
     \A j, k \in DOMAIN s : s[j] = s[k] => j = k}
Create(new) == /\ Len(rows) + Len(new) <= MaxRows
               /\ rows' = rows \o new

\* Mutant: a statement that names a row does not fail when it is gone.
ExistsAnyway(r) == r \in DOMAIN rows

\* update and delete of one row throw when the row is gone.
Exists(r) == rows[r] # Gone

\* Mutant: target_row_id without ON DELETE CASCADE.
WithoutThese(gone) ==
  [r \in DOMAIN rows |-> IF r \in gone THEN Gone ELSE rows[r]]

\* A delete takes the proposals that target the row with it: target_row_id
\* is ON DELETE CASCADE.
Without(gone) ==
  [r \in DOMAIN rows |->
     IF r \in gone \/ rows[r].target \in gone THEN Gone ELSE rows[r]]

\* listAcceptedRows: the k-th accepted row, in the order of creation.
Accepts(k) == CHOOSE r \in Accepted : Cardinality({q \in Accepted : q <= r}) = k
Contents == [k \in 1..Cardinality(Accepted) |-> rows[Accepts(k)].data]

\* ensureBaseline: the first change finds no version and saves one.
Baseline == IF snaps = {} THEN {Contents} ELSE snaps

Idle == [step |-> "idle", facts |-> [e \in Entities |-> NoOne],
         create |-> {}, update |-> {}]
NoRequest == [step |-> "idle", row |-> NoRow, data |-> NoOne, props |-> {},
              snap |-> << >>]
At(w, step) == work[w].step = step
On(u, step) == user[u].step = step
Count(c) == counters' = [counters EXCEPT ![c] = @ + 1]
Operation == counters.ops < MaxOps /\ Count("ops")

-----------------------------------------------------------------------------
(* projectEntitiesToDataset.                                               *)

\* What a projection reads: entities that are not tombstones.
Seen(e) == identity[e] \in {"live", "moved"}

\* Extraction, decisions and merges change what an entity's facts say.
FactsChange ==
  \E e \in Entities, c \in Cells :
    /\ Operation
    /\ Seen(e)
    /\ shows' = [shows EXCEPT ![e] = c]
    /\ UNCHANGED <<identity, rows, snaps, work, user, due>>

\* The entities and then their facts, in one action: facts that change between
\* the two reads may as well have changed before them and change again.
ReadFacts(p) ==
  /\ At(p, "idle")
  /\ counters.runs < MaxRuns
  /\ Count("runs")
  /\ work' = [work EXCEPT ![p] = [Idle EXCEPT !.step = "rows",
       !.facts = [e \in Entities |-> IF Seen(e) THEN shows[e] ELSE NoOne]]]
  /\ UNCHANGED <<tables, user>>

\* Mutant: rows a person edited are not looked at.
RowsUneditedOf(e) == {r \in Accepted : rows[r].entity = e /\ ~rows[r].edited}

RowsOf(e) == {r \in Accepted : rows[r].entity = e}

\* Mutant: every row whose cells differ is rewritten.
RewritableAnyway(p, r) ==
  rows[r].data # <<rows[r].entity, work[p].facts[rows[r].entity]>>

\* An accepted row of an entity is rewritten if its cells differ, unless a
\* person edited it.
Rewritable(p, r) ==
  /\ ~rows[r].edited
  /\ rows[r].data # <<rows[r].entity, work[p].facts[rows[r].entity]>>

\* The projections that are about to add a row for an entity.
Adding(e) == {p \in Projectors : At(p, "create") /\ e \in work[p].create}

\* Entities without a row are added; of several rows of one entity, the last
\* of an unordered select counts.  (Nothing proposes rows of entities any
\* more, so no proposal makes the projection skip one.)
ReadRows(p) ==
  LET seen == {e \in Entities : work[p].facts[e] # NoOne}
  IN \E pick \in [seen -> Ids \cup {NoRow}] :
    LET added == {e \in seen : pick[e] = NoRow}
    IN /\ At(p, "rows")
       /\ \A e \in seen : IF RowsOf(e) = {} THEN pick[e] = NoRow
                                           ELSE pick[e] \in RowsOf(e)
       /\ work' = [work EXCEPT ![p] =
            [@ EXCEPT !.step = "create", !.create = added,
                      !.update = {<<pick[e], <<e, work[p].facts[e]>>>> :
                                    e \in {e \in seen \ added : Rewritable(p, pick[e])}}]]
       /\ due' = [e \in Entities |-> IF e \in added /\ Adding(e) # {}
                                      THEN due[e] + 1 ELSE due[e]]
       /\ UNCHANGED <<identity, shows, rows, snaps, user, counters>>

CreateRows(p) ==
  \E new \in Orders({[ByHand(<<e, work[p].facts[e]>>) EXCEPT !.entity = e] :
                      e \in work[p].create}) :
    /\ At(p, "create")
    /\ \A e \in work[p].create : identity[e] # "pruned"
    /\ Create(new)
    /\ work' = [work EXCEPT ![p] = [@ EXCEPT !.step = "update", !.create = {}]]
    /\ UNCHANGED <<aside, user, counters>>

\* One row after the other, by id alone.
UpdateRow(p) ==
  \E x \in work[p].update :
    /\ At(p, "update")
    /\ Exists(x[1])
    /\ rows' = [rows EXCEPT ![x[1]].data = x[2]]
    /\ work' = [work EXCEPT ![p].update = @ \ {x}]
    /\ UNCHANGED <<aside, user, counters>>

-----------------------------------------------------------------------------
(* What becomes of the entities: mergeEntities, from a decision, a pass or  *)
(* the API, which looks at neither side; and the prune of strays.           *)

Relinked(from, to) ==
  [r \in DOMAIN rows |-> IF rows[r].entity = from THEN [rows[r] EXCEPT !.entity = to]
                                                 ELSE rows[r]]

\* The loser's rows become the winner's, beside the ones it has.
MoveRows ==
  \E l, w \in Entities :
    /\ Operation
    /\ l # w
    /\ identity[l] # "pruned" /\ identity[w] # "pruned"
    /\ rows' = Relinked(l, w)
    /\ identity' = [identity EXCEPT ![l] = IF @ = "live" THEN "moved" ELSE @]
    /\ due' = [due EXCEPT ![w] = IF RowsOf(l) = {} THEN @ ELSE @ + due[l]]
    /\ UNCHANGED <<shows, snaps, work, user>>

\* The last statement of the merge, if the process lives to send it.
Tombstone ==
  \E l \in Entities :
    /\ identity[l] = "moved"
    /\ identity' = [identity EXCEPT ![l] = "merged"]
    /\ UNCHANGED <<shows, rows, snaps, work, user, due, counters>>

\* subject_entity_id is ON DELETE SET NULL, and so is merged_into: the tombstones
\* that were merged into the entity live again, without their rows.
PruneEntity ==
  \E e \in Entities, revived \in SUBSET {l \in Entities : identity[l] = "merged"} :
    /\ Operation
    /\ Seen(e)
    /\ identity' = [l \in Entities |-> IF l = e THEN "pruned"
                                      ELSE IF l \in revived THEN "live" ELSE identity[l]]
    /\ rows' = Relinked(e, NoOne)
    /\ UNCHANGED <<shows, snaps, work, user, due>>

-----------------------------------------------------------------------------
(* syncSnapshotAsProposals.                                                *)

\* The row a sheet's row is matched with: the last accepted one of its name.
Match(d, r) == LET same == {q \in Accepted : rows[q].data[1] = d[1]}
               IN IF same = {} THEN r = NoRow
                               ELSE r \in same /\ \A q \in same : q <= r

ReadTable ==
  \E sheet \in Sheets : \E row \in [sheet -> Ids \cup {NoRow}] :
    /\ At(Sync, "idle")
    /\ counters.runs < MaxRuns
    /\ Count("runs")
    /\ \A d \in sheet : Match(d, row[d])
    /\ work' = [work EXCEPT ![Sync] =
         [@ EXCEPT !.step = "propose",
                   !.create = {d \in sheet : row[d] = NoRow},
                   !.update = {<<row[d], d>> : d \in {d \in sheet :
                                 row[d] # NoRow /\ rows[row[d]].data # d}}]]
    /\ UNCHANGED <<tables, user>>

\* proposeAgentRows: one createMany, refused as a whole if a target is gone.
Propose ==
  \E new \in Orders({Proposal(d, NoRow) : d \in work[Sync].create}
                      \cup {Proposal(p[2], p[1]) : p \in work[Sync].update}) :
    /\ At(Sync, "propose")
    /\ \A p \in work[Sync].update : Exists(p[1])
    /\ Create(new)
    /\ work' = [work EXCEPT ![Sync] = Idle]
    /\ UNCHANGED <<aside, user, counters>>

\* A worker has nothing left to do; or a row is to be added for an entity that
\* is gone, an update meets a row that is, or target_row_id refers to one: the
\* statement throws.
WorkEnds(w) ==
  /\ \/ At(w, "create") /\ \E e \in work[w].create : identity[e] = "pruned"
     \/ At(w, "update") /\ work[w].update = {}
     \/ work[w].step \in {"update", "propose"} /\ \E x \in work[w].update : ~Exists(x[1])
  /\ work' = [work EXCEPT ![w] = Idle]
  /\ UNCHANGED <<tables, user, counters>>

-----------------------------------------------------------------------------
(* The dashboard's actions.                                                *)

Begin(u) == On(u, "idle") /\ Operation
Go(u, step) == user' = [user EXCEPT ![u].step = step]

\* addRowAction, updateRowAction, deleteRowAction: checkpoint saves a
\* baseline, then applies the change, then saves a version.
BeginChange(u) ==
  \E step \in {"add", "edit", "delete"}, r \in Accepted \cup {NoRow},
     d \in Typed \cup {NoOne} :
    /\ Begin(u)
    /\ r = NoRow <=> step = "add"
    /\ d = NoOne <=> step = "delete"
    /\ snaps' = Baseline
    /\ user' = [user EXCEPT ![u] = [NoRequest EXCEPT !.step = step, !.row = r,
                                                     !.data = d]]
    /\ UNCHANGED <<identity, shows, rows, work, due>>

InsertRow(u) ==
  /\ On(u, "add")
  /\ Create(<<ByHand(user[u].data)>>)
  /\ Go(u, "version")
  /\ UNCHANGED <<aside, work, counters>>

EditRow(u) ==
  LET r == user[u].row
      raced == \E p \in Projectors : \E x \in work[p].update : x[1] = r
  IN /\ On(u, "edit")
     /\ Exists(r)
     /\ rows' = [rows EXCEPT ![r].data = user[u].data, ![r].edited = TRUE,
                             ![r].typed = IF raced THEN NoOne ELSE user[u].data]
     /\ Go(u, "version")
     /\ UNCHANGED <<aside, work, counters>>

DeleteRow(u) ==
  /\ On(u, "delete")
  /\ Exists(user[u].row)
  /\ rows' = Without({user[u].row})
  /\ Go(u, "version")
  /\ UNCHANGED <<aside, work, counters>>

\* acceptProposal takes an id whatever became of it; acceptBatch and
\* acceptProposals take those still proposed.
BeginAccept(u) ==
  \E ids \in SUBSET Asked :
    /\ Begin(u)
    /\ ids # {}
    /\ Cardinality(ids) = 1 \/ ids \subseteq Proposed
    /\ user' = [user EXCEPT ![u] = [NoRequest EXCEPT !.step = "apply",
         !.props = {[id |-> r, target |-> rows[r].target,
                     data |-> rows[r].data] : r \in ids}]]
    /\ UNCHANGED <<tables, work>>

\* applyProposalRow for an update: the target first, whatever it is by now ...
WriteTarget(u) ==
  \E p \in user[u].props :
    /\ On(u, "apply")
    /\ p.target # NoRow
    /\ Exists(p.target)
    /\ rows' = [rows EXCEPT ![p.target].data = p.data,
                            ![p.target].edited = FALSE,
                            ![p.target].typed = NoOne]
    /\ user' = [user EXCEPT ![u].step = "drop", ![u].row = p.id,
                            ![u].props = @ \ {p}]
    /\ UNCHANGED <<aside, work, counters>>

\* ... then the proposal is deleted.
DropProposal(u) ==
  /\ On(u, "drop")
  /\ Exists(user[u].row)
  /\ rows' = Without({user[u].row})
  /\ Go(u, "apply")
  /\ UNCHANGED <<aside, work, counters>>

\* applyProposalRow for an addition.
Admit(u) ==
  \E p \in user[u].props :
    /\ On(u, "apply")
    /\ p.target = NoRow
    /\ Exists(p.id)
    /\ rows' = [rows EXCEPT ![p.id].status = "accepted", ![p.id].target = NoRow]
    /\ user' = [user EXCEPT ![u].props = @ \ {p}]
    /\ UNCHANGED <<aside, work, counters>>

\* rejectProposal deletes by id; rejectBatch and rejectProposals only what is
\* still proposed.
Reject(u) ==
  \E ids \in SUBSET Asked :
    /\ Begin(u)
    /\ ids # {}
    /\ Cardinality(ids) = 1 \/ ids \subseteq Proposed
    /\ rows' = Without(ids)
    /\ UNCHANGED <<aside, work, user>>

\* restoreSnapshot: the version is read ...
BeginRestore(u) ==
  \E snap \in snaps :
    /\ Begin(u)
    /\ user' = [user EXCEPT ![u] = [NoRequest EXCEPT !.step = "wipe",
                                                     !.snap = snap]]
    /\ UNCHANGED <<tables, work>>

\* Mutant: the delete does not look at the status.
WipedAll == DOMAIN rows

Wiped == Accepted

\* ... the accepted rows are deleted ...
Wipe(u) ==
  /\ On(u, "wipe")
  /\ rows' = Without(Wiped)
  /\ Go(u, "refill")
  /\ UNCHANGED <<aside, work, counters>>

\* ... and the version's are created, as rows added by hand.
Refill(u) ==
  /\ On(u, "refill")
  /\ Create([k \in DOMAIN user[u].snap |-> ByHand(user[u].snap[k])])
  /\ Go(u, "version")
  /\ UNCHANGED <<aside, work, counters>>

\* The version saved after a change (after a decision, checkpoint's baseline
\* comes here too).
Version(u) ==
  /\ \/ On(u, "version")
     \/ On(u, "apply") /\ user[u].props = {}
  /\ snaps' = Baseline \cup {Contents}
  /\ user' = [user EXCEPT ![u] = NoRequest]
  /\ UNCHANGED <<identity, shows, rows, work, due, counters>>

\* The statement's row is gone: it throws, and no version is saved.
UserFails(u) ==
  /\ \/ user[u].step \in {"edit", "delete", "drop"} /\ ~Exists(user[u].row)
     \/ /\ On(u, "apply")
        /\ \E p \in user[u].props :
             ~Exists(IF p.target = NoRow THEN p.id ELSE p.target)
  /\ user' = [user EXCEPT ![u] = NoRequest]
  /\ UNCHANGED <<tables, work, counters>>

\* A process dies between two statements.
Dies ==
  /\ Operation
  /\ \/ \E w \in Workers : /\ ~At(w, "idle")
                           /\ work' = [work EXCEPT ![w] = Idle]
                           /\ UNCHANGED user
     \/ \E u \in Users : /\ ~On(u, "idle")
                         /\ user' = [user EXCEPT ![u] = NoRequest]
                         /\ UNCHANGED work
  /\ UNCHANGED <<tables>>

-----------------------------------------------------------------------------
Init ==
  /\ identity = [e \in Entities |-> "live"]
  /\ shows \in [Entities -> Cells]
  /\ rows = << >>
  /\ snaps = {}
  /\ work = [w \in Workers |-> Idle]
  /\ user = [u \in Users |-> NoRequest]
  /\ due = [e \in Entities |-> 1]
  /\ counters = [ops |-> 0, runs |-> 0]

Work(p) == ReadFacts(p) \/ ReadRows(p) \/ CreateRows(p) \/ UpdateRow(p)
Change(u) == BeginChange(u) \/ InsertRow(u) \/ EditRow(u) \/ DeleteRow(u)
DecideProposals(u) == BeginAccept(u) \/ WriteTarget(u) \/ DropProposal(u)
                        \/ Admit(u) \/ Reject(u)
Rewind(u) == BeginRestore(u) \/ Wipe(u) \/ Refill(u)

Next ==
  \/ FactsChange
  \/ MoveRows \/ Tombstone \/ PruneEntity
  \/ \E p \in Projectors : Work(p)
  \/ ReadTable
  \/ Propose
  \/ \E w \in Workers : WorkEnds(w)
  \/ \E u \in Users : Change(u) \/ DecideProposals(u) \/ Rewind(u)
                        \/ Version(u) \/ UserFails(u)
  \/ Dies

Spec == Init /\ [][Next]_vars

-----------------------------------------------------------------------------
(* Properties.                                                             *)

Request == [step : {"idle", "add", "edit", "delete", "apply", "drop", "wipe",
                    "refill", "version"},
            row : Ids \cup {NoRow}, data : Data \cup {NoOne},
            props : SUBSET [id : Ids, target : Ids \cup {NoRow}, data : Data],
            snap : Seq(Data)]

\* The variables have their types.
TypeOK ==
  /\ identity \in [Entities -> {"live", "moved", "merged", "pruned"}]
  /\ due \in [Entities -> Nat]
  /\ shows \in [Entities -> Cells]
  /\ rows \in Seq(Row \cup {Gone}) /\ Len(rows) <= MaxRows
  /\ snaps \subseteq Seq(Data)
  /\ \A p \in Projectors :
       work[p] \in [step : {"idle", "rows", "create", "update"},
                    facts : [Entities -> Cells \cup {NoOne}],
                    create : SUBSET Entities,
                    update : SUBSET (Ids \X Data)]
  /\ work[Sync] \in [step : {"idle", "propose"},
                     facts : [Entities -> Cells \cup {NoOne}],
                     create : SUBSET Data, update : SUBSET (Ids \X Data)]
  /\ user \in [Users -> Request]
  /\ counters \in [ops : 0..MaxOps, runs : 0..MaxRuns]

\* A change that waits for review is a change of a row that is there and
\* live, whatever was deleted, rejected or restored after the sync read it.
TargetsAreLive == \A r \in Proposed : rows[r].target \in Accepted \cup {NoRow}

\* "re-projecting updates rows instead of duplicating them" (project.ts): an
\* entity has a second row only from projections that both planned to add it, or
\* from a merge, and no more than those account for, whatever users edit, delete,
\* accept and restore meanwhile.
RowsAccounted == \A e \in Entities : Cardinality(RowsOf(e)) <= due[e]

\* "human-edited rows are left untouched" (project.ts): a row marked as edited
\* holds what a person last typed into it, unless a projection had already
\* planned to rewrite it at that moment.
EditedHoldsTyped ==
  \A r \in Accepted :
    rows[r].edited /\ rows[r].typed # NoOne => rows[r].data = rows[r].typed

\* What waits for review leaves only by a decision on it, or with the row it
\* would change ("keeping proposals", restoreSnapshot).
DecidesOn(u, r) == \/ \E p \in user[u].props : p.id = r
                   \/ On(u, "drop") /\ user[u].row = r
ProposalsAwaitDecision ==
  [][\A r \in Proposed \ Proposed' :
       \/ \E u \in Users : DecidesOn(u, r)
       \/ rows[r].target # NoRow /\ rows'[rows[r].target] = Gone
       \/ \E u \in Users : Reject(u)]_vars
=============================================================================
