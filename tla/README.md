# Verification of datamodo

TLA+ models of the parts of datamodo where things happen at the same time,
fail half-way, or arrive twice: how a message is captured, how the extraction
queue leases it to workers, how the facts a run finds are folded into the
temporal fact store while users accept and reject, how the entities they hang
on are resolved, merged and pruned, how tables are kept in step with them under
the users' hands, and the smaller loops around: the IMAP poller, replies over
channels, proposals of categories, the template of a kind, routing feedback, the
spending cap and the reconciliation of one extraction. TLC checks the models on
small instances; TLAPS proves every safety property of the passing runs for all
instances.

Paths below are relative to the repository. `PROJECT.json` lists the
components, the runs, the source lines each definition translates, the hazards
and the theorems.

## 1. The system

datamodo turns messages (mail, WhatsApp, chat, API, MCP, documents) into a
knowledge graph with provenance. The route handlers are serverless functions
over one Postgres database: there are no long-lived processes, hardly any
transactions (nearly every statement commits by itself), and any invocation may
be killed at `maxDuration`. A local edition runs the same code on an embedded
database, with an IMAP poller and without the cron jobs.

| component | state it keeps | operations | hard behaviours | what makes it correct |
|---|---|---|---|---|
| **Capture** `lib/ingest/store.ts` | `items`, `attachments`, `blobs` with reference counts, the object store | `ingest`, `storeBlob`, `readBlob` | providers retry and deliver twice at once; two messages share a blob; an attachment fails half-way; death between two awaits | no row refers to missing bytes; exact reference counts; 'stored' means whole; nothing lost |
| **Extraction queue** `lib/datamodo/extract.ts`, `lib/ingest/kick.ts`, `api/jobs/extract-*` | `items.status`, `claimed_at`, `attempts` | claim, recover, run, fail, requeue | kicks and cron ticks race; crashed and killed workers; late workers; the retry cap | one live worker per item; orphans and only orphans are recovered; every item settles |
| **Fact store** `lib/datamodo/knowledge.ts` | `facts` (bitemporal), `fact_sources`, `knowledge_reviews` | `upsertFact`, `createConflictReview`, `ensureTemplateSlots`, `alignSlotCardinality` | a batch prefetch gone stale; five statements without a transaction; the unique index as the only lock | a slot never loses its value; a contradiction is never silent; weak never beats strong; every fact has a source |
| **Reviews** `lib/datamodo/reviews.ts` | `knowledge_reviews.status` and what each kind touches | `acceptReview`, `rejectReview` | decisions that race with runs, with each other and with later changes | as above |
| **Entity graph** `knowledge.ts`, `consolidate.ts` | `entities`, aliases, tombstones (`merged_into`) | `resolveEntity`, `mergeEntities`, the consolidation pass | merge without a transaction; a pair list from one snapshot; cycles of tombstones | a merge leaves nothing behind and is on record; nobody is asked twice; a prune spares what is linked |
| **Reconciliation** `reconcile-core.ts` | none (pure) | normalise, collapse repeats, settle cardinality | orders of application, ties | two values of one message never supersede each other; nothing said is lost; a second pass changes nothing |
| **Channels and review replies** `channels.ts`, `review-inbox.ts`, `review-ping.ts` | link codes, bound senders, pending reviews numbered twice | bind, ping, parse a reply | a code sent twice at once; numbers computed at ping time and again at reply time; decisions in the app meanwhile | a code binds one sender; what is confirmed is decided; an answer reaches the question that was asked |
| **Tables** `datasets.ts`, `project.ts`, `sheets.ts` | rows, snapshots, proposals, human-edit marks | propose, accept, edit, restore, project | an old proposal against a later edit or a restore; two projections at once; merges and prunes of the entities | what a person typed stays until a person decides otherwise; an entity's rows are all accounted for; only decisions end a proposal |
| **IMAP connector** `lib/local/connectors/imap-poll.mjs` | cursors per mailbox in memory and in a file | poll | overlapping ticks; rejected posts; restarts; messages without a source; an empty mailbox | a mail after the first run is captured, or is one a poll had to pass over |
| **Kinds** `kinds.ts`, `ontology-health.ts` | templates (fields, relations, aliases), their columns, proposals | propose, accept, edit, patch, sync columns | two runs propose at once; whole rows read, changed and written back; half a row written | a kind is proposed once, but for overlapping runs; an accepted one is registered; what was accepted stays in the template; fields and columns in lockstep |
| **Routing** `routing.ts`, `routing-learn.ts` | profiles, feedback events | route, learn | fold, then stamp, without a transaction | feedback is folded once, but for deaths between the two |
| **OAuth** `oauth-store.ts` | codes, tokens | issue, exchange, rotate | a code used twice at once | single use |
| **BYOK cap** `usage.ts`, `llm-for-user.ts` | spending per month | check, spend | check-then-act; inserts nobody waits for | the cap is passed by no more than what live runs may spend and late inserts add |
| Documents, chunks, LLM calls | rows written inside a run | parse, embed | reruns | idempotent per item |
| Search, answers, timeline, explorer, dossiers, priming | none | read | – | read models |
| Email worker, MCP server, chat, settings, plans, auth, dashboard, exports, sync | configuration, external stores | adapters | – | every capture goes through `ingest()` |

### How they interact

A channel adapter calls `ingest()` and schedules `kickExtraction` after its
response. Kicks and the cron tick claim 'stored' items and call
`runExtractionForItem`, which reads the bytes back from the object store, calls
the LLM, resolves entities, calls `upsertFact` for every claim, files reviews
and ends with status 'analyzed' and a reply to the sender. Users decide reviews
on the dashboard or by answering that reply, at any time, while other runs
write the same slots. The nightly consolidation merges entities under all of
this. Everything meets in the database: the shared state *is* the interface,
and the unique indexes, foreign keys and triggers of `neon/schema.sql` are part
of the behaviour.

## 2. The modules

### `Capture.tla`: `ingest()`

A call of `ingest()` is a process with one action per `await`:

| action | code |
|---|---|
| `Deliver` | a provider's request reaches a free invocation, at most `MaxDeliveries` times per message |
| `LookupKnown`, `LookupNew` | the idempotency lookup; any row at all is answered "stored, deduped" |
| `FindBlob`, `PutBlob`, `InsertBlob` | the three awaits of `storeBlob()`; a unique violation of the insert is swallowed, as in the code |
| `CreateItem`, `CreateConflict` | `items.create` with status 'received', or the violation of `items_idem_idx` |
| `Attach` | `attachments.create`, then the next attachment |
| `Finish` | status 'stored' and the answer 201 |
| `ThrowEarly`, `ThrowLate` | any await throws, before the row (nothing recorded) or after it (the catch block: 'failed') |
| `Die` | the process disappears between two awaits |

`status`, `attached`, `blobs`, `refCount` are the rows, `objects` the object
store, `step`, `msg`, `todo`, `created` the local variables of the calls.
`Reference` is the pair of reference-count triggers. `acked` remembers whose
provider was told "captured".

Left out: `resolveTarget()` (which organisation a message goes to), and
messages without an external id, which the idempotency index does not cover.

### `ExtractionQueue.tla` and `JobBoard.tla`

A worker is an invocation of a route: a *kick* (claims up to `KickMax` items in
one statement), a *tick* (the two statements of `recoverExtractionQueue`, then
one claim at a time) or an *inline* run (the MCP tool `run_extraction`, which
runs an item it has just captured without claiming it). Each SQL statement is
an action, a worker may `Crash` between any two, and `Kill` is the platform's
`maxDuration`. `claimAge` is `now() - claimed_at` and `life` the age of the
invocation, both advanced by `TimePasses`. The work of a run between
'analyzing' and its last update is one step that may succeed, fail or be cut
off: what it writes is the business of `FactStore`.

`JobBoard` is the abstract specification: jobs with at most one owner, a
bounded number of tries, given back only when nobody owns them, buried only
after the last try. `ImplementsJobBoard` states that the queue refines it, where
the owner of a job is the live invocation that has the item in its batch.
`claimed_at` and its age do not appear in the abstract state: that time stamps
stand for ownership is what the refinement checks.

### `FactStore.tla`: one slot

The rows of `facts` with one claim key, their `fact_sources`, and the reviews
about them, under two kinds of process:

* **runs**, which walk through `ingestExtraction` and `upsertFact` statement by
  statement: `Look` (the batched prefetch), `Guard` (the supersession guard),
  `Hold` (a weaker candidate recorded retired), `Retire`, `Insert`, `Link`
  (supersession), `Source` (provenance), `File` (`createConflictReview`), `Fill`
  (`ensureTemplateSlots`) and `Close` (the extraction review);
* **reviewers**, which walk through `acceptReview` and `rejectReview` of
  `fact_conflict` and extraction reviews: `Decide` (`loadPending`), `Apply` and
  `Reapply`, `Withdraw` and `Restore`, `Unsource`, `SelectMine`, `Sieve`,
  `Delete`, and `Resolve`.

A statement that meets `facts_current_claim_uq` or a foreign key throws
(`RunFails`, `ReviewFails`), and either process may die between two statements
(`RunDies`, `ReviewDies`).

Three history variables name what the code knowingly leaves: `gap` is set when a
replacement ends between its retire and its insert or a retraction deletes the
current row, and cleared when a row becomes current; `unfiled` collects the rows
a run wrote or replaced and ended before it filed them; `crossed` collects rows
a run linked to their successor (by id, `knowledge.ts:770`) after a decision had
made them current again. The properties exempt exactly those, so that
everything else must hold: the races of complete runs and complete decisions.

Abstractions: one claim per run; confidences in tenths (only their order and
the margin matter); the extraction's overall confidence is the claim's; accept
of an extraction review and the merge, category, field, off-template and orphan
reviews touch no row of the slot and are left out; the lease of the queue keeps
two live runs off one item (`ExclusiveLease`, proved).

### `EntityGraph.tla`: identities, merges and prunes

The rows of `entities` of one kind, the rows that refer to them, and the reviews
about them, under three kinds of process:

| actions | code |
|---|---|
| `Start`, `Exact`, `Recall`, `Bump`, `LogMatch`, `Create`, `Propose` | `resolveEntity` of a mention: exact key, candidates and judge, `bumpSupport`, audit review, `entities.create`, merge proposal |
| `Write` | `upsertFact` with the id that was resolved, whatever became of the entity meanwhile |
| `Repoint` (four times), `MoveBody`, `Tombstone` | `mergeEntities`, by the pass or by a reviewer, statement by statement |
| `Load`, `Block`, `JudgeSame`, `JudgeApart`, `LogMerge`, `FlagStrays` | `consolidateOrg`: the snapshot, the candidate pairs less those reviewed, the verdicts, the review of a merge, the orphan pass |
| `Decide`, `Select`, `Delete`, `Resolve` | `acceptReview` and `rejectReview` of `entity_merge` and `orphan_prune` |
| `RunFails`, `Fails` | a statement throws: the row is gone, or `entities_norm_key_uq` refuses it |
| `Dies` | the pass or a decision ends between two statements |

A *link* is one reference of a row: a fact to its subject or to its object, a
passage or a table row to its entity. `at` says which entity it refers to;
`Class` in which column it is, hence which statement of a merge moves it.
`pairs` and `ids` of the pass are its snapshot: it never reads the graph
again. What the foreign keys do when an entity is deleted is in `Without` and
`Delete`: links are deleted or set to null, reviews go, a tombstone revives
(its `merged_into` is set to null), which the unique key may refuse.

Three history variables serve the properties: `late` (links somebody put on an
entity that was merged away or being so), `cut` (entities whose merge ended
before its review) and `linked` (for each reviewer, the facts there were when the
prune selected).

Abstractions: one kind; a body is there or not; any two entities may be
similar, any verdict may be given and any stray may be old enough; a fact
refers to one entity; `support` stops counting at `MaxSupport`. Natural keys,
embeddings, template placeholders, the pass's template and field steps and its
routing learning touch neither links nor merges and are left out. There is one
pass at a time: the workflow's concurrency group and `maxDuration` keep two
apart. A run that dies needs no action of its own: it takes no further step.

### `TableRows.tla`: tables, proposals and versions

The rows of one table (`dataset_rows`, in the order of creation) and its
versions (`dataset_snapshots`), under users, projections and a synced sheet:

| actions | code |
|---|---|
| `FactsChange` | extraction and decisions change what the entities' facts say |
| `MoveRows`, `Tombstone` | `mergeEntities`: the loser's rows become the winner's, and later it is a tombstone |
| `PruneEntity` | an accepted `orphan_prune`: the entity's row goes, its table rows stay without one, and tombstones merged into it live again |
| `ReadFacts`, `ReadRows`, `CreateRows`, `UpdateRow` | `projectEntitiesToDataset`: the facts, the rows that are there, one `createMany`, one update by id after the other |
| `ReadTable`, `Propose` | `syncSnapshotAsProposals`: the sheet is matched with the table, then proposed in one `createMany` |
| `BeginChange`, `InsertRow`, `EditRow`, `DeleteRow`, `Version` | `addRowAction`, `updateRowAction`, `deleteRowAction`: the baseline of `checkpoint`, the change, the version after it |
| `BeginAccept`, `WriteTarget`, `DropProposal`, `Admit`, `Reject` | accepting and rejecting proposals singly or in batches: an update proposal writes its target and is then deleted, an addition changes status |
| `BeginRestore`, `Wipe`, `Refill` | `restoreSnapshot`: read, delete the accepted rows, create the version's |
| `UserFails`, `WorkEnds`, `Dies` | a statement names a row that is gone; the work is done; a process dies between two statements |

`Without` is a delete with the foreign key `target_row_id ... ON DELETE CASCADE`.
Several projections of a kind may run at once, as nothing serializes them. A
merge may join any two entities that have a row, also ones merged before, as
`mergeEntities` looks at neither side; any entity that is not a tombstone may be
pruned, which allows more than the select of `orphan_prune` does. `identity` says
what became of an entity. `due`, a ghost, counts the rows it may have: one, one
more for each projection that planned to add it while another was about to, and
those that merges handed to it.
A row's data are a name, in the label column that a sheet is matched on, and
the rest of its cells. `typed`, a ghost, holds what a person last typed into a
row, unless a projection had planned to rewrite it by then.

### `ImapPoller.tla`: the local edition's mailbox

`pollConnector` and the interval that starts it without waiting for the last
one: `FirstSight` marks a mailbox and captures nothing, `OpenMailbox` finds the
range of new messages, `PostMail` hands one to the ingest route and advances the
cursor, `SaveCursor` writes the file. A poll goes over a message that is gone
(`MailLeaves`, `SkipGone`) or is fetched without its source (`SkipSourceless`), as
the `continue` of line 189 does: it leaves the cursor where it is, and the next
message that is captured moves the cursor past both. `PostRejected`, `SaveFails`
and `ImapRestart` are what else may go wrong. Several polls share the cursor in
memory, the file, and the one temporary file it is renamed from. `skipped`, a
ghost, remembers what was gone over.

### `ChannelInbox.tla`: link codes, questions and answers

Webhook calls and taps in the app, await by await. `ReceiveCode`, `ConsumeCode`
(a guarded update), `BindSource` and `CodeExpires` bind a sender.
`FileQuestion` and `Ping` ask; `ReceiveReply`, `ListQuestions` (the number is
looked up among what is pending by then), `ReceiveTap`, `LoadReview`,
`ResolveReview` and `Confirm` answer; `CallDies` is anywhere. The ghosts
`bindings`, `answered`, `confirmed` and the field `meant` remember what the
senders were told.

### `CategoryProposals.tla`: kinds

`maybeProposeCategories` of runs and the proposals of Obsidian imports
(`RunProposes`, `ImportProposes`, `TakeCandidate`, `LookForPrior`,
`FileProposal`, `FilerFails`), decisions on them (`Decide`, `CreateAccepted`,
`CreateFails`, `ResolveProposal`, `DeciderDies`) and users who add and delete
categories meanwhile. The template is drafted by an LLM between the look and
the filing: seconds in which another run may look.

### `KindTemplate.tla`: the row of one kind

Its template (fields and relations with their aliases), the columns of its
table, the `field_proposal` reviews about it, and everybody who reads the row
and writes it back later:

| actions | code |
|---|---|
| `LoadGrowth`, `FileField` | the nightly pass: predicates in heavy use outside the template, the most used two of them, less those asked before, each as a field or as an alias of a key that looks alike |
| `DecideField`, `LoadForApproval`, `SaveGrowth`, `ResolveField` | `acceptReview` and `rejectReview` of a field proposal: `listKinds`, `updateKind` with the whole template, the status |
| `LoadForEdit`, `SaveEdit`, `UpdateCategory` | the dashboard's editor and the MCP tool, which drops the aliases of the fields or relations it is given |
| `OpenSheet`, `ReadTemplate`, `SetColumns` | columns added, removed or restored with a version: `setColumns` writes columns and fields, not relations |
| `ReadBare`, `FillColumns` | `materializeKindTable`: columns of a row that has none |
| `ReadUndeclared`, `Patch` | the backfill of cardinalities at the start of every `listKinds`: fields and relations, not columns |
| `Leaves` | a statement throws, a window is closed, an invocation dies |

`updateKind`, `setColumns`, the backfill and `materializeKindTable` each write
another part of the row, from reads of any age. Two ghosts say what that costs.
`excused` holds names whose loss is accounted for: the writer knew that they
would not be in what it saves, or they are younger than its read. `crossed` is
set when a statement that writes half of the row was computed from another half
than the one it meets. Abstracted: labels, units, types and order; a
cardinality is declared or not; which predicates look alike is a relation.

### `RoutingLearn.tla`: feedback and the nightly pass

`Feedback` and `ItemSettles` produce events; the pass is `SweepImplicit`,
`LoadEvents`, then per agent `ReadProfile`, `WriteProfile`, `StampConsumed`, and
may be cut off anywhere (`PassCutOff`). What a fold computes is abstracted to
how often each event is in the stored profile.

### `SpendingCap.tla`: the monthly cap

A run resolves its provider once (`ResolveProvider`, or `ResolveBlind` when the
ledger cannot be read), then calls the model; the usage of each call is inserted
by a promise nobody waits for (`SaveUsage`, `UsageLost`). When the run ends
(`SpenderEnds`), the inserts that have not landed go with the process or stay
under way in one that survives (`adrift`), and land at any time after
(`LateUsage`). `NewMonth` completes it. `owed`, a ghost, is how many were adrift
when the ledger was last found under the cap.

### `ReconcileFacts.tla`: `reconcileExtraction`

The pure algorithm, loop by loop. A `for` loop of the code is `Loop(Round, s)`: a
recursive function (`Rounds`) gives what each round has made of an empty list,
and the operator `Round` is the loop's body, defined by itself (`KeepEntity`,
`KeepFact`, `AddSlot`, `AddToGroup`, `AddValue`). Entities by local id
(`Entities`), facts with known references and usable values (`Referenced`), slots
in the order of their first fact (`SlotOrder`) and the facts of each (`Group`),
repeats merged (`Collapse`), cardinality settled (`Settle`, by what the registry
declares, `DeclaredFor`). A behaviour takes one extraction and reconciles it
twice. `LocalIds`, `Predicates` and `Literals` are what an extraction is made of
(`ReconcileAssumption`), in any number. `Promised` is the reference definition:
what the comments of `reconcile-core.ts` promise, as a set, without stages or
order. A value is abstracted to what `normalizeFactValue` and `valueSlot` tell
apart: a spelling one of them changes, one the other ignores, one that is
unusable.

### `MCIngest.tla` and `MCEdges.tla`

`Capture` and `ImapPoller` share no state, and neither do the last six modules.
Each group is checked in one run whose behaviours move one module (`focus`) and
leave the others in one initial state, so that the states of the run are the
union of theirs.

## 3. The runs

| run | what it asks | states | result |
|---|---|---|---|
| `queue` | `TypeOK`, `ExclusiveLease`, `AnsweredOnce`, `AnalyzedIsFinal`, `RecoversOnlyOrphans`, `ImplementsJobBoard` in a hosted deployment | 747,934 | hold |
| `queue_live` | `Drained`: every captured item settles, inline items included | 290,974 | holds |
| `queue_inline` | `RecoversOnlyOrphans` with an inline item | – | violated |
| `capture` | `TypesOK`; `NoDanglingHash`, `RefCountExact`, `StoredIsWhole`, `OneWriter`; `ImapCursorHonest`, `ImapDelivers` | 128,470 | hold |
| `capture_lost` | `NothingLost` | – | violated |
| `facts` | `TypeOK`, `SlotKept`, `ReplacementOnFile`, `SupersededIsRetired`, `GuardHolds` | 1,178,160 | hold |
| `facts_retract` | `EveryFactSourced` | – | violated |
| `graph` | `TypeOK`, `TombstonesAreBare`, `MergesLogged`, `AskedOnce`, `PruneSparesLinked` | 1,733,044 | hold |
| `graph_stale` | `NoFactStranded` | – | violated |
| `tables` | `TypeOK`, `TargetsAreLive`, `RowsAccounted`, `EditedHoldsTyped`, `ProposalsAwaitDecision` | 1,056,461 | hold |
| `edges` | `TypeOK`; `CodeBindsOnce`, `ConfirmedIsDecided`; `CategoryAskedBounded`, `AcceptedIsRegistered`; `FieldsHaveColumns`, `AcceptedGrows`; `LearnFoldsOnce`; `CapOvershoot`; `ReconcileMeetsReference`, `ReconcileIsStable` | 1,555,411 | hold |
| `inbox_reply` | `ReplyDecidesAsked` | – | violated |

What the less obvious ones mean:

* `EditedHoldsTyped`: a row marked as edited by hand holds what a person last
  typed, whatever projections run, unless one had planned the rewrite before the
  edit; only an accepted proposal or a restore takes the edit away.
* `RowsAccounted`: an entity has no more linked rows than `due`, so a second one
  comes only from projections that overlapped between look and insert or from a
  merge, never from edits, decisions, deletions, restores or prunes.
  `TargetsAreLive`: a pending update proposal names an
  accepted row that exists. `ProposalsAwaitDecision`: a proposal disappears only
  by a decision about it, or with the row it was to change.
* `ImapCursorHonest`: a cursor, in memory or in the file, is past a message that
  came after the first sight only when the message is captured, or when a poll
  went over it and a later one was captured: going over messages alone moves no
  cursor, so that they are fetched again. `ImapDelivers` likewise: such a message
  is captured in the end unless it leaves the mailbox, or is passed over so.
* `CategoryAskedBounded`: a kind is never proposed more often than there are
  callers that may be between the look and the filing at once.
* `AcceptedGrows`: what an accepted field proposal added is in the template's
  vocabulary through every edit, patch and change of columns, but for what
  `excused` accounts for. `FieldsHaveColumns`: every field that is shown has its
  column, unless `crossed`, or the kind never had columns.
* `ReconcileMeetsReference`: the stages of `reconcileExtraction` return exactly
  what its comments promise, so that no two facts of one message share a claim
  key and supersede each other. `ImplementsJobBoard` likewise contains the cap
  on attempts (`RetryCap`, which is also proved by itself): an open job of the
  board has tries left.
* `LearnFoldsOnce`: an event is in its agent's profile once it is consumed,
  exactly once but for the passes that ended between the fold and the stamp.
* `CapOvershoot`: a month's recorded cost passes the cap by less than what the
  runs live at once, and those that could not read the ledger, may spend, and
  what the inserts add that were adrift when the ledger was last found under the
  cap (or the month began).

### What the violations show

* `queue_inline`: `run_extraction` never stamps `claimed_at`, and the recovery
  reads null as "orphaned". The next tick puts the item of a live invocation
  back to 'stored', and a second worker runs it beside the first.
* `capture_lost`: a process that dies after `items.create` leaves 'received'.
  Every redelivery is answered as captured, and no recovery looks at
  'received'.
* `facts_retract`: `rejectReview` deletes only facts the rejected message itself
  created. Reject the creating message, then the corroborating one, and the
  fact is current with no source at all.
* `graph_stale`: one pass judges three namesakes from its snapshot, with nothing
  else running. It merges 2 into 1, then 3 into 2, which is a tombstone by then.
  The fact of 3 hangs on 2 for good: nothing follows `merged_into`, and later
  passes load live entities only.

* `inbox_reply`: two messages leave a question each, and the ping of the first
  numbers only its own question (`extract.ts:1058-1064`): "1". The reply "1 yes"
  is looked up among all pending questions, the newest first
  (`review-inbox.ts:48`), and decides the question of the other message. The
  same happens with one message and two questions: after "1 yes", "2 no" means
  another question than the ping did.

### Bounds, and why they are enough

* **Queue.** Two items and two workers: a race needs two workers on one item,
  a batch needs two items, and a kick that claims both leaves one waiting in
  its batch while the other runs. `MaxAttempts` = 2 reaches a retry and an
  exhausted item. `RunLimit` < `OrphanAfter` as deployed (60 seconds against
  10 minutes), in the smallest units that keep the order. One requeue reopens an analysed
  item. For liveness the batches are one item and there is no requeue, which
  keeps the state graph within reach; item 2 is inline.
* **Capture.** Two messages that share a file, one of them as an attachment
  and in its head, and a body that is also an attachment: one hash is counted
  in both ways and twice by one row. Two calls and two deliveries of each
  message: duplicates of one message and concurrent uploads of one hash.
* **Facts.** Three messages (a sure value, a doubtful restatement, a
  contradiction within or beyond the margin), two concurrent runs and two
  concurrent reviewers, three starts (so that a message can be rerun, or all
  three filed), two decisions and one death. Symmetry over runs and over
  reviewers, which are interchangeable; no temporal property is checked under
  it. The crossing that `crossed` exempts needs a fourth start and two
  decisions; four starts were checked with one decision and one death
  (2.5 million states) and with two decisions and no death (10.6 million), and
  the theorems cover every number. The violation needs neither deaths nor
  concurrency and uses one of each.
* **Graph.** Two entities, a stray that a table row shows and one with a fact, a
  passage and a body, and a mention that may bring a third; one run, two
  passes (the second must not ask again what the first asked), one reviewer
  with one decision, and one death. Every class of link occurs, so every
  statement of a merge has something to move, and a merge meets a write, a
  prune, a death and the next pass. A merge by the reviewer runs beside one by
  the pass. The violation needs three entities and only the pass.

* **Tables.** Two entities, two contents, two users, two projections and a sheet
  beside each other, three rows ever, three operations (those of users, merges,
  prunes, changes of facts and deaths) and two projections or syncs: a proposal
  is made, its target is edited or deleted, and then it is accepted; a projection
  plans, and a user edits or restores, or a merge or another projection gets
  ahead, before it writes. Users type one content and the sheet has one row, of
  the other entity's name. Symmetry over users and over projections; the only
  temporal property is an action property.
* **IMAP.** Two polls, four messages and two troubles: polls that overlap on a
  range of more than one message, a message passed over between two others, and
  a restart from an old file.
* **Edges.** Two handles for one code; two questions of two messages and two calls about them. Two
  runs and an import for one kind and one decision at a time. Two agents, three
  events in batches of two, one cut-off per event. A template of one field or none, three predicates (one that
  gets a cardinality, one that is bookkeeping, one that looks like another and has
  entities as values), two approvals, an editor and a table of which one is opened,
  two of all writers at work at once: any two writers cross, and a third comes
  after them. Two runs of two calls each
  against a cap that one run may pass, one ledger read that fails, and two inserts
  that outlive their runs. Every
  extraction of at most three of twelve facts, chosen so that values are
  repeated in every spelling, under three lists of entities and slots declared
  single, list and not at all. The violation needs one call and two questions.

`CHECK_DEADLOCK FALSE` everywhere: the models stop when the bounded deliveries,
starts or items are used up and all calls have returned. `MaxDeliveries`,
`MaxRequeues`, `MaxStarts`, `MaxDecisions`, `MaxDeaths` and the other constants named `Max...`
are bounds of the model, not of the code; the theorems hold for every value of
theirs.

### Fairness

Two runs assume any. `capture` assumes of the poller that the interval keeps
firing and that a poll which has begun goes on (`WF` of the steps of each poll):
`setInterval` and the event loop do that. Posts may be rejected, saves may fail
and the process may restart, a bounded number of times; mail is then captured
all the same, unless the cursor was lost with the file and the mailbox is taken
for a new one.

`queue_live` (`FairSpec`): time passes; the platform kills an
invocation that has reached its limit; some invocation of the cron is started
again and again; and, strongly, not every tick dies before the same statement
of its recovery or its claim. The first three are what Vercel and the workflow
`.github/workflows/extract-cron.yml` do; the last says that the database is not
down for ever exactly when a tick reaches that statement. *Nothing* is assumed
of the runs: each may hang until it is killed, fail, or crash, and an item still
settles, as 'analyzed' or as 'failed' with no attempts left. The local edition
has no cron, so `Drained` says nothing about it.

## 4. The proofs

### `ExtractionQueueProofs.tla`

For any number of items and workers, any limits and any batch sizes:

* `TypeCorrect`, `QueueTypesHold`: `Spec => [](TypeOK /\ RetryCap)`, in every
  deployment, inline runs included.
* `LeaseIsExclusive`, `OnlyOrphansRecovered`, `AnalyzedStays`: the lease
  properties, under `Hosted == InlineItems = {} /\ RunLimit < OrphanAfter`. The
  first conjunct excludes the tool that breaks the lease (`queue_inline`); the
  second is the relation between `maxDuration` and `ORPHAN_AFTER_MINUTES` on
  which the design rests.
* `SenderIsAnsweredOnce`: `Spec => []AnsweredOnce`, under `Hosted`.
* `QueueImplementsBoard`: `Spec => ImplementsJobBoard`, under `Hosted`.

`ExclusiveLease` is not inductive: that two batches are disjoint does not say
why a tick may not put a held item back. The invariant `LeaseInv` adds the
reason: an item in a batch is 'analyzing', its claim is stamped, and the claim
is no older than its holder, whose `life` is at most `RunLimit` and hence less
than `OrphanAfter`. So it is not `Stale`, neither `Requeued` nor `Abandoned`
contains it, and a claim, which takes 'stored' rows only, cannot reach it
either. `RetryCap` needs `Capped`: a row never captured has no attempts, and a
running worker knows its item.

`AnsweredOnce` bounds the answers by the times an item was queued. The
invariant `Accounted` adds to the answers given those still due: the
invocations that have analysed an item and not yet answered for it (`Owing`).
Together they never pass the reopenings, plus one while the item is 'analyzed';
the lease keeps a second invocation from analysing it without a reopening.

The refinement takes the queue's steps one by one. The initial states map to
an empty board; each action maps to the board's action of the same meaning or
to a stutter; and every proof obligation that asks whether a job has an owner,
or a second one, is answered by `LeaseInv`. A statement that takes or gives back
several items maps to one step of the board, which works on sets of jobs.

### `IngestProofs.tla`

Of capture, for any messages with any contents, any hashes shared in any way, any
number of concurrent calls and deliveries:

* `NoRowDangles`: `Spec => []NoDanglingHash`
* `ReferencesAreCounted`: `Spec => []RefCountExact`
* `RowHasOneWriter`: `Spec => []OneWriter`
* `StoredItemsAreWhole`: `Spec => []StoredIsWhole`
* `CaptureTypesHold`: `Spec => []TypeOK`

The inductive invariant `CaptureInv` accounts for the work in flight. Before the
row, each hash it will refer to is archived or still to do (`HeadProgress`);
after it, what is to do is exactly what has no attachment row yet, in order
(`TailProgress`); what a call has found or put stays there, because nothing
deletes blobs (`Archived`). `TailProgress` is preserved only because no other
call touches the same row, which is `OneWriter`; and `StoredIsWhole` follows at
`Finish` because nothing is left to do. The assumption `CaptureAssumption` says
that contents are sequences of hashes and that there is a message.

`RefCountExact` compares a counter with a cardinality: the positions at which the
item rows and the attachment rows hold a hash. `RowsCounted` says that both sets
are finite, though there may be messages without end, and that the counter is
the sum of their sizes. An item row is inserted only where there was none, and an
attachment row takes the next position (`TailProgress`), so a statement adds to
the sets exactly what its trigger counts. The trigger updates a blob row that has
to be there by then, which is `HeadProgress` and `Archived`.

Of the poller, for any number of overlapping polls, messages and troubles:
`ImapTypesHold` and `ImapCursorIsHonest` (`ImapCursorHonest`), with messages that
are gone or come without a source at any time. No cursor can be
honest unless the own cursor of each poll is, since a poll writes it to the file
whenever it gets there; the invariant says so of all of them (`GoodRow`), and
that none is ahead of the mailbox. Polls that overlap may repeat messages, and
do, but not skip them.

`IngestTypesHold` composes the two: a behaviour of the composition, seen from
either part, is a behaviour of that part (`IngestIsCapture`, `IngestIsPoller`),
because a step of the other one leaves it as it is.

### `EntityGraphProofs.tla`

`MergesLeaveNothing`: `Spec => []TombstonesAreBare`, for any entities, links,
mentions, runs and reviewers, any number of merges side by side, and deaths
anywhere.

That tombstones are bare is not inductive: `Tombstone` sets `merged_into`
without looking at the links. The invariant `GraphInv` adds `MergeProgress`: a
merge under way has on its loser only links of the classes that its statements
have still to move (`Pending`), but for what came `late`. Each `Repoint`
empties one class, so before `Tombstone` none is left. A link that a run or
another merge puts there in the meantime is late by definition, and links that
`Repoint` carries to a live winner are late no more. `NoLinkDangles` is
needed because a link is put on an entity only while its row exists, and a
deletion takes its links along. The exemption is real: the code does not
defend against late links, which is what `NoFactStranded` shows.

`GraphTypesHold`: `Spec => []TypeOK`. `TypeOK` bounds the entities by the seed and
the mentions, and says that reviews name rows that exist and no merge joins an
entity with itself. The first takes `CountInv`: an entity yet to come is counted
by the mention a run still holds (`Waiting`), and no two runs hold one. The others
take `RowsInv`: the rows and reviews are sound, and what a process remembers
between two steps (`RunsApart`, `MergesApart`, `PairsApart`) joins two different
entities.

`NobodyIsAskedTwice`: `Spec => []AskedOnce`. Of a pass at work `AskInv` says that
nothing it still has to judge was put to the user before (`PassReviewed`), that no
pair is in its snapshot twice in either order, and that the merge it is doing is of
a pair that has left the snapshot.

`PrunesSpareFacts`: `Spec => PruneSparesLinked`, by `PruneInv`: no fact hung on what
a prune is about to delete when it chose.

`MergesAreOnRecord`: `Spec => []MergesLogged` under `OneReviewer`. A tombstone is
written two steps before its review, and an accepted proposal keeps its row pending
until the merge is done. The proof follows the record through both: a review is
one row whatever its status (`Twins`, from `AskedOnce` and `ProposeInv`: a run
proposes its entity once), a reviewer at work still has the pending row it acts
on (`DecisionInv`), so resolving it marks that row and no other, and
an entity that disappears takes both its tombstones and its reviews along
(`LogInv`). With two reviewers at once the argument fails where the code does: an
acceptance and a rejection of one proposal both find it pending, the last status
wins, and a merge may stand under a rejected review (`reviews.ts:419`).

The assumption `GraphAssumption` says that the constants describe a graph the
database accepts, with finitely many links, and that `support` can count at least
one mention.

### `FactStoreProofs.tla`

For any messages, claims, runs, reviewers and margins, and histories of any
length: `FactTypesHold` (`TypeOK`, in which no provenance and no review names a
deleted row), `SlotKeepsItsValue` (`SlotKept`), `ReplacedValuesAreFiled`
(`ReplacementOnFile`), `SupersededRowsAreRetired` (`SupersededIsRetired`) and
`WeakClaimsAreHeld` (`GuardHolds`).

Each of the four speaks of moments when nothing is under way, or of rows only.
`FactInv` says what is true in between:

* `Reads`: what a run, a review and a decision remember is still true when they
  use it (`RunOk`, `ReviewOk`, `DecisionOk`). A row read by the prefetch may have
  been retired meanwhile, but it holds the value that was read, so the margin
  that was compared with it still holds when the link is written; that carries
  `GuardHolds`.
* `LinksAreSafe`: a row a run is about to link as superseded is retired, unless a
  decision made it current again (`crossed`); that carries
  `SupersededIsRetired`.
* `ReplacedIsFiled`: a value that is not current any more is named by a review,
  or a live run has it `InHand` and will file it.
* `ValueIsComing`: a slot without a value has someone about to write one, a run
  between its retire and its insert (`Replacing`) or a decision between its two
  statements (`Turning`).

The ghosts `gap`, `unfiled` and `crossed` take over where a process ends in
between.

### `TableRowsProofs.tla`

For any users, projections, sheets and contents, any number of rows and
operations: `ChangesTargetLiveRows` (`TargetsAreLive`), `EditsAreKept`
(`EditedHoldsTyped`), `ProposalsWait` (`ProposalsAwaitDecision`, an action
property) and `RowsAreAccountedFor` (`RowsAccounted`), with any number of
projections at once and merges and prunes between any of their statements.

`TablesInv` says that what a projection has planned, what a sync has read and
what a user has asked for names rows that have not become something else: they
are `Settled`, that is, accepted, or gone, but never proposals. A proposal is
therefore only ever deleted by a decision that named it, and a sync that meets
its targets finds them accepted, not merely present, which is why `Exists`,
all that the foreign key checks, is enough for `TargetsAreLive`. A proposal can
target no proposal, so a deletion and its cascade never leave a dangling
target. A row planned for rewriting is `Spare`: no edit that
`EditedHoldsTyped` protects stands in it. The rows may hold data of any set `D`;
the invariant says that there is one, since the contents themselves do not
matter.

`TableTypesHold` (`TypeOK`) is where they do: what each statement writes, from a
projection's facts, a sheet, a request or a version, is data of the table, and an
id never names more rows than there are.

`RowsAccounted` counts the rows an entity has; its invariant (`AccountInv`) counts
with them the projections that are about to add one (`Adding`). A projection that
plans to add an entity has just seen that it has no row, so it needs an account of
its own only when another is about to add it too (`PlansAccounted`); its insert
turns an intention into a row (`CreatesAccounted`), linking each entity once; a
merge hands over no more rows than its loser's account held (`MovesAccounted`);
and no other statement links a row to an entity (`NothingLinked`).

### `CategoryProposalsProofs.tla`

* `CategoryIsAskedBoundedly`: for every kind, the proposals on file and the
  callers about to file one are together no more than the callers there are
  (`Counted`): who looks and finds none becomes one of the latter, and who files
  passes from the latter to the former. `AcceptedAreRegistered`: a decision that
  is about to mark a proposal accepted has its category, or a user has deleted
  it since. `CategoryTypesHold` is the types of both.
* `TemplateTypesHold`, `AcceptedStays` (`AcceptedGrows`) and `FieldsAreShown`
  (`FieldsHaveColumns`), for any keys and any number of writers. A review becomes
  accepted a step after the template was saved or looked at, so `AcceptedGrows`
  takes `Decisions`: who is about to record an acceptance has seen the name in the
  row, or its loss is accounted for. `NamesKept` says that no step loses a name
  without an account; it has one case per statement that writes fields, and rests
  on what each conversion keeps (`GrownKeeps`, `DeclaredKeeps`, `SyncedKeeps`).
  `FieldsHaveColumns` is inductive by itself: `updateKind` writes both halves, the
  halves written alone fit the other unless they are crossed, and what
  `syncFieldsToColumns` returns has its columns (`SyncedRange`).

### `ReconcileProofs.tla`

What `reconcileExtraction` computes, for any entities, facts and registry, and
messages of any length:

* `ReconcileTypesHold`: its result is an extraction, fit to be given to it again.
* `FirstPassKeepsThePromise`: `ReconcileSpec => []ReconcileMeetsReference`. The
  loops return what `Promised` says without loops, and each fact once.
* `SecondPassChangesNothing`: `ReconcileSpec => []ReconcileIsStable`. The result
  comes back as it is, cardinalities and order included.

The function is loops within a loop, so each fact about it is an induction over
the rounds of one of them. The induction rule of the library takes a predicate,
which the provers cannot instantiate; `Induct` states it for a *set* of rounds
instead, and follows from the well-foundedness of the naturals (a least round
outside the set has its predecessor in it). `RoundsExist` gives a loop its
equations, `RoundsStay` its type, and one lemma per loop instantiates them
(`KeptRounds` to `DoneRounds`).

Then each loop is described by positions, which need no induction to reason with.
What a loop that keeps or drops returns is `ListedBy` a set of positions of what
it was given: in order, each once (`ReferencedLists`, `GroupLists`). What
`Collapse` returns is `CollapsedAt`: for each value the position of its first
mention, and the highest confidence of its mentions. `SlotOrder` lists each slot
that occurs once (`SlotOrderLists`), and the result is the blocks of the slots, one
after the other (`Flattened`, `DoneLists`). `FirstPassKeepsThePromise` translates
these positions back to those of the message (`GroupFrom`, `CollapsedStandsFor`,
`SettledPromised`), slot by slot. `SecondPassChangesNothing` shows that each loop
returns what it is given when there is nothing left for it to do
(`EntitiesAgain`, `ReferencedAgain`, `CollapseAgain`, `SettleAgain`) and that
the first pass leaves nothing (`ReferencedSound`, `SettledSound`); the facts of a
slot stand together in its result, so the groups and their order come out the
same (`SlotOrderMore`, `GroupSame`, `GroupNone`).

### `EdgesProofs.tla`

* `CodesBindOnce`: a call that goes on to bind has consumed the code itself, and
  a consumed code stays so. `ConfirmedAreDecided`: a call that is about to
  confirm has found the review decided, by itself or by somebody else.
  `InboxTypesHold` is the types of both.
* `EventsAreFoldedOnce`: a pass folds into what it read, and nothing else writes
  profiles while it does (`SoundPass`); a pass cut off before the stamp is the
  only way to fold twice. `LearnTypesHold` is its types.
* `CapIsOvershotByLiveRuns` (`CapOvershoot`) and `CapTypesHold`. The ledger alone
  says nothing of what is still to come: a run that passed the check may spend
  all its calls, however far others have gone meanwhile, and its inserts may land
  when it is over. The invariant gives a live run a *right* (`Rights`) for each
  call it has still to make and for each cost that is not recorded yet; the
  rights and the inserts adrift are `InFlight`. `Committed` says that the ledger
  and all that is in flight, at the highest cost of a call, stay within what the
  cap and the `Allowance` permit. A run that looks gets its rights only while the
  ledger is under the cap, and then all rights together are no more than all calls
  of all runs (`RightsBounded`) and what is adrift is owed (`UnderCapCommits`); a
  blind run raises the allowance by its own calls; a call passes its right on to
  the insert; an insert turns a right into at most its cost, also a late one
  (`PaidKeepsCommitment`); a run that ends leaves no more inserts behind than it
  gives up rights (`LeftBehind`). `CapAssumption` says that runs are finitely many
  and that the cap, the calls and their cost are positive.
* `EdgesTypesHold` (`TypeOK`) and `EdgesKeepTheirPromises`: the six parts side by
  side keep their types and all ten promises of the run `edges`. A behaviour of
  the whole, seen from one part, is a behaviour of that part (`EdgesAreInbox`,
  `EdgesAreCap`, ...), so each theorem of a part is one of the whole.

### What is only model-checked

Every invariant and action property of the passing runs is stated by a theorem.
What is left to TLC:

* `Drained` and `ImapDelivers`: liveness under fairness, which the proof system
  does not reach.
* `MergesLogged` with several reviewers at once: `MergesAreOnRecord` and the run have
  one decision at a time, see above.
* The violated properties: they are false.

## 5. What is not modelled, and why

Parts of components that are modelled:

* **One model of everything.** Capture, queue, facts, graph and tables are
  checked apart, each with what it sees of the others as nondeterministic
  input. Three hazards live between them and have no property: the recovery
  requeues every 'failed' row, also one whose capture failed half-way
  (`extract.ts:644`); a merge rewrites the ids of facts but not their
  `claim_key`, so the next claim about the winner opens a second slot
  (`knowledge.ts:543`); a rerun files an extraction review again.
* **Fact store.** List slots, several claims of one run and
  `alignSlotCardinality`. A retraction of the fact that superseded a value
  restores nothing, which no document promises. Accepting a held review a second
  time leaves `superseded_by` standing (`reviews.ts:416`), one of the ways into
  `crossed`.
* **Tables.** Columns and views. Restoring a version deletes the accepted rows,
  and the proposals that target them go by the cascade, though
  `datasets.ts:272` says "keeping proposals"; `ProposalsAwaitDecision` therefore
  exempts proposals whose target goes. A restored row has no entity, so the next
  projection adds the entity a second time; `RowsAccounted` counts linked rows,
  as `project.ts:9-12` does. "Re-projecting updates rows instead of duplicating
  them" (`project.ts:11-12`) is true of projections that do not overlap and of
  entities that are not merged: two at once create a row each, and a merge puts
  the loser's row beside the winner's (`knowledge.ts:557-560`); `RowsAccounted`
  says that nothing else duplicates. An edit made between a projection's plan and
  its update is overwritten (`project.ts:175`), which `EditedHoldsTyped` exempts.
* **IMAP.** A mailbox that is empty at first sight is marked 0, which reads as
  "never seen", so its first message counts as history
  (`imap-poll.mjs:176`), though the comment at 154-156 says that "new messages flow
  in from then on"; the model does the same, and `ImapDelivers` is about what
  comes after the last first sight. A message without a source is never captured
  once a later one is (`imap-poll.mjs:189`, 200-201); the properties count it as
  skipped. Several connectors and a change of
  `uidvalidity`, which the code does not look at.
* **Kinds.** "A kind is only ever proposed once" (`kinds.ts:245-246`) is true of
  runs that do not overlap; `CategoryAskedBounded` is what holds of those that
  do. A template is read, changed and written back as a whole, also by "Approve
  all", which accepts one review after the other without waiting
  (`review-studio.tsx:532`): the later save takes away what the earlier one
  added. `AcceptedGrows` accounts for those losses; it does not forbid them.
  `update_category` drops the aliases of what it is given, though
  `route.ts:693` says "a partial call must never wipe the rest"; so they are
  accounted for as well. Two hot predicates that were rejected keep a kind's
  others from ever being asked, because the cap is applied first
  (`ontology-health.ts:247-255`). Renaming a key is an entry less and one more,
  in two edits.
* **Routing.** Centroids and term weights are floating-point arithmetic; a fold
  is counted, not computed. One learning pass and one consolidation pass run at
  a time, as the workflow's concurrency group has it.
* **Spending cap.** The cap is constant within a run of the model, and at most
  `MaxAdrift` inserts outlive their runs at once. `README.md:290-291` says that
  the cap "pauses the key before it overspends": the code looks at the ledger
  before a run only, so a month is overspent by what `CapOvershoot` bounds. An
  insert that fails leaves its call unrecorded; the property is about recorded
  cost.
* **Reconciliation.** Normalising of single dates, units and URLs: string work.

Components that are not modelled:

* OAuth codes and tokens: each grant is consumed by one guarded statement; the
  rest is cryptography and time.
* Search, answers, timeline, explorer, dossiers and priming read and keep no
  state. Documents, chunks and attachments are parsing and LLM calls inside a
  step of a run.
* LLM and embedding calls, scores and thresholds: steps that may fail, whose
  result is a nondeterministic choice.
* Provider formats, authentication, settings, plans, the dashboard, mirrors to
  Postgres and webhooks, exports, the email worker, start-up of the local
  edition: adapters, I/O and layout.
* The client-side MCP tool that marks an item analysed by itself.

Most of the repository's lines are of these kinds, above all the dashboard;
what is modelled is the part of `lib/` and of the routes that writes shared
state.
