----------------------------- MODULE KindTemplate -----------------------------
(***************************************************************************)
(* The row of one kind: its template and the columns derived from it.      *)
(* The nightly pass proposes fields for predicates that are used and not   *)
(* in the template (ontology-health.ts, consolidate.ts); approvals add     *)
(* them (reviews.ts), people edit the template and the columns (kinds.ts,  *)
(* datasets.ts, the MCP tool), and reading the kinds patches the row.      *)
(* Everybody reads the row, and writes it back later as a whole or in part.*)
(***************************************************************************)
EXTENDS Naturals, FiniteSets

CONSTANTS
  Keys,         \* names of fields, relations and columns
  LabelKey,     \* "name", the column of the label
  Bookkeeping,  \* NON_COLUMN_FIELDS
  Declares,     \* keys whose cardinality the builtin template declares
  Alike,        \* pairs for which predicatesLookAlike
  EntityValued, \* predicates whose values are entities
  Usages,       \* how many current facts a pass may find of each predicate
  MinCount,     \* minCount
  Seeds,        \* templates the kind may start with
  MaxPerKind,   \* maxPerKind
  Approvals,    \* accept and reject calls that may be live at once
  Editors,      \* open editors of the template (dashboard, MCP)
  Sheets,       \* calls that read the columns of the table and set them
  MaxEdits,     \* bound: editors and tables opened
  MaxBusy       \* bound: writers at work at once

NoKey == "none"
Growth == "growth"
Writers == Approvals \cup Editors \cup Sheets \cup {Growth}
Sorts == {"field", "relation"}
Entry(key, sort) == [key |-> key, sort |-> sort, aliases |-> {}, declared |-> FALSE]
Entries == [key : Keys, sort : Sorts, aliases : SUBSET Keys, declared : BOOLEAN]

ASSUME TemplateAssumption ==
  /\ Bookkeeping \subseteq Keys /\ Declares \subseteq Keys
  /\ {NoKey, LabelKey} \cap Keys = {}
  /\ Alike \subseteq Keys \X Keys
  /\ Usages \subseteq [Keys -> Nat]
  /\ Seeds \subseteq SUBSET Entries
  /\ Growth \notin Approvals \cup Editors \cup Sheets
  /\ Approvals \cap (Editors \cup Sheets) = {} /\ Editors \cap Sheets = {}
  /\ EntityValued \subseteq Keys
  /\ {MinCount, MaxPerKind, MaxEdits, MaxBusy} \subseteq Nat

VARIABLES
  template,   \* fields and relations of the row
  columns,    \* keys of its columns
  growth,     \* the field_proposal review of each predicate, one pass running at a time
  work,       \* of a writer: where it is and what it has read
  edits,      \* editors and tables opened so far
  excused,    \* ghost: names whose loss is accounted for, see Excuse
  crossed     \* ghost: half of the row was written over a newer other half

templateVars == <<template, columns, growth, work, edits, excused, crossed>>
row == <<template, columns>>
ghosts == <<excused, crossed>>

AtRest == [step |-> "idle", about |-> NoKey, verdict |-> "none", copy |-> {},
           cols |-> {}, todo |-> {}]
In(w, step) == work[w].step = step
Goto(w, step) == work' = [work EXCEPT ![w] = [work[w] EXCEPT !.step = step]]
Rest(w) == work' = [work EXCEPT ![w] = AtRest]
MayStart(w) ==
  In(w, "idle") /\ Cardinality({x \in Writers : ~In(x, "idle")}) < MaxBusy

-----------------------------------------------------------------------------
(* Templates.                                                              *)

KeysOf(entries) == {x.key : x \in entries}
Fields(t) == {x \in t : x.sort = "field"}
Relations(t) == {x \in t : x.sort = "relation"}

\* templateVocabulary
Vocabulary(t) == KeysOf(t) \cup UNION {x.aliases : x \in t}

\* Those of the entries at the keys.
NamesAt(keys, t) == Vocabulary({x \in t : x.key \in keys})

\* columnsFromTemplate
ColumnsFromTemplate(t) ==
  {LabelKey} \cup (KeysOf(Fields(t)) \ Bookkeeping) \cup KeysOf(Relations(t))

\* Mutant: fields whose column is gone are kept.
SyncKeepingFields(t, cols) ==
  t \cup {Entry(k, "field") : k \in cols \ ({LabelKey} \cup KeysOf(t))}

\* Mutant: fields that have no column are not kept.
SyncShownOnly(t, cols) ==
  LET shown == cols \ ({LabelKey} \cup KeysOf(Relations(t)))
  IN Relations(t)
     \cup {x \in Fields(t) : x.key \in shown}
     \cup {Entry(k, "field") : k \in shown \ KeysOf(Fields(t))}

\* Mutant: the label's column becomes a field.
SyncNamingLabel(t, cols) ==
  LET shown == cols \ KeysOf(Relations(t))
  IN Relations(t)
     \cup {x \in Fields(t) : x.key \in shown \cup Bookkeeping}
     \cup {Entry(k, "field") : k \in shown \ KeysOf(Fields(t))}

\* syncFieldsToColumns: the fields follow the columns, the relations stay.
SyncFieldsToColumns(t, cols) ==
  LET shown == cols \ ({LabelKey} \cup KeysOf(Relations(t)))
  IN Relations(t)
     \cup {x \in Fields(t) : x.key \in shown \cup Bookkeeping}
     \cup {Entry(k, "field") : k \in shown \ KeysOf(Fields(t))}

\* The backfill of ensureDefaultKinds.
Undeclared(t) == {x \in t : x.key \in Declares /\ ~x.declared}
Declared(t) == {[x EXCEPT !.declared = @ \/ x.key \in Declares] : x \in t}

SortOf(p) == IF p \in EntityValued THEN "relation" ELSE "field"

\* What accepting a field_proposal makes of a template.
Grown(t, p, aliasOf) ==
  IF aliasOf # NoKey
    THEN {[x EXCEPT !.aliases = IF x.key = aliasOf THEN @ \cup {p} ELSE @] : x \in t}
    ELSE t \cup {Entry(p, SortOf(p))}

\* proposeFieldAdditions: of the predicates in heavy use outside the template
\* the most used, those already asked about included.
Proposed(usage, t) ==
  LET hot == {p \in Keys \ Vocabulary(t) : usage[p] >= MinCount}
  IN {p \in hot : Cardinality({q \in hot : usage[q] > usage[p]}) < MaxPerKind}

Unasked == [status |-> "none", aliasOf |-> NoKey]
Asked(p) == growth[p] # Unasked

-----------------------------------------------------------------------------
(* Writes.                                                                 *)

\* When t is saved, a name is excused if the writer knew that it will not be in
\* t, or if it gets lost and the writer had not read it.
Excuse(t, known, read) ==
  excused' = excused \cup (known \ Vocabulary(t))
                     \cup (Vocabulary(template) \ (Vocabulary(t) \cup read))

\* updateKind: the whole row.
UpdateKind(t) == template' = t /\ columns' = ColumnsFromTemplate(t)

\* Whose next statement is the first read of listKinds.
Lists(w) == In(w, "list") \/ (MayStart(w) /\ w \in Editors \cup {Growth})

\* The first read of listKinds finds a cardinality missing and writes back what
\* it has read, without the columns.
ReadUndeclared(w) ==
  /\ Lists(w) /\ Undeclared(template) # {}
  /\ work' = [work EXCEPT ![w] = [work[w] EXCEPT !.step = "patch", !.copy = template]]
  /\ UNCHANGED <<row, growth, edits, ghosts>>

Patch(w) ==
  /\ In(w, "patch")
  /\ template' = Declared(work[w].copy)
  /\ Excuse(work[w].copy, {}, Vocabulary(work[w].copy))
  /\ crossed' = (crossed \/ work[w].copy # template)
  /\ Goto(w, "load")
  /\ UNCHANGED <<columns, growth, edits>>

\* The second read of listKinds; the first if there was nothing to patch.
Listed(w) == In(w, "load") \/ (Lists(w) /\ Undeclared(template) = {})

-----------------------------------------------------------------------------
(* The pass.                                                               *)

\* The first template key that looks alike makes the proposal one of an alias.
AliasesFor(p, t) ==
  LET alike == {k \in KeysOf(t) : <<p, k>> \in Alike}
  IN IF alike = {} THEN {NoKey} ELSE alike

\* Facts, kinds and earlier proposals are read; what was asked is taken out
\* after the cap was applied.
LoadGrowth ==
  \E usage \in Usages :
    /\ Listed(Growth)
    /\ LET todo == {p \in Proposed(usage, template) : ~Asked(p)}
       IN work' = [work EXCEPT ![Growth] =
            IF todo = {} THEN AtRest
            ELSE [AtRest EXCEPT !.step = "file", !.copy = template, !.todo = todo]]
    /\ UNCHANGED <<row, growth, edits, ghosts>>

FileField ==
  \E p \in work[Growth].todo :
    LET left == work[Growth].todo \ {p}
    IN /\ In(Growth, "file")
       /\ \E k \in AliasesFor(p, work[Growth].copy) :
            growth' = [growth EXCEPT ![p] = [status |-> "pending", aliasOf |-> k]]
       /\ work' = [work EXCEPT ![Growth] =
            IF left = {} THEN AtRest ELSE [work[Growth] EXCEPT !.todo = left]]
       /\ UNCHANGED <<row, edits, ghosts>>

-----------------------------------------------------------------------------
(* Approvals.                                                              *)

\* loadPending of acceptReview or rejectReview.
DecideField(a) ==
  \E p \in Keys, verdict \in {"accepted", "rejected"} :
    /\ MayStart(a) /\ growth[p].status = "pending"
    /\ work' = [work EXCEPT ![a] =
         [AtRest EXCEPT !.step = IF verdict = "accepted" THEN "list" ELSE "resolve",
                        !.about = p, !.verdict = verdict]]
    /\ UNCHANGED <<row, growth, edits, ghosts>>

LoadForApproval(a) ==
  /\ Listed(a)
  /\ work' = [work EXCEPT ![a] =
       [work[a] EXCEPT !.step = IF work[a].about \in Vocabulary(template)
                                  THEN "resolve" ELSE "save",
                       !.copy = template]]
  /\ UNCHANGED <<row, growth, edits, ghosts>>

SaveGrowth(a) ==
  LET p == work[a].about
      aliasOf == growth[p].aliasOf
      grown == Grown(work[a].copy, p, aliasOf)
  IN /\ In(a, "save")
     /\ UpdateKind(grown)
     /\ LET known == IF aliasOf \in KeysOf(work[a].copy) \cup {NoKey} THEN {} ELSE {p}
        IN Excuse(grown, known, Vocabulary(work[a].copy))
     /\ Goto(a, "resolve")
     /\ UNCHANGED <<growth, edits, crossed>>

ResolveField(a) ==
  /\ In(a, "resolve")
  /\ growth' = [growth EXCEPT ![work[a].about] = [@ EXCEPT !.status = work[a].verdict]]
  /\ Rest(a)
  /\ UNCHANGED <<row, edits, ghosts>>

-----------------------------------------------------------------------------
(* Editors of the template and of the columns.                             *)

LoadForEdit(e) ==
  /\ Listed(e) /\ edits < MaxEdits
  /\ work' = [work EXCEPT ![e] = [AtRest EXCEPT !.step = "edit", !.copy = template]]
  /\ edits' = edits + 1
  /\ UNCHANGED <<row, growth, ghosts>>

\* The dashboard's editor: one entry more or less, or none changed.
Edited(t) ==
  {t} \cup {t \ {x} : x \in t}
  \cup {t \cup {Entry(k, sort)} : k \in Keys \ KeysOf(t), sort \in Sorts}

SaveEdit(e) ==
  /\ In(e, "edit")
  /\ \E t \in Edited(work[e].copy) :
       LET known == Vocabulary(work[e].copy)
       IN UpdateKind(t) /\ Excuse(t, known, known)
  /\ Rest(e)
  /\ UNCHANGED <<growth, edits, crossed>>

\* What update_category makes of an edit, of which the call passes the given
\* sorts: those come without aliases, with their cardinality if that is told, and
\* the rest is kept.
Passed(t, given, told) ==
  {IF x.sort \in given THEN [x EXCEPT !.aliases = {}, !.declared = @ /\ told] ELSE x
     : x \in t}

UpdateCategory(e) ==
  LET copy == work[e].copy
  IN /\ In(e, "edit")
     /\ \E t \in Edited(copy), given \in SUBSET Sorts, told \in BOOLEAN :
          /\ \A x \in (t \ copy) \cup (copy \ t) : x.sort \in given
          /\ UpdateKind(Passed(t, given, told))
          /\ Excuse(Passed(t, given, told), Vocabulary(copy), Vocabulary(copy))
     /\ Rest(e)
     /\ UNCHANGED <<growth, edits, crossed>>

\* addColumn, removeColumn and restoreSnapshot: the columns are read, in the
\* call or with the snapshot.
OpenSheet(s) ==
  /\ MayStart(s) /\ edits < MaxEdits
  /\ work' = [work EXCEPT ![s] = [AtRest EXCEPT !.step = "shown", !.cols = columns]]
  /\ edits' = edits + 1
  /\ UNCHANGED <<row, growth, ghosts>>

\* setColumns reads fields and relations.
ReadTemplate(s) ==
  /\ In(s, "shown")
  /\ work' = [work EXCEPT ![s] = [work[s] EXCEPT !.step = "sync", !.copy = template]]
  /\ UNCHANGED <<row, growth, edits, ghosts>>

\* One column more or less, or none changed.
Rearranged(cols) ==
  {cols} \cup {cols \ {k} : k \in cols} \cup {cols \cup {k} : k \in Keys}

\* It writes the columns and the fields; the relations are not written.
SetColumns(s) ==
  /\ In(s, "sync")
  /\ \E cols \in Rearranged(work[s].cols) :
       LET copy == work[s].copy
           t == Fields(SyncFieldsToColumns(copy, cols)) \cup Relations(template)
           shown == (work[s].cols \ KeysOf(Relations(copy))) \cup Bookkeeping
           removed == work[s].cols \ cols
       IN /\ template' = t /\ columns' = cols
          /\ Excuse(t, NamesAt(removed, copy), NamesAt(shown, Fields(copy)))
  /\ Rest(s)
  /\ UNCHANGED <<growth, edits, crossed>>

\* materializeKindTable regenerates the columns of a row that has none.
ReadBare(s) ==
  /\ MayStart(s) /\ columns = {} /\ edits < MaxEdits
  /\ work' = [work EXCEPT ![s] = [AtRest EXCEPT !.step = "fill", !.copy = template]]
  /\ edits' = edits + 1
  /\ UNCHANGED <<row, growth, ghosts>>

FillColumns(s) ==
  /\ In(s, "fill")
  /\ columns' = ColumnsFromTemplate(work[s].copy)
  /\ crossed' = (crossed \/ work[s].copy # template)
  /\ Rest(s)
  /\ UNCHANGED <<template, growth, edits, excused>>

\* A statement throws, a window is closed, a process dies.
Leaves(w) == ~In(w, "idle") /\ Rest(w) /\ UNCHANGED <<row, growth, edits, ghosts>>

-----------------------------------------------------------------------------
TemplateInit ==
  /\ template \in Seeds
  /\ columns \in {{}, ColumnsFromTemplate(template)}
  /\ growth = [p \in Keys |-> Unasked]
  /\ work = [w \in Writers |-> AtRest]
  /\ edits = 0
  /\ excused = {} /\ crossed = FALSE

TemplateNext ==
  \/ LoadGrowth \/ FileField
  \/ \E a \in Approvals :
       DecideField(a) \/ LoadForApproval(a) \/ SaveGrowth(a) \/ ResolveField(a)
  \/ \E e \in Editors : LoadForEdit(e) \/ SaveEdit(e) \/ UpdateCategory(e)
  \/ \E s \in Sheets :
       OpenSheet(s) \/ ReadTemplate(s) \/ SetColumns(s) \/ ReadBare(s) \/ FillColumns(s)
  \/ \E w \in Writers : ReadUndeclared(w) \/ Patch(w) \/ Leaves(w)

TemplateSpec == TemplateInit /\ [][TemplateNext]_templateVars

-----------------------------------------------------------------------------
WriterSteps == {"idle", "list", "patch", "load", "file", "save", "resolve", "edit",
                "shown", "sync", "fill"}

TemplateTypeOK ==
  /\ template \subseteq Entries
  /\ columns \subseteq Keys \cup {LabelKey}
  /\ growth \in [Keys -> [status : {"none", "pending", "accepted", "rejected"},
                           aliasOf : Keys \cup {NoKey}]]
  /\ work \in [Writers -> [step : WriterSteps, about : Keys \cup {NoKey},
                            verdict : {"none", "accepted", "rejected"},
                            copy : SUBSET Entries, cols : SUBSET (Keys \cup {LabelKey}),
                            todo : SUBSET Keys]]
  /\ edits \in 0..MaxEdits
  /\ excused \subseteq Keys /\ crossed \in BOOLEAN

\* "Columns and template stay in lockstep" (setColumns): whoever saves whatever
\* he read however long ago, every field that is shown has its column, unless
\* half of the row was written over a newer other half, or it never had columns.
FieldsHaveColumns ==
  columns # {} /\ ~crossed => KeysOf(Fields(template)) \ Bookkeeping \subseteq columns

\* "Accepting GROWS the template" (reviews.ts), and what fields know "survives
\* for kept keys" (datasets.ts): what was accepted is in the vocabulary, whoever
\* edits, patches and synchronises fields and columns at the same time.  It is
\* lost only to a person who takes it out, to a save made from a read that is
\* older than it, to a tool call whose fields have no aliases, or at once as an
\* alias of a key that is gone.
AcceptedGrows ==
  \A p \in Keys :
    growth[p].status = "accepted" => p \in Vocabulary(template) \cup excused
===============================================================================
