------------------------------- MODULE Capture -------------------------------
(***************************************************************************)
(* ingest() of lib/ingest/store.ts: the capture core every channel feeds.  *)
(*                                                                         *)
(* A provider delivers a message (possibly again: it retries until it gets *)
(* an answer, and some deliver twice anyway); a call of ingest() archives  *)
(* the body and the raw payload, creates the item, archives the            *)
(* attachments one by one and marks the item 'stored'.  Calls run          *)
(* concurrently, each may throw at any await or die at any point, and      *)
(* blobs are shared by content hash between messages.                      *)
(*                                                                         *)
(* Messages carry a provider id, the idempotency key.  items_idem_idx      *)
(* admits one row per id, so a row is named by its message.                *)
(***************************************************************************)
EXTENDS Naturals, Sequences, FiniteSets

CONSTANTS
  Messages,
  Hashes,        \* content hashes of the bytes there are
  Calls,         \* calls of ingest() that may be running at one time
  HeadOf,        \* what is archived before the row: body, raw payload
  AttachmentsOf, \* the attachments, in order
  MaxDeliveries  \* bound: deliveries of one message

ASSUME CaptureAssumption ==
  /\ Messages # {}
  /\ HeadOf \in [Messages -> Seq(Hashes)]
  /\ AttachmentsOf \in [Messages -> Seq(Hashes)]
  /\ MaxDeliveries \in Nat

CaptureStatus == {"none", "received", "stored", "failed"}
CallStep == {"idle", "lookup", "find", "put", "row", "create", "attach", "finish"}

VARIABLES
  status,     \* items.status, "none" where there is no row
  attached,   \* how many of its attachments have a row
  objects,    \* keys present in the object store
  blobs,      \* hashes that have a row in blobs
  refCount,   \* blobs.ref_count
  step,       \* the await a call is at
  msg,        \* the message it captures
  todo,       \* hashes it has still to archive in this phase
  created,    \* whether it has created the row
  delivered,  \* how often a message was delivered
  acked       \* messages whose provider was told "captured"

store    == <<objects, blobs, refCount>>
callVars == <<step, msg, todo, created>>
captureVars == <<status, attached, objects, blobs, refCount, step, msg, todo,
                 created, delivered, acked>>

TypeOK ==
  /\ status    \in [Messages -> CaptureStatus]
  /\ attached  \in [Messages -> Nat]
  /\ \A m \in Messages : attached[m] <= Len(AttachmentsOf[m])
  /\ objects   \subseteq Hashes
  /\ blobs     \subseteq Hashes
  /\ refCount  \in [Hashes -> Nat]
  /\ step      \in [Calls -> CallStep]
  /\ msg       \in [Calls -> Messages]
  /\ todo      \in [Calls -> Seq(Hashes)]
  /\ created   \in [Calls -> BOOLEAN]
  /\ delivered \in [Messages -> 0..MaxDeliveries]
  /\ acked     \subseteq Messages

Init ==
  /\ status    = [m \in Messages |-> "none"]
  /\ attached  = [m \in Messages |-> 0]
  /\ objects   = {}
  /\ blobs     = {}
  /\ refCount  = [h \in Hashes |-> 0]
  /\ step      = [c \in Calls |-> "idle"]
  /\ msg       \in [Calls -> {CHOOSE m \in Messages : TRUE}]
  /\ todo      = [c \in Calls |-> << >>]
  /\ created   = [c \in Calls |-> FALSE]
  /\ delivered = [m \in Messages |-> 0]
  /\ acked     = {}

-----------------------------------------------------------------------------
Goto(c, s) == step' = [step EXCEPT ![c] = s]

\* The call is over, whichever way.
Leave(c) ==
  /\ Goto(c, "idle")
  /\ todo'    = [todo EXCEPT ![c] = << >>]
  /\ created' = [created EXCEPT ![c] = FALSE]
  /\ UNCHANGED msg

\* Archive the hashes of s next; go to `after` when there are none.
ArchiveOr(c, s, after) ==
  /\ todo' = [todo EXCEPT ![c] = s]
  /\ Goto(c, IF s = << >> THEN after ELSE "find")

\* Where storeBlob() returns to: before the row the next hash is due, after
\* it the attachment's own row.
BlobArchived(c) ==
  IF created[c]
    THEN Goto(c, "attach") /\ UNCHANGED todo
    ELSE ArchiveOr(c, Tail(todo[c]), "create")

\* The refcount triggers: blob_ref() adds to the row if there is one.
Positions(h, s) == {k \in DOMAIN s : s[k] = h}
Reference(s) ==
  refCount' = [h \in Hashes |->
                 IF h \in blobs THEN refCount[h] + Cardinality(Positions(h, s))
                                ELSE refCount[h]]

-----------------------------------------------------------------------------
\* The provider's request arrives; an idle invocation takes it.
Deliver(c) ==
  \E m \in Messages :
    /\ step[c] = "idle"
    /\ delivered[m] < MaxDeliveries
    /\ delivered' = [delivered EXCEPT ![m] = @ + 1]
    /\ msg' = [msg EXCEPT ![c] = m]
    /\ Goto(c, "lookup")
    /\ UNCHANGED <<status, attached, store, todo, created, acked>>

\* items.findFirst by (org, channel, external_id): any row at all answers
\* the provider "stored, deduped".
LookupKnown(c) ==
  /\ step[c] = "lookup"
  /\ status[msg[c]] # "none"
  /\ acked' = acked \cup {msg[c]}
  /\ Leave(c)
  /\ UNCHANGED <<status, attached, store, delivered>>

LookupNew(c) ==
  /\ step[c] = "lookup"
  /\ status[msg[c]] = "none"
  /\ ArchiveOr(c, HeadOf[msg[c]], "create")
  /\ UNCHANGED <<status, attached, store, msg, created, delivered, acked>>

\* storeBlob(): blobs.findFirst.
FindBlob(c) ==
  /\ step[c] = "find"
  /\ IF Head(todo[c]) \in blobs
       THEN BlobArchived(c)
       ELSE Goto(c, "put") /\ UNCHANGED todo
  /\ UNCHANGED <<status, attached, store, msg, created, delivered, acked>>

\* Mutant: a failed upload is taken for a success.
PutBlobUnchecked(c) ==
  /\ step[c] = "put"
  /\ Goto(c, "row")
  /\ UNCHANGED <<status, attached, store, msg, todo, created, delivered, acked>>

\* storeBlob(): putBlob; identical bytes overwrite themselves.
PutBlob(c) ==
  /\ step[c] = "put"
  /\ objects' = objects \cup {Head(todo[c])}
  /\ Goto(c, "row")
  /\ UNCHANGED <<status, attached, blobs, refCount, msg, todo, created,
                 delivered, acked>>

\* Mutant: an upsert that starts the counter anew, instead of a create.
InsertBlobUpsert(c) ==
  /\ step[c] = "row"
  /\ blobs' = blobs \cup {Head(todo[c])}
  /\ refCount' = [refCount EXCEPT ![Head(todo[c])] = 0]
  /\ BlobArchived(c)
  /\ UNCHANGED <<status, attached, objects, msg, created, delivered, acked>>

\* storeBlob(): blobs.create; a unique violation means another call won.
InsertBlob(c) ==
  /\ step[c] = "row"
  /\ blobs' = blobs \cup {Head(todo[c])}
  /\ BlobArchived(c)
  /\ UNCHANGED <<status, attached, objects, refCount, msg, created,
                 delivered, acked>>

\* Mutant: no unique index; the second delivery overwrites the row.
CreateItemAnyway(c) ==
  /\ step[c] = "create"
  /\ status'  = [status EXCEPT ![msg[c]] = "received"]
  /\ created' = [created EXCEPT ![c] = TRUE]
  /\ Reference(HeadOf[msg[c]])
  /\ ArchiveOr(c, AttachmentsOf[msg[c]], "finish")
  /\ UNCHANGED <<attached, objects, blobs, msg, delivered, acked>>

\* items.create with status 'received' (the trigger counts body and raw).
CreateItem(c) ==
  /\ step[c] = "create"
  /\ status[msg[c]] = "none"
  /\ status'  = [status EXCEPT ![msg[c]] = "received"]
  /\ created' = [created EXCEPT ![c] = TRUE]
  /\ Reference(HeadOf[msg[c]])
  /\ ArchiveOr(c, AttachmentsOf[msg[c]], "finish")
  /\ UNCHANGED <<attached, objects, blobs, msg, delivered, acked>>

\* items_idem_idx: a call that lost the race throws, uncaught.
CreateConflict(c) ==
  /\ step[c] = "create"
  /\ status[msg[c]] # "none"
  /\ Leave(c)
  /\ UNCHANGED <<status, attached, store, delivered, acked>>

\* attachments.create, and the loop goes on.
Attach(c) ==
  /\ step[c] = "attach"
  /\ attached' = [attached EXCEPT ![msg[c]] = @ + 1]
  /\ Reference(<<Head(todo[c])>>)
  /\ ArchiveOr(c, Tail(todo[c]), "finish")
  /\ UNCHANGED <<status, objects, blobs, msg, created, delivered, acked>>

\* items.update to 'stored'; the provider gets 201.
Finish(c) ==
  /\ step[c] = "finish"
  /\ status' = [status EXCEPT ![msg[c]] = "stored"]
  /\ acked'  = acked \cup {msg[c]}
  /\ Leave(c)
  /\ UNCHANGED <<attached, store, delivered>>

\* An await throws before there is a row: 500, nothing recorded.
ThrowEarly(c) ==
  /\ step[c] # "idle"
  /\ ~created[c]
  /\ Leave(c)
  /\ UNCHANGED <<status, attached, store, delivered, acked>>

\* Mutant: an attachment that fails is skipped and the item goes on.
ThrowLateStored(c) ==
  /\ created[c]
  /\ status' = [status EXCEPT ![msg[c]] = "stored"]
  /\ Leave(c)
  /\ UNCHANGED <<attached, store, delivered, acked>>

\* An await throws after it: the catch block marks the item 'failed'.
ThrowLate(c) ==
  /\ created[c]
  /\ status' = [status EXCEPT ![msg[c]] = "failed"]
  /\ Leave(c)
  /\ UNCHANGED <<attached, store, delivered, acked>>

\* The process dies; nothing more is written.
Die(c) ==
  /\ step[c] # "idle"
  /\ Leave(c)
  /\ UNCHANGED <<status, attached, store, delivered, acked>>

CallNext(c) ==
  \/ Deliver(c) \/ LookupKnown(c) \/ LookupNew(c)
  \/ FindBlob(c) \/ PutBlob(c) \/ InsertBlob(c)
  \/ CreateItem(c) \/ CreateConflict(c) \/ Attach(c)
  \/ Finish(c) \/ ThrowEarly(c) \/ ThrowLate(c) \/ Die(c)

Next == \E c \in Calls : CallNext(c)

Spec == Init /\ [][Next]_captureVars

-----------------------------------------------------------------------------
(* Safety.                                                                 *)

\* The hashes the rows of m refer to.
Referenced(m) ==
  IF status[m] = "none" THEN {}
  ELSE {HeadOf[m][k] : k \in DOMAIN HeadOf[m]}
       \cup {AttachmentsOf[m][k] : k \in 1..attached[m]}

\* "Raw bytes are archived BEFORE any analysis": every hash an item or an
\* attachment row refers to has its blob row and its bytes, at every instant,
\* so that readBlob never finds a hole, whatever call died where.
NoDanglingHash ==
  \A m \in Messages : Referenced(m) \subseteq blobs /\ blobs \subseteq objects

\* blobs.ref_count is exactly the number of rows that refer to the blob:
\* races of two calls on one hash neither lose nor double a reference.
HeadRows(h) ==
  UNION {{<<m, k>> : k \in Positions(h, HeadOf[m])} :
           m \in {n \in Messages : status[n] # "none"}}
AttachmentRows(h) ==
  UNION {{<<m, k>> : k \in Positions(h, AttachmentsOf[m]) \cap 1..attached[m]} :
           m \in Messages}
RefCountExact ==
  \A h \in Hashes :
    refCount[h] = Cardinality(HeadRows(h)) + Cardinality(AttachmentRows(h))

\* 'stored' is written by capture only when every attachment has its row,
\* whatever failed on the way and whoever else delivers the message.
StoredIsWhole ==
  \A m \in Messages :
    status[m] = "stored" => attached[m] = Len(AttachmentsOf[m])

\* One call at most writes behind a row, and the row waits for it: no two
\* deliveries of a message ever interleave their attachments.
OneWriter ==
  \A c, d \in Calls :
    created[c] => /\ status[msg[c]] = "received"
                  /\ (created[d] /\ msg[d] = msg[c] => d = c)

\* "nothing is ever silently lost": a message whose provider was told that
\* it is captured is stored, is failed (the queue retries it), or is still
\* being captured by a live call.
NothingLost ==
  \A m \in acked :
    \/ status[m] \in {"stored", "failed"}
    \/ \E c \in Calls : created[c] /\ msg[c] = m
==============================================================================
