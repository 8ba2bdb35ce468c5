----------------------------- MODULE IngestProofs -----------------------------
(***************************************************************************)
(* Proofs about what comes in: capture, for any set of messages, hashes    *)
(* and concurrent calls, any contents and any number of deliveries; the    *)
(* poller of a mailbox, for any number of overlapping polls, messages and  *)
(* troubles; and the two composed.                                         *)
(***************************************************************************)
EXTENDS MCIngest, FiniteSetTheorems, TLAPS

-----------------------------------------------------------------------------
(* The inductive invariant.                                                *)

Types ==
  /\ status   \in [Messages -> CaptureStatus]
  /\ attached \in [Messages -> Nat]
  /\ objects  \subseteq Hashes
  /\ blobs    \subseteq Hashes
  /\ step     \in [Calls -> CallStep]
  /\ msg      \in [Calls -> Messages]
  /\ todo     \in [Calls -> Seq(Hashes)]
  /\ created  \in [Calls -> BOOLEAN]

\* What is left to do at each await of a call.
Pending ==
  \A c \in Calls :
    /\ step[c] \in {"find", "put", "row", "attach"} => todo[c] # << >>
    /\ step[c] \in {"create", "finish"} => todo[c] = << >>
    /\ created[c] => step[c] \in {"find", "put", "row", "attach", "finish"}
    /\ step[c] \in {"attach", "finish"} => created[c]

\* A blob has its bytes, and what a call found or put stays there.
Archived ==
  /\ blobs \subseteq objects
  /\ \A c \in Calls :
       /\ step[c] = "row" => Head(todo[c]) \in objects
       /\ step[c] = "attach" => Head(todo[c]) \in blobs

\* Before the row: each hash the row will refer to is archived or to do.
HeadProgress ==
  \A c \in Calls :
    ~created[c] /\ step[c] \in {"find", "put", "row", "create"} =>
      \A k \in 1..Len(HeadOf[msg[c]]) :
        \/ HeadOf[msg[c]][k] \in blobs
        \/ \E j \in 1..Len(todo[c]) : todo[c][j] = HeadOf[msg[c]][k]

\* After it: what is to do is what has no attachment row yet, in order.
TailProgress ==
  \A c \in Calls :
    created[c] =>
      LET s == AttachmentsOf[msg[c]] IN
        /\ attached[msg[c]] + Len(todo[c]) = Len(s)
        /\ \A j \in 1..Len(todo[c]) : todo[c][j] = s[attached[msg[c]] + j]

\* The rows refer to archived hashes only.
RowsArchived ==
  \A m \in Messages :
    /\ status[m] = "none" => attached[m] = 0
    /\ attached[m] <= Len(AttachmentsOf[m])
    /\ status[m] # "none" =>
         \A k \in 1..Len(HeadOf[m]) : HeadOf[m][k] \in blobs
    /\ \A k \in 1..attached[m] : AttachmentsOf[m][k] \in blobs

CaptureInv ==
  /\ Types /\ Pending /\ Archived /\ HeadProgress /\ TailProgress
  /\ RowsArchived /\ OneWriter /\ StoredIsWhole

-----------------------------------------------------------------------------
LEMMA Contents ==
  \A m \in Messages : HeadOf[m] \in Seq(Hashes) /\ AttachmentsOf[m] \in Seq(Hashes)
  BY CaptureAssumption

\* The tail of what is to do, position by position.
LEMMA TailOfTodo ==
  ASSUME NEW S, NEW s \in Seq(S), s # << >>
  PROVE  /\ Tail(s) \in Seq(S)
         /\ Head(s) = s[1] /\ Head(s) \in S
         /\ Len(s) \in Nat \ {0}
         /\ Len(Tail(s)) = Len(s) - 1
         /\ \A j \in 1..Len(Tail(s)) : Tail(s)[j] = s[j + 1]
  OBVIOUS

LEMMA CaptureInit == Init => CaptureInv
<1> SUFFICES ASSUME Init PROVE CaptureInv
  OBVIOUS
<1>1. Types
  BY CaptureAssumption DEF Init, Types, CaptureStatus, CallStep
<1>2. \A m \in Messages : Len(AttachmentsOf[m]) \in Nat
  BY Contents
<1>3. QED
  BY <1>1, <1>2 DEF Init, CaptureInv, Pending, Archived, HeadProgress, TailProgress,
     RowsArchived, OneWriter, StoredIsWhole

\* What storeBlob() returns to: before the row the next hash is due, after it
\* the attachment's own row.
LEMMA BlobArchivedSteps ==
  ASSUME Types, Pending, NEW c \in Calls, step[c] \in {"find", "row"},
         BlobArchived(c)
  PROVE  /\ created[c] =>
              /\ step' = [step EXCEPT ![c] = "attach"]
              /\ todo' = todo
         /\ ~created[c] =>
              /\ todo' = [todo EXCEPT ![c] = Tail(todo[c])]
              /\ \/ /\ Tail(todo[c]) = << >>
                    /\ step' = [step EXCEPT ![c] = "create"]
                 \/ /\ Tail(todo[c]) # << >>
                    /\ step' = [step EXCEPT ![c] = "find"]
  BY DEF BlobArchived, ArchiveOr, Goto

\* Both places where storeBlob() returns, with the hash archived by now.
LEMMA BlobArchivedKeeps ==
  ASSUME Types, Pending, Archived, HeadProgress, TailProgress,
         NEW c \in Calls, step[c] \in {"find", "row"}, BlobArchived(c),
         Head(todo[c]) \in blobs', blobs \subseteq blobs', blobs' \subseteq objects,
         UNCHANGED <<status, attached, objects, msg, created>>
  PROVE  /\ todo' \in [Calls -> Seq(Hashes)] /\ step' \in [Calls -> CallStep]
         /\ Pending' /\ Archived' /\ HeadProgress' /\ TailProgress'
<1> DEFINE rest == Tail(todo[c])
<1>1. /\ todo[c] \in Seq(Hashes) /\ todo[c] # << >>
      /\ rest \in Seq(Hashes) /\ Head(todo[c]) = todo[c][1]
      /\ Len(todo[c]) \in Nat \ {0} /\ Len(rest) = Len(todo[c]) - 1
      /\ \A j \in 1..Len(rest) : rest[j] = todo[c][j + 1]
  BY TailOfTodo DEF Types, Pending
<1>2. CASE created[c]
  <2>1. step' = [step EXCEPT ![c] = "attach"] /\ todo' = todo
    BY <1>2, BlobArchivedSteps
  <2>2. Pending' /\ Archived'
    BY <1>1, <1>2, <2>1 DEF Types, Pending, Archived
  <2>3. HeadProgress' /\ TailProgress'
    BY <1>2, <2>1 DEF Types, HeadProgress, TailProgress
  <2>4. QED
    BY <2>1, <2>2, <2>3 DEF Types, CallStep
<1>3. CASE ~created[c]
  <2>1. /\ todo' = [todo EXCEPT ![c] = rest]
        /\ \/ rest = << >> /\ step' = [step EXCEPT ![c] = "create"]
           \/ rest # << >> /\ step' = [step EXCEPT ![c] = "find"]
    BY <1>3, BlobArchivedSteps
  <2>2. todo' \in [Calls -> Seq(Hashes)] /\ step' \in [Calls -> CallStep]
    BY <1>1, <2>1 DEF Types, CallStep
  <2>3. Pending' /\ Archived'
    BY <1>3, <2>1 DEF Types, Pending, Archived
  <2>4. TailProgress'
    BY <1>3, <2>1 DEF Types, TailProgress
  <2>5. HeadProgress'
    <3>1. ASSUME NEW d \in Calls, ~created[d],
                 step'[d] \in {"find", "put", "row", "create"},
                 NEW k \in 1..Len(HeadOf[msg[d]]),
                 HeadOf[msg[d]][k] \notin blobs'
          PROVE  \E j \in 1..Len(todo'[d]) : todo'[d][j] = HeadOf[msg[d]][k]
      <4>1. CASE d # c
        BY <2>1, <3>1, <4>1 DEF Types, HeadProgress
      <4>2. CASE d = c
        <5>1. PICK j \in 1..Len(todo[c]) : todo[c][j] = HeadOf[msg[c]][k]
          BY <3>1, <4>2 DEF HeadProgress
        <5>2. j # 1
          BY <1>1, <3>1, <4>2, <5>1
        <5>3. j - 1 \in 1..Len(rest) /\ rest[j - 1] = todo[c][j]
          BY <1>1, <5>1, <5>2
        <5>4. QED
          BY <2>1, <4>2, <5>1, <5>3 DEF Types
      <4>3. QED
        BY <4>1, <4>2
    <3>2. \A d \in Calls :
            ~created[d] /\ step'[d] \in {"find", "put", "row", "create"} =>
              \A k \in 1..Len(HeadOf[msg[d]]) :
                \/ HeadOf[msg[d]][k] \in blobs'
                \/ \E j \in 1..Len(todo'[d]) : todo'[d][j] = HeadOf[msg[d]][k]
      BY <3>1
    <3>3. QED
      BY <3>2 DEF HeadProgress
  <2>6. QED
    BY <2>2, <2>3, <2>4, <2>5
<1>4. QED
  BY <1>2, <1>3

LEMMA CaptureStep == CaptureInv /\ [Next]_captureVars => CaptureInv'
<1> SUFFICES ASSUME CaptureInv, [Next]_captureVars PROVE CaptureInv'
  OBVIOUS
<1> USE DEF CaptureInv, store
<1>0. CASE UNCHANGED captureVars
  BY <1>0 DEF captureVars, Types, Pending, Archived, HeadProgress,
     TailProgress, RowsArchived, OneWriter, StoredIsWhole
<1>1. ASSUME NEW c \in Calls, Deliver(c) PROVE CaptureInv'
  <2> USE <1>1 DEF Deliver, Goto
  <2>0. ~created[c]
    BY DEF Pending
  <2>1. Types'
    BY <2>0 DEF Types, CaptureStatus, CallStep
  <2>2. Pending'
    BY <2>0 DEF Types, Pending
  <2>3. Archived'
    BY <2>0 DEF Types, Pending, Archived
  <2>4. HeadProgress'
    BY <2>0 DEF Types, Pending, HeadProgress
  <2>5. TailProgress'
    BY <2>0 DEF Types, Pending, TailProgress
  <2>6. RowsArchived'
    BY <2>0 DEF Types, RowsArchived
  <2>7. OneWriter'
    BY <2>0 DEF Types, Pending, OneWriter
  <2>8. StoredIsWhole'
    BY <2>0 DEF Types, StoredIsWhole
  <2> QED
    BY <2>1, <2>2, <2>3, <2>4, <2>5, <2>6, <2>7, <2>8
<1>2. ASSUME NEW c \in Calls, LookupKnown(c) PROVE CaptureInv'
  <2> USE <1>2 DEF LookupKnown, Leave, Goto
  <2>1. Types'
    BY DEF Types, CaptureStatus, CallStep
  <2>2. Pending'
    BY DEF Types, Pending
  <2>3. Archived'
    BY DEF Types, Pending, Archived
  <2>4. HeadProgress'
    BY DEF Types, Pending, HeadProgress
  <2>5. TailProgress'
    BY DEF Types, Pending, TailProgress
  <2>6. RowsArchived'
    BY DEF Types, RowsArchived
  <2>7. OneWriter'
    BY DEF Types, Pending, OneWriter
  <2>8. StoredIsWhole'
    BY DEF Types, StoredIsWhole
  <2> QED
    BY <2>1, <2>2, <2>3, <2>4, <2>5, <2>6, <2>7, <2>8
<1>3. ASSUME NEW c \in Calls, LookupNew(c) PROVE CaptureInv'
  <2> USE <1>3 DEF LookupNew, ArchiveOr, Goto
  <2>1. Types'
    BY Contents DEF Types, CaptureStatus, CallStep
  <2>2. Pending'
    BY Contents DEF Types, Pending
  <2>3. Archived'
    BY Contents DEF Types, Pending, Archived
  <2>4. HeadProgress'
    BY Contents DEF Types, Pending, HeadProgress
  <2>5. TailProgress'
    <3>1. \A d \in Calls : created[d] => todo'[d] = todo[d]
      BY DEF Types, Pending
    <3>2. QED
      BY <3>1 DEF TailProgress
  <2>6. RowsArchived'
    BY Contents DEF Types, RowsArchived
  <2>7. OneWriter'
    BY Contents DEF Types, Pending, OneWriter
  <2>8. StoredIsWhole'
    BY Contents DEF Types, StoredIsWhole
  <2> QED
    BY <2>1, <2>2, <2>3, <2>4, <2>5, <2>6, <2>7, <2>8
<1>4. ASSUME NEW c \in Calls, FindBlob(c) PROVE CaptureInv'
  <2> USE <1>4 DEF FindBlob
  <2>1. CASE Head(todo[c]) \in blobs
    <3>1. /\ todo' \in [Calls -> Seq(Hashes)] /\ step' \in [Calls -> CallStep]
          /\ Pending' /\ Archived' /\ HeadProgress' /\ TailProgress'
      BY <2>1, BlobArchivedKeeps DEF Archived
    <3>2. Types' /\ RowsArchived' /\ OneWriter' /\ StoredIsWhole'
      BY <3>1 DEF Types, RowsArchived, OneWriter, StoredIsWhole
    <3>3. QED
      BY <3>1, <3>2
  <2>2. CASE Head(todo[c]) \notin blobs
    <3>1. step' = [step EXCEPT ![c] = "put"] /\ todo' = todo
      BY <2>2 DEF Goto
    <3>2. Types' /\ RowsArchived' /\ OneWriter' /\ StoredIsWhole'
      BY <3>1 DEF Types, CallStep, RowsArchived, OneWriter, StoredIsWhole
    <3>3. Pending' /\ Archived'
      BY <3>1 DEF Types, Pending, Archived
    <3>4. HeadProgress' /\ TailProgress'
      BY <3>1 DEF Types, HeadProgress, TailProgress
    <3>5. QED
      BY <3>2, <3>3, <3>4
  <2>3. QED
    BY <2>1, <2>2
<1>5. ASSUME NEW c \in Calls, PutBlob(c) PROVE CaptureInv'
  <2> USE <1>5 DEF PutBlob, Goto
  <2>1. Types'
    <3>1. Head(todo[c]) \in Hashes
      BY TailOfTodo DEF Types, Pending
    <3>2. QED
      BY <3>1 DEF Types, CallStep
  <2>2. Pending'
    BY DEF Types, Pending
  <2>3. Archived'
    BY DEF Types, Pending, Archived
  <2>4. HeadProgress'
    BY DEF Types, Pending, HeadProgress
  <2>5. TailProgress'
    BY DEF Types, Pending, TailProgress
  <2>6. RowsArchived'
    BY DEF Types, RowsArchived
  <2>7. OneWriter'
    BY DEF Types, Pending, OneWriter
  <2>8. StoredIsWhole'
    BY DEF Types, StoredIsWhole
  <2> QED
    BY <2>1, <2>2, <2>3, <2>4, <2>5, <2>6, <2>7, <2>8
<1>6. ASSUME NEW c \in Calls, InsertBlob(c) PROVE CaptureInv'
  <2> USE <1>6 DEF InsertBlob
  <2>1. /\ blobs \subseteq blobs' /\ blobs' \subseteq objects
        /\ Head(todo[c]) \in blobs' /\ blobs' \subseteq Hashes
    BY DEF Types, Archived
  <2>2. /\ todo' \in [Calls -> Seq(Hashes)] /\ step' \in [Calls -> CallStep]
        /\ Pending' /\ Archived' /\ HeadProgress' /\ TailProgress'
    BY <2>1, BlobArchivedKeeps
  <2>3. Types' /\ OneWriter' /\ StoredIsWhole'
    BY <2>1, <2>2 DEF Types, OneWriter, StoredIsWhole
  <2>4. RowsArchived'
    BY <2>1 DEF RowsArchived
  <2>5. QED
    BY <2>2, <2>3, <2>4
<1>7. ASSUME NEW c \in Calls, CreateItem(c) PROVE CaptureInv'
  <2> USE <1>7 DEF CreateItem, ArchiveOr, Goto
  <2>1. Types'
    BY Contents DEF Types, CaptureStatus, CallStep
  <2>2. Pending'
    BY Contents DEF Types, Pending
  <2>3. Archived'
    BY Contents DEF Types, Pending, Archived
  <2>4. HeadProgress'
    BY Contents DEF Types, Pending, HeadProgress
  <2>5. TailProgress'
    <3>1. ASSUME NEW d \in Calls, created'[d], d # c
          PROVE  created[d] /\ todo'[d] = todo[d]
      BY <3>1 DEF Types
    <3>2. /\ todo'[c] = AttachmentsOf[msg[c]]
          /\ attached[msg[c]] = 0 /\ msg[c] \in Messages
      BY DEF Types, RowsArchived
    <3>3. Len(AttachmentsOf[msg[c]]) \in Nat
      BY <3>2, Contents
    <3>4. SUFFICES ASSUME NEW d \in Calls, created'[d]
                   PROVE  LET t == AttachmentsOf[msg[d]] IN
                          /\ attached[msg[d]] + Len(todo'[d]) = Len(t)
                          /\ \A j \in 1..Len(todo'[d]) :
                               todo'[d][j] = t[attached[msg[d]] + j]
      BY DEF TailProgress
    <3>5. CASE d # c
      BY <3>1, <3>4, <3>5 DEF TailProgress
    <3>6. CASE d = c
      BY <3>2, <3>3, <3>6
    <3>7. QED
      BY <3>5, <3>6
  <2>6. RowsArchived'
    <3>1. /\ msg[c] \in Messages /\ ~created[c] /\ todo[c] = << >>
      BY DEF Types, Pending, OneWriter
    <3>2. \A k \in 1..Len(HeadOf[msg[c]]) : HeadOf[msg[c]][k] \in blobs
      <4>1. Len(todo[c]) = 0 /\ 1..Len(todo[c]) = {}
        BY <3>1
      <4>2. \A k \in 1..Len(HeadOf[msg[c]]) :
              \/ HeadOf[msg[c]][k] \in blobs
              \/ \E j \in 1..Len(todo[c]) : todo[c][j] = HeadOf[msg[c]][k]
        BY <3>1 DEF HeadProgress
      <4>3. QED
        BY <4>1, <4>2
    <3>3. \A m \in Messages : m # msg[c] => status'[m] = status[m]
      BY DEF Types
    <3>4. QED
      BY <3>2, <3>3 DEF RowsArchived
  <2>7. OneWriter'
    BY Contents DEF Types, Pending, OneWriter
  <2>8. StoredIsWhole'
    BY Contents DEF Types, StoredIsWhole
  <2> QED
    BY <2>1, <2>2, <2>3, <2>4, <2>5, <2>6, <2>7, <2>8
<1>8. ASSUME NEW c \in Calls, CreateConflict(c) PROVE CaptureInv'
  <2> USE <1>8 DEF CreateConflict, Leave, Goto
  <2>1. Types'
    BY DEF Types, CaptureStatus, CallStep
  <2>2. Pending'
    BY DEF Types, Pending
  <2>3. Archived'
    BY DEF Types, Pending, Archived
  <2>4. HeadProgress'
    BY DEF Types, Pending, HeadProgress
  <2>5. TailProgress'
    BY DEF Types, Pending, TailProgress
  <2>6. RowsArchived'
    BY DEF Types, RowsArchived
  <2>7. OneWriter'
    BY DEF Types, Pending, OneWriter
  <2>8. StoredIsWhole'
    BY DEF Types, StoredIsWhole
  <2> QED
    BY <2>1, <2>2, <2>3, <2>4, <2>5, <2>6, <2>7, <2>8
<1>9. ASSUME NEW c \in Calls, Attach(c) PROVE CaptureInv'
  <2> DEFINE m == msg[c]
             s == AttachmentsOf[m]
             rest == Tail(todo[c])
  <2>1. /\ m \in Messages /\ created[c] /\ status[m] = "received"
        /\ attached[m] \in Nat /\ s \in Seq(Hashes)
    BY <1>9, Contents DEF Attach, Types, Pending, OneWriter
  <2>2. /\ todo[c] \in Seq(Hashes) /\ todo[c] # << >>
        /\ rest \in Seq(Hashes) /\ Head(todo[c]) = todo[c][1]
        /\ Len(todo[c]) \in Nat \ {0} /\ Len(rest) = Len(todo[c]) - 1
        /\ \A j \in 1..Len(rest) : rest[j] = todo[c][j + 1]
    BY <1>9, TailOfTodo DEF Attach, Types, Pending
  <2>3. /\ attached' = [attached EXCEPT ![m] = @ + 1]
        /\ todo' = [todo EXCEPT ![c] = rest]
        /\ \/ rest = << >> /\ step' = [step EXCEPT ![c] = "finish"]
           \/ rest # << >> /\ step' = [step EXCEPT ![c] = "find"]
        /\ UNCHANGED <<status, objects, blobs, msg, created>>
    BY <1>9 DEF Attach, ArchiveOr, Goto
  <2>4. Types'
    <3>1. attached[m] + 1 \in Nat
      BY <2>1
    <3>2. attached' \in [Messages -> Nat]
      BY <2>1, <2>3, <3>1 DEF Types
    <3>3. todo' \in [Calls -> Seq(Hashes)] /\ step' \in [Calls -> CallStep]
      BY <2>2, <2>3 DEF Types, CallStep
    <3>4. QED
      BY <2>3, <3>2, <3>3 DEF Types
  <2>5. Pending' /\ Archived' /\ HeadProgress' /\ OneWriter' /\ StoredIsWhole'
    <3>1. Pending'
      BY <1>9, <2>1, <2>3 DEF Attach, Types, Pending
    <3>2. Archived' /\ HeadProgress'
      <4>1. \A d \in Calls : d # c => step'[d] = step[d] /\ todo'[d] = todo[d]
        BY <2>3 DEF Types
      <4>2. created[c] /\ step'[c] \notin {"row", "attach"}
        BY <2>1, <2>3 DEF Types
      <4>3. Archived'
        BY <2>3, <4>1, <4>2 DEF Archived
      <4>4. HeadProgress'
        BY <2>3, <4>1, <4>2 DEF HeadProgress
      <4>5. QED
        BY <4>3, <4>4
    <3>3. OneWriter' /\ StoredIsWhole'
      <4>1. \A n \in Messages : status[n] = "stored" => attached'[n] = attached[n]
        BY <2>1, <2>3 DEF Types
      <4>2. StoredIsWhole'
        BY <2>3, <4>1 DEF StoredIsWhole
      <4>3. OneWriter'
        BY <2>3 DEF OneWriter
      <4>4. QED
        BY <4>2, <4>3
    <3>4. QED
      BY <3>1, <3>2, <3>3
  <2>6. /\ s[attached[m] + 1] = Head(todo[c]) /\ Head(todo[c]) \in blobs
        /\ attached[m] + Len(todo[c]) = Len(s)
    <3>1. /\ attached[m] + Len(todo[c]) = Len(s)
          /\ \A j \in 1..Len(todo[c]) : todo[c][j] = s[attached[m] + j]
      BY <2>1 DEF TailProgress
    <3>2. 1 \in 1..Len(todo[c])
      BY <2>2
    <3>3. Head(todo[c]) \in blobs
      BY <1>9 DEF Attach, Archived
    <3>4. QED
      BY <2>2, <3>1, <3>2, <3>3
  <2>7. RowsArchived'
    <3>1. attached'[m] = attached[m] + 1 /\ attached'[m] <= Len(s)
      BY <2>1, <2>2, <2>3, <2>6 DEF Types
    <3>2. \A k \in 1..attached'[m] : s[k] \in blobs
      BY <2>1, <2>6, <3>1 DEF RowsArchived
    <3>3. \A n \in Messages : n # m => attached'[n] = attached[n]
      BY <2>3 DEF Types
    <3>4. QED
      BY <2>1, <2>3, <3>1, <3>2, <3>3 DEF RowsArchived
  <2>8. TailProgress'
    <3>1. SUFFICES ASSUME NEW d \in Calls, created[d]
                   PROVE  LET t == AttachmentsOf[msg[d]] IN
                          /\ attached'[msg[d]] + Len(todo'[d]) = Len(t)
                          /\ \A j \in 1..Len(todo'[d]) :
                               todo'[d][j] = t[attached'[msg[d]] + j]
      BY <2>3 DEF TailProgress
    <3>2. CASE d # c
      <4>1. msg[d] # m
        BY <2>1, <3>1, <3>2 DEF OneWriter
      <4>2. attached'[msg[d]] = attached[msg[d]] /\ todo'[d] = todo[d]
        BY <2>3, <3>2, <4>1 DEF Types
      <4>3. QED
        BY <3>1, <4>2 DEF TailProgress
    <3>3. CASE d = c
      <4>1. attached'[m] = attached[m] + 1 /\ todo'[c] = rest
        BY <2>1, <2>3 DEF Types
      <4>2. \A j \in 1..Len(rest) : todo[c][j + 1] = s[attached[m] + (j + 1)]
        BY <2>1, <2>2 DEF TailProgress
      <4>3. \A j \in 1..Len(rest) : rest[j] = s[attached'[m] + j]
        <5>1. TAKE j \in 1..Len(rest)
        <5>2. rest[j] = todo[c][j + 1] /\ j \in Nat
          BY <2>2
        <5>3. attached[m] + (j + 1) = attached'[m] + j
          BY <2>1, <4>1, <5>2
        <5>4. QED
          BY <4>2, <5>2, <5>3
      <4>4. QED
        <5>1. attached'[m] + Len(todo'[c]) = Len(s)
          <6> HIDE DEF m, s, rest
          <6>1. Len(s) \in Nat
            BY <2>1
          <6>2. QED
            BY <2>1, <2>2, <2>6, <4>1, <6>1
        <5>2. QED
          BY <3>3, <4>1, <4>3, <5>1
    <3>4. QED
      BY <3>2, <3>3
  <2>9. QED
    BY <2>4, <2>5, <2>7, <2>8
<1>10. ASSUME NEW c \in Calls, Finish(c) PROVE CaptureInv'
  <2> USE <1>10 DEF Finish, Leave, Goto
  <2>1. Types'
    BY Contents DEF Types, CaptureStatus, CallStep
  <2>2. Pending'
    BY Contents DEF Types, Pending
  <2>3. Archived'
    BY Contents DEF Types, Pending, Archived
  <2>4. HeadProgress'
    BY Contents DEF Types, Pending, HeadProgress
  <2>5. TailProgress'
    BY Contents DEF Types, Pending, TailProgress
  <2>6. RowsArchived'
    <3>1. msg[c] \in Messages /\ status[msg[c]] # "none"
      BY DEF Types, Pending, OneWriter
    <3>2. \A m \in Messages : status'[m] = "none" <=> status[m] = "none"
      BY <3>1 DEF Types
    <3>3. QED
      BY <3>2 DEF RowsArchived
  <2>7. OneWriter'
    BY Contents DEF Types, Pending, OneWriter
  <2>8. StoredIsWhole'
    <3>1. /\ created[c] /\ todo[c] = << >> /\ msg[c] \in Messages
          /\ Len(AttachmentsOf[msg[c]]) \in Nat
      BY Contents DEF Types, Pending
    <3>2. attached[msg[c]] = Len(AttachmentsOf[msg[c]])
      <4>1. attached[msg[c]] + Len(todo[c]) = Len(AttachmentsOf[msg[c]])
        BY <3>1 DEF TailProgress
      <4>2. attached[msg[c]] \in Nat /\ Len(todo[c]) = 0
        BY <3>1 DEF Types
      <4>3. QED
        BY <3>1, <4>1, <4>2
    <3>3. QED
      BY <3>1, <3>2 DEF Types, StoredIsWhole
  <2> QED
    BY <2>1, <2>2, <2>3, <2>4, <2>5, <2>6, <2>7, <2>8
<1>11. ASSUME NEW c \in Calls, ThrowEarly(c) PROVE CaptureInv'
  <2> USE <1>11 DEF ThrowEarly, Leave, Goto
  <2>1. Types'
    BY DEF Types, CaptureStatus, CallStep
  <2>2. Pending'
    BY DEF Types, Pending
  <2>3. Archived'
    BY DEF Types, Pending, Archived
  <2>4. HeadProgress'
    BY DEF Types, Pending, HeadProgress
  <2>5. TailProgress'
    BY DEF Types, Pending, TailProgress
  <2>6. RowsArchived'
    BY DEF Types, RowsArchived
  <2>7. OneWriter'
    BY DEF Types, Pending, OneWriter
  <2>8. StoredIsWhole'
    BY DEF Types, StoredIsWhole
  <2> QED
    BY <2>1, <2>2, <2>3, <2>4, <2>5, <2>6, <2>7, <2>8
<1>12. ASSUME NEW c \in Calls, ThrowLate(c) PROVE CaptureInv'
  <2> USE <1>12 DEF ThrowLate, Leave, Goto
  <2>1. Types'
    BY DEF Types, CaptureStatus, CallStep
  <2>2. Pending'
    BY DEF Types, Pending
  <2>3. Archived'
    BY DEF Types, Pending, Archived
  <2>4. HeadProgress'
    BY DEF Types, Pending, HeadProgress
  <2>5. TailProgress'
    BY DEF Types, Pending, TailProgress
  <2>6. RowsArchived'
    <3>1. msg[c] \in Messages /\ status[msg[c]] # "none"
      BY DEF Types, OneWriter
    <3>2. \A m \in Messages : status'[m] = "none" <=> status[m] = "none"
      BY <3>1 DEF Types
    <3>3. QED
      BY <3>2 DEF RowsArchived
  <2>7. OneWriter'
    BY DEF Types, Pending, OneWriter
  <2>8. StoredIsWhole'
    BY DEF Types, StoredIsWhole
  <2> QED
    BY <2>1, <2>2, <2>3, <2>4, <2>5, <2>6, <2>7, <2>8
<1>13. ASSUME NEW c \in Calls, Die(c) PROVE CaptureInv'
  <2> USE <1>13 DEF Die, Leave, Goto
  <2>1. Types'
    BY DEF Types, CaptureStatus, CallStep
  <2>2. Pending'
    BY DEF Types, Pending
  <2>3. Archived'
    BY DEF Types, Pending, Archived
  <2>4. HeadProgress'
    BY DEF Types, Pending, HeadProgress, CallStep
  <2>5. TailProgress'
    BY DEF Types, Pending, TailProgress
  <2>6. RowsArchived'
    BY DEF Types, RowsArchived
  <2>7. OneWriter'
    BY DEF Types, Pending, OneWriter
  <2>8. StoredIsWhole'
    BY DEF Types, StoredIsWhole
  <2> QED
    BY <2>1, <2>2, <2>3, <2>4, <2>5, <2>6, <2>7, <2>8
<1>14. QED
  BY <1>0, <1>1, <1>2, <1>3, <1>4, <1>5, <1>6, <1>7, <1>8, <1>9, <1>10, <1>11,
     <1>12, <1>13 DEF Next, CallNext

LEMMA CaptureInvariant == Spec => []CaptureInv
<1>1. QED
  BY CaptureInit, CaptureStep, PTL DEF Spec

-----------------------------------------------------------------------------
(* What it gives.                                                          *)

\* "Raw bytes are archived BEFORE any analysis": whatever calls interleave,
\* throw or die, every hash a row refers to has its blob row and its bytes.
THEOREM NoRowDangles == Spec => []NoDanglingHash
<1>1. CaptureInv => NoDanglingHash
  <2> SUFFICES ASSUME CaptureInv, NEW m \in Messages
               PROVE  Referenced(m) \subseteq blobs /\ blobs \subseteq objects
    BY DEF NoDanglingHash
  <2>1. /\ HeadOf[m] \in Seq(Hashes) /\ AttachmentsOf[m] \in Seq(Hashes)
        /\ attached[m] \in Nat
    BY Contents DEF CaptureInv, Types
  <2>2. DOMAIN HeadOf[m] = 1..Len(HeadOf[m])
    BY <2>1
  <2>3. Referenced(m) \subseteq blobs
    BY <2>2 DEF Referenced, CaptureInv, RowsArchived
  <2>4. QED
    BY <2>3 DEF CaptureInv, Archived
<1>2. QED
  BY <1>1, CaptureInvariant, PTL

\* A row has one writer, and nobody else touches it while it is 'received'.
THEOREM RowHasOneWriter == Spec => []OneWriter
<1>1. CaptureInv => OneWriter
  BY DEF CaptureInv
<1>2. QED
  BY <1>1, CaptureInvariant, PTL

\* An item capture marks 'stored' has every attachment.
THEOREM StoredItemsAreWhole == Spec => []StoredIsWhole
<1>1. CaptureInv => StoredIsWhole
  BY DEF CaptureInv
<1>2. QED
  BY <1>1, CaptureInvariant, PTL

-----------------------------------------------------------------------------
(* Types, with the counters of references and deliveries.                  *)

Counters ==
  /\ refCount  \in [Hashes -> Nat]
  /\ delivered \in [Messages -> 0..MaxDeliveries]
  /\ acked     \subseteq Messages

LEMMA PositionsAreFinite ==
  ASSUME NEW s \in Seq(Hashes), NEW h
  PROVE  Cardinality(Positions(h, s)) \in Nat
<1>1. Positions(h, s) \subseteq 1..Len(s) /\ Len(s) \in Nat
  BY DEF Positions
<1>2. IsFiniteSet(1..Len(s))
  BY <1>1, FS_Interval
<1>3. IsFiniteSet(Positions(h, s))
  BY <1>1, <1>2, FS_Subset
<1>4. QED
  BY <1>3, FS_CardinalityType

LEMMA ReferenceCounts ==
  ASSUME refCount \in [Hashes -> Nat], NEW s \in Seq(Hashes), Reference(s)
  PROVE  refCount' \in [Hashes -> Nat]
<1>1. \A h : Cardinality(Positions(h, s)) \in Nat
  BY PositionsAreFinite
<1>2. \A h \in Hashes : refCount'[h] \in Nat
  <2> DEFINE n(h) == Cardinality(Positions(h, s))
  <2>1. \A h \in Hashes : n(h) \in Nat
    BY <1>1
  <2>2. \A h \in Hashes : refCount'[h] = IF h \in blobs THEN refCount[h] + n(h)
                                                        ELSE refCount[h]
    BY DEF Reference
  <2> HIDE DEF n
  <2>3. QED
    BY <2>1, <2>2
<1>3. QED
  BY <1>2 DEF Reference

LEMMA CountersStep ==
  CaptureInv /\ Counters /\ [Next]_captureVars => Counters'
<1> SUFFICES ASSUME CaptureInv, Counters, [Next]_captureVars
             PROVE  Counters'
  OBVIOUS
<1>1. \A c \in Calls : msg[c] \in Messages
  BY DEF CaptureInv, Types
<1>2. ASSUME NEW c \in Calls, Deliver(c)
      PROVE  Counters'
  BY <1>2, CaptureAssumption DEF Counters, Deliver, store
<1>3. ASSUME NEW c \in Calls, LookupKnown(c) \/ Finish(c)
      PROVE  Counters'
  BY <1>1, <1>3 DEF Counters, LookupKnown, Finish, store
<1>4. ASSUME NEW c \in Calls, CreateItem(c)
      PROVE  Counters'
  BY <1>1, <1>4, Contents, ReferenceCounts DEF Counters, CreateItem
<1>5. ASSUME NEW c \in Calls, Attach(c)
      PROVE  Counters'
  <2>1. todo[c] \in Seq(Hashes) /\ todo[c] # << >>
    BY <1>5 DEF Attach, CaptureInv, Types, Pending
  <2>2. <<Head(todo[c])>> \in Seq(Hashes)
    BY <2>1
  <2>3. QED
    BY <1>5, <2>2, ReferenceCounts DEF Counters, Attach
<1>6. CASE UNCHANGED <<refCount, delivered, acked>>
  BY <1>6 DEF Counters
<1>7. QED
  BY <1>2, <1>3, <1>4, <1>5, <1>6
     DEF Next, CallNext, LookupNew, FindBlob, PutBlob, InsertBlob, CreateConflict,
         ThrowEarly, ThrowLate, Die, store, captureVars

\* Every variable of capture keeps its type: no row has more attachments than
\* its message, and no counter of references leaves the naturals.
THEOREM CaptureTypesHold == Spec => []TypeOK
<1>1. Init => Counters
  BY CaptureAssumption DEF Init, Counters
<1>2. CaptureInv /\ Counters => TypeOK
  BY DEF CaptureInv, Types, RowsArchived, Counters, TypeOK
<1>3. QED
  BY <1>1, <1>2, CountersStep, CaptureInvariant, PTL DEF Spec

-----------------------------------------------------------------------------
(* blobs.ref_count: the rows that refer to a hash are finitely many, though *)
(* there may be messages without end, and a statement that writes a row     *)
(* adds to the counter exactly the references it brings.                    *)

RowsCounted ==
  \A h \in Hashes :
    /\ IsFiniteSet(HeadRows(h)) /\ IsFiniteSet(AttachmentRows(h))
    /\ refCount[h] = Cardinality(HeadRows(h)) + Cardinality(AttachmentRows(h))

LEMMA PositionsFinite ==
  ASSUME NEW s \in Seq(Hashes), NEW h
  PROVE  IsFiniteSet(Positions(h, s))
<1>1. Positions(h, s) \subseteq 1..Len(s) /\ Len(s) \in Nat
  BY DEF Positions
<1>2. IsFiniteSet(1..Len(s))
  BY <1>1, FS_Interval
<1>3. QED
  BY <1>1, <1>2, FS_Subset

\* Rows of one message are as many as its positions.
LEMMA PairsAreAsMany ==
  ASSUME NEW m, NEW P, IsFiniteSet(P)
  PROVE  /\ IsFiniteSet({<<m, k>> : k \in P})
         /\ Cardinality({<<m, k>> : k \in P}) = Cardinality(P)
<1> DEFINE T == {<<m, k>> : k \in P}
           f == [k \in P |-> <<m, k>>]
<1>1. f \in Bijection(P, T)
  <2>1. f \in [P -> T]
    OBVIOUS
  <2>2. \A a, b \in P : f[a] = f[b] => a = b
    OBVIOUS
  <2>3. \A t \in T : \E k \in P : f[k] = t
    OBVIOUS
  <2>4. QED
    BY <2>1, <2>2, <2>3 DEF Bijection, Injection, Surjection, IsInjective
<1>2. ExistsBijection(P, T)
  BY <1>1 DEF ExistsBijection
<1>3. QED
  BY <1>2, FS_Bijection

\* Rows that have not been there add up.
LEMMA DisjointAdds ==
  ASSUME NEW S, NEW T, IsFiniteSet(S), IsFiniteSet(T), S \cap T = {}
  PROVE  /\ IsFiniteSet(S \cup T)
         /\ Cardinality(S \cup T) = Cardinality(S) + Cardinality(T)
<1>1. Cardinality(S \cap T) = 0
  BY FS_EmptySet
<1>2. Cardinality(S) \in Nat /\ Cardinality(T) \in Nat
  BY FS_CardinalityType
<1>3. /\ IsFiniteSet(S \cup T)
      /\ Cardinality(S \cup T) = Cardinality(S) + Cardinality(T) - Cardinality(S \cap T)
  BY FS_Union
<1>4. QED
  BY <1>1, <1>2, <1>3

LEMMA InHeadRows ==
  ASSUME NEW h, NEW row
  PROVE  row \in HeadRows(h) <=>
           \E m \in Messages : /\ status[m] # "none"
                               /\ \E k \in Positions(h, HeadOf[m]) : row = <<m, k>>
  BY DEF HeadRows

LEMMA InAttachmentRows ==
  ASSUME NEW h, NEW row
  PROVE  row \in AttachmentRows(h) <=>
           \E m \in Messages :
             \E k \in Positions(h, AttachmentsOf[m]) \cap 1..attached[m] : row = <<m, k>>
  BY DEF AttachmentRows

LEMMA RowsKept ==
  ASSUME RowsCounted, UNCHANGED <<attached, refCount>>,
         \A m \in Messages : status'[m] = "none" <=> status[m] = "none"
  PROVE  RowsCounted'
<1>1. {m \in Messages : status'[m] # "none"} = {m \in Messages : status[m] # "none"}
  OBVIOUS
<1>2. \A h : HeadRows(h)' = HeadRows(h) /\ AttachmentRows(h)' = AttachmentRows(h)
  BY <1>1 DEF HeadRows, AttachmentRows
<1>3. QED
  BY <1>2 DEF RowsCounted

LEMMA CreateItemCounts ==
  ASSUME CaptureInv, Counters, RowsCounted, NEW c \in Calls, CreateItem(c)
  PROVE  RowsCounted'
<1> DEFINE m == msg[c]
           P(h) == Positions(h, HeadOf[m])
           New(h) == {<<m, k>> : k \in P(h)}
<1>1. /\ m \in Messages /\ status[m] = "none" /\ HeadOf[m] \in Seq(Hashes)
      /\ status' = [status EXCEPT ![m] = "received"] /\ attached' = attached
      /\ Reference(HeadOf[m])
  BY Contents DEF CreateItem, CaptureInv, Types
<1>2. \A k \in 1..Len(HeadOf[m]) : HeadOf[m][k] \in blobs
  <2>1. step[c] = "create" /\ ~created[c] /\ todo[c] = << >>
    BY DEF CreateItem, CaptureInv, Pending
  <2>2. Len(todo[c]) = 0
    BY <2>1
  <2>3. QED
    BY <2>1, <2>2 DEF CaptureInv, HeadProgress
<1>3. SUFFICES ASSUME NEW h \in Hashes
               PROVE  /\ IsFiniteSet(HeadRows(h)') /\ IsFiniteSet(AttachmentRows(h)')
                      /\ refCount'[h] = Cardinality(HeadRows(h)')
                                         + Cardinality(AttachmentRows(h)')
  BY DEF RowsCounted
<1>4. AttachmentRows(h)' = AttachmentRows(h)
  BY <1>1 DEF AttachmentRows
<1>5. HeadRows(h)' = HeadRows(h) \cup New(h)
  <2>1. \A n \in Messages : status'[n] # "none" <=> status[n] # "none" \/ n = m
    BY <1>1 DEF CaptureInv, Types
  <2>2. {n \in Messages : status'[n] # "none"}
          = {n \in Messages : status[n] # "none"} \cup {m}
    BY <1>1, <2>1
  <2>3. QED
    BY <2>2 DEF HeadRows
<1>6. HeadRows(h) \cap New(h) = {}
  BY <1>1, InHeadRows
<1>7. IsFiniteSet(New(h)) /\ Cardinality(New(h)) = Cardinality(P(h))
  BY <1>1, PositionsFinite, PairsAreAsMany
<1>8. /\ IsFiniteSet(HeadRows(h)')
      /\ Cardinality(HeadRows(h)') = Cardinality(HeadRows(h)) + Cardinality(P(h))
  <2>1. IsFiniteSet(HeadRows(h))
    BY DEF RowsCounted
  <2>2. QED
    BY <2>1, <1>5, <1>6, <1>7, DisjointAdds
<1>9. refCount'[h] = refCount[h] + Cardinality(P(h))
  <2>1. CASE h \in blobs
    BY <1>1, <2>1 DEF Reference
  <2>2. CASE h \notin blobs
    <3>1. DOMAIN HeadOf[m] = 1..Len(HeadOf[m])
      BY <1>1
    <3>2. P(h) = {}
      BY <1>2, <2>2, <3>1 DEF Positions
    <3>3. Cardinality(P(h)) = 0 /\ refCount[h] \in Nat
      BY <3>2, FS_EmptySet DEF Counters
    <3>4. refCount'[h] = refCount[h]
      BY <1>1, <2>2 DEF Reference
    <3>5. QED
      BY <3>3, <3>4
  <2>3. QED
    BY <2>1, <2>2
<1>10. /\ refCount[h] = Cardinality(HeadRows(h)) + Cardinality(AttachmentRows(h))
       /\ Cardinality(HeadRows(h)) \in Nat /\ Cardinality(AttachmentRows(h)) \in Nat
       /\ Cardinality(P(h)) \in Nat /\ IsFiniteSet(AttachmentRows(h))
  BY <1>1, PositionsAreFinite, FS_CardinalityType DEF RowsCounted
<1>11. QED
  <2> HIDE DEF P, New
  <2>1. QED
    BY <1>4, <1>8, <1>9, <1>10

LEMMA AttachCounts ==
  ASSUME CaptureInv, Counters, RowsCounted, NEW c \in Calls, Attach(c)
  PROVE  RowsCounted'
<1> DEFINE m == msg[c]
           s == AttachmentsOf[m]
           n == attached[m] + 1
           x == Head(todo[c])
<1>1. /\ m \in Messages /\ s \in Seq(Hashes) /\ attached[m] \in Nat
      /\ status' = status /\ attached' = [attached EXCEPT ![m] = n]
      /\ Reference(<<x>>) /\ x \in blobs
  BY Contents DEF Attach, CaptureInv, Types, Archived
<1>2. n \in 1..Len(s) /\ s[n] = x /\ x \in Hashes
  <2>1. /\ created[c] /\ todo[c] # << >> /\ todo[c] \in Seq(Hashes)
    BY DEF Attach, CaptureInv, Pending, Types
  <2>2. Len(todo[c]) \in Nat \ {0} /\ x = todo[c][1] /\ x \in Hashes
    BY <2>1, TailOfTodo
  <2>3. /\ attached[m] + Len(todo[c]) = Len(s)
        /\ \A j \in 1..Len(todo[c]) : todo[c][j] = s[attached[m] + j]
    BY <2>1 DEF CaptureInv, TailProgress
  <2>4. QED
    <3> HIDE DEF s, m, x
    <3>1. Len(s) \in Nat
      BY <1>1
    <3>2. 1 \in 1..Len(todo[c])
      BY <2>2
    <3>3. QED
      BY <1>1, <2>2, <2>3, <3>1, <3>2
<1>3. attached'[m] = n /\ \A o \in Messages : o # m => attached'[o] = attached[o]
  BY <1>1 DEF CaptureInv, Types
<1>4. DOMAIN s = 1..Len(s)
  BY <1>1
<1>5. SUFFICES ASSUME NEW h \in Hashes
               PROVE  /\ IsFiniteSet(HeadRows(h)') /\ IsFiniteSet(AttachmentRows(h)')
                      /\ refCount'[h] = Cardinality(HeadRows(h)')
                                         + Cardinality(AttachmentRows(h)')
  BY DEF RowsCounted
<1>6. HeadRows(h)' = HeadRows(h)
  BY <1>1 DEF HeadRows
<1>7. /\ refCount[h] = Cardinality(HeadRows(h)) + Cardinality(AttachmentRows(h))
      /\ Cardinality(HeadRows(h)) \in Nat /\ Cardinality(AttachmentRows(h)) \in Nat
      /\ IsFiniteSet(HeadRows(h)) /\ IsFiniteSet(AttachmentRows(h))
  BY FS_CardinalityType DEF RowsCounted
<1>8. refCount'[h] = IF h \in blobs
                       THEN refCount[h] + Cardinality(Positions(h, <<x>>))
                       ELSE refCount[h]
  BY <1>1 DEF Reference
<1>9. CASE h = x
  <2>1. Positions(h, <<x>>) = {1}
    BY <1>9 DEF Positions
  <2>2. refCount'[h] = refCount[h] + 1
    BY <1>1, <1>8, <1>9, <2>1, FS_Singleton
  <2>3. AttachmentRows(h)' = AttachmentRows(h) \cup {<<m, n>>}
    <3>1. \A o \in Messages :
            Positions(h, AttachmentsOf[o]) \cap 1..attached'[o] =
              (Positions(h, AttachmentsOf[o]) \cap 1..attached[o])
                \cup (IF o = m THEN {n} ELSE {})
      <4>1. \A o \in Messages : o # m => attached'[o] = attached[o]
        BY <1>3
      <4>2. n \in Positions(h, s)
        BY <1>2, <1>4, <1>9 DEF Positions
      <4>3. 1..attached'[m] = 1..attached[m] \cup {n}
        BY <1>1, <1>3
      <4>4. QED
        BY <4>1, <4>2, <4>3
    <3>2. \A row : row \in AttachmentRows(h)' <=>
                     row \in AttachmentRows(h) \/ row = <<m, n>>
      <4>1. \A row : row \in AttachmentRows(h)' <=>
              \E o \in Messages :
                \E k \in Positions(h, AttachmentsOf[o]) \cap 1..attached'[o] :
                  row = <<o, k>>
        BY DEF AttachmentRows
      <4>2. QED
        BY <1>1, <3>1, <4>1, InAttachmentRows
    <3>3. QED
      BY <3>2
  <2>4. <<m, n>> \notin AttachmentRows(h)
    <3>1. n \notin 1..attached[m]
      BY <1>1
    <3>2. QED
      BY <3>1, InAttachmentRows
  <2>5. /\ IsFiniteSet(AttachmentRows(h)')
        /\ Cardinality(AttachmentRows(h)') = Cardinality(AttachmentRows(h)) + 1
    <3> DEFINE rows == AttachmentRows(h)
               row == <<m, n>>
    <3>1. IsFiniteSet(rows) /\ row \notin rows /\ AttachmentRows(h)' = rows \cup {row}
      BY <1>7, <2>3, <2>4
    <3> HIDE DEF rows, row
    <3>2. /\ IsFiniteSet(rows \cup {row})
          /\ Cardinality(rows \cup {row}) = Cardinality(rows) + 1
      BY <3>1, FS_AddElement
    <3>3. QED
      BY <3>1, <3>2 DEF rows
  <2>6. QED
    BY <1>6, <1>7, <2>2, <2>5
<1>10. CASE h # x
  <2>1. Positions(h, <<x>>) = {}
    BY <1>10 DEF Positions
  <2>2. refCount'[h] = refCount[h]
    <3>1. Cardinality(Positions(h, <<x>>)) = 0 /\ refCount[h] \in Nat
      BY <2>1, FS_EmptySet DEF Counters
    <3>2. QED
      BY <1>8, <3>1
  <2>3. \A o \in Messages : Positions(h, AttachmentsOf[o]) \cap 1..attached'[o] =
                              Positions(h, AttachmentsOf[o]) \cap 1..attached[o]
    <3>1. \A o \in Messages : o # m => attached'[o] = attached[o]
      BY <1>3
    <3>2. n \notin Positions(h, s)
      BY <1>2, <1>10 DEF Positions
    <3>3. 1..attached'[m] = 1..attached[m] \cup {n}
      BY <1>1, <1>3
    <3>4. QED
      BY <3>1, <3>2, <3>3
  <2>4. AttachmentRows(h)' = AttachmentRows(h)
    <3>1. \A row : row \in AttachmentRows(h)' <=>
            \E o \in Messages :
              \E k \in Positions(h, AttachmentsOf[o]) \cap 1..attached'[o] :
                row = <<o, k>>
      BY DEF AttachmentRows
    <3>2. QED
      BY <2>3, <3>1, InAttachmentRows
  <2>5. QED
    BY <1>6, <1>7, <2>2, <2>4
<1>11. QED
  BY <1>9, <1>10

LEMMA RowsCountedInit == Init => RowsCounted
<1> SUFFICES ASSUME Init, NEW h \in Hashes
             PROVE  /\ IsFiniteSet(HeadRows(h)) /\ IsFiniteSet(AttachmentRows(h))
                    /\ refCount[h] = Cardinality(HeadRows(h))
                                      + Cardinality(AttachmentRows(h))
  BY DEF RowsCounted
<1>1. HeadRows(h) = {} /\ AttachmentRows(h) = {}
  <2>1. \A row : row \notin HeadRows(h) /\ row \notin AttachmentRows(h)
    <3>1. \A m \in Messages : status[m] = "none" /\ 1..attached[m] = {}
      BY DEF Init
    <3>2. QED
      BY <3>1, InHeadRows, InAttachmentRows
  <2>2. QED
    BY <2>1
<1>2. refCount[h] = 0
  BY DEF Init
<1>3. QED
  BY <1>1, <1>2, FS_EmptySet

LEMMA RowsCountedStep ==
  CaptureInv /\ Counters /\ RowsCounted /\ [Next]_captureVars => RowsCounted'
<1> SUFFICES ASSUME CaptureInv, Counters, RowsCounted, [Next]_captureVars
             PROVE  RowsCounted'
  OBVIOUS
<1>1. ASSUME NEW c \in Calls, CreateItem(c) PROVE RowsCounted'
  BY <1>1, CreateItemCounts
<1>2. ASSUME NEW c \in Calls, Attach(c) PROVE RowsCounted'
  BY <1>2, AttachCounts
<1>3. ASSUME NEW c \in Calls, Finish(c) \/ ThrowLate(c) PROVE RowsCounted'
  <2>1. created[c] /\ msg[c] \in Messages
    BY <1>3 DEF Finish, ThrowLate, CaptureInv, Pending, Types
  <2>2. status[msg[c]] # "none"
    BY <2>1 DEF CaptureInv, OneWriter
  <2>3. \A m \in Messages : status'[m] = "none" <=> status[m] = "none"
    BY <1>3, <2>2 DEF Finish, ThrowLate, CaptureInv, Types
  <2>4. UNCHANGED <<attached, refCount>>
    BY <1>3 DEF Finish, ThrowLate, store
  <2>5. QED
    BY <2>3, <2>4, RowsKept
<1>4. CASE UNCHANGED <<status, attached, refCount>>
  BY <1>4, RowsKept
<1>5. QED
  BY <1>1, <1>2, <1>3, <1>4
     DEF Next, CallNext, Deliver, LookupKnown, LookupNew, FindBlob, PutBlob,
         InsertBlob, CreateConflict, ThrowEarly, Die, store, captureVars

\* blobs.ref_count of every hash is exactly the number of rows that refer to
\* it, whatever calls race on the blob's row, throw or die: a reference is
\* neither lost nor counted twice.
THEOREM ReferencesAreCounted == Spec => []RefCountExact
<1>1. Init => Counters
  BY CaptureAssumption DEF Init, Counters
<1>2. RowsCounted => RefCountExact
  BY DEF RowsCounted, RefCountExact
<1>3. QED
  BY <1>1, <1>2, CountersStep, CaptureInvariant, RowsCountedInit, RowsCountedStep,
     PTL DEF Spec

-----------------------------------------------------------------------------
(* The poller of a mailbox.  What holds of the cursor in memory and in the  *)
(* file holds of the own cursor of every poll, none of them is ahead of     *)
(* the mailbox, and a poll has captured or gone over all that it is past.   *)

PollRow == [step : {"idle", "post", "save"}, at : 0..MaxUid, next : 0..(MaxUid + 1),
            top : 0..MaxUid]

\* After the mark m everything up to c is in d.
Captured(c, m, d) == \A uid \in Uids : m < uid /\ uid <= c => uid \in d

\* HonestAt, of any first mark m, captured messages d and skipped ones k.
Honest(c, m, d, k) == Captured(c, m, d \cup k) /\ (c <= m \/ c \in d)

\* A poll's row r, under next uid n, first mark m, captured d and skipped k.
GoodRow(r, n, m, d, k) ==
  /\ r \in PollRow
  /\ r.at <= r.top /\ r.top < n
  /\ Honest(r.at, m, d, k)
  /\ r.step = "save" => r.next = r.at + 1
  /\ r.step = "post" => /\ r.at < r.next /\ r.next <= r.top
                        /\ Captured(r.next - 1, m, d \cup k)

Bounds ==
  /\ uidNext \in 1..(MaxUid + 1)
  /\ cursor \in 0..MaxUid /\ cursorFile \in 0..MaxUid /\ firstMark \in 0..MaxUid
  /\ cursor < uidNext /\ cursorFile < uidNext /\ firstMark < uidNext
  /\ gone \subseteq Uids /\ posted \subseteq Uids /\ skipped \subseteq Uids
  /\ troubles \in 0..MaxTroubles

Cursors ==
  /\ Honest(cursor, firstMark, posted, skipped)
  /\ Honest(cursorFile, firstMark, posted, skipped)

GoodPolls ==
  /\ poll \in [Polls -> PollRow]
  /\ \A p \in Polls : GoodRow(poll[p], uidNext, firstMark, posted, skipped)

ImapInv == Bounds /\ Cursors /\ GoodPolls

\* Nothing but mail, captures, skips and a later first sight disturbs a row.
Onward ==
  /\ uidNext <= uidNext' /\ posted \subseteq posted' /\ skipped \subseteq skipped'
  /\ firstMark' = firstMark \/ firstMark' = uidNext - 1

-----------------------------------------------------------------------------
LEMMA HonestyGrows ==
  ASSUME NEW c, NEW m, NEW d, NEW k, NEW d2, NEW k2, Honest(c, m, d, k),
         d \subseteq d2, k \subseteq k2
  PROVE  Honest(c, m, d2, k2)
  BY DEF Honest, Captured

\* A good row stays good when mail arrives, messages are captured or gone over,
\* or a later mark is set.
LEMMA RowStaysGood ==
  ASSUME NEW r, NEW n \in Nat, NEW m \in Nat, NEW d, NEW k, NEW n2 \in Nat,
         NEW mark \in Nat, NEW d2, NEW k2, GoodRow(r, n, m, d, k), n <= n2,
         d \subseteq d2, k \subseteq k2, mark = m \/ r.top <= mark
  PROVE  GoodRow(r, n2, mark, d2, k2)
  <1>1. /\ r \in PollRow /\ r.at <= r.top /\ r.top < n /\ Honest(r.at, m, d, k)
        /\ r.step = "save" => r.next = r.at + 1
        /\ r.step = "post" => /\ r.at < r.next /\ r.next <= r.top
                              /\ Captured(r.next - 1, m, d \cup k)
    BY DEF GoodRow
  <1>2. r.at \in Nat /\ r.top \in Nat /\ r.next \in Nat
    BY <1>1, ImapAssumption DEF PollRow
  <1>3. Honest(r.at, mark, d2, k2)
    BY <1>1, <1>2, ImapAssumption DEF Honest, Captured, Uids
  <1>4. r.step = "post" => Captured(r.next - 1, mark, d2 \cup k2)
    BY <1>1, <1>2, ImapAssumption DEF Captured, Uids
  <1>5. r.top < n2
    BY <1>1, <1>2
  <1> QED
    BY <1>1, <1>3, <1>4, <1>5 DEF GoodRow

LEMMA NoPollIsGood ==
  ASSUME NEW n \in Nat \ {0}, NEW m \in Nat, NEW d, NEW k
  PROVE  GoodRow(NoPoll, n, m, d, k)
  <1>1. NoPoll \in PollRow /\ NoPoll.at = 0 /\ NoPoll.top = 0 /\ NoPoll.step = "idle"
    BY ImapAssumption DEF NoPoll, PollRow
  <1>2. Honest(0, m, d, k)
    BY ImapAssumption DEF Honest, Captured, Uids
  <1> QED
    BY <1>1, <1>2 DEF GoodRow

\* One poll moves to a good row and the others stay good.
LEMMA OnePollMoves ==
  ASSUME NEW p \in Polls, NEW r, GoodPolls, Bounds, Bounds', Onward,
         poll' = [poll EXCEPT ![p] = r],
         GoodRow(r, uidNext', firstMark', posted', skipped')
  PROVE  GoodPolls'
  <1>1. r \in PollRow
    BY DEF GoodRow
  <1>2. poll' \in [Polls -> PollRow]
    BY <1>1 DEF GoodPolls
  <1>3. ASSUME NEW q \in Polls
        PROVE  GoodRow(poll'[q], uidNext', firstMark', posted', skipped')
    <2>1. CASE q = p
      BY <2>1 DEF GoodPolls
    <2>2. CASE q # p
      <3>1. poll'[q] = poll[q]
        BY <2>2 DEF GoodPolls
      <3>2. GoodRow(poll[q], uidNext, firstMark, posted, skipped)
        BY DEF GoodPolls
      <3>3. poll[q].top \in Nat /\ poll[q].top < uidNext
        BY <3>2, ImapAssumption DEF GoodRow, PollRow
      <3>4. uidNext \in Nat /\ firstMark \in Nat /\ uidNext' \in Nat /\ firstMark' \in Nat
        BY ImapAssumption DEF Bounds
      <3>5. firstMark' = firstMark \/ poll[q].top <= firstMark'
        BY <3>3, <3>4 DEF Onward
      <3>6. uidNext <= uidNext' /\ posted \subseteq posted' /\ skipped \subseteq skipped'
        BY DEF Onward
      <3>7. GoodRow(poll[q], uidNext', firstMark', posted', skipped')
        BY <3>2, <3>4, <3>5, <3>6, RowStaysGood
      <3> QED
        BY <3>1, <3>7
    <2> QED
      BY <2>1, <2>2
  <1> QED
    BY <1>2, <1>3 DEF GoodPolls

-----------------------------------------------------------------------------
(* The poller's steps.                                                     *)

LEMMA ImapInvInit == ImapInit => ImapInv
  <1> SUFFICES ASSUME ImapInit PROVE ImapInv
    OBVIOUS
  <1>1. Bounds
    BY ImapAssumption DEF ImapInit, Bounds, Uids
  <1>2. Cursors
    BY ImapAssumption DEF ImapInit, Cursors, Honest, Captured, Uids
  <1>3. uidNext \in Nat \ {0} /\ firstMark \in Nat
    BY <1>1, ImapAssumption DEF Bounds
  <1>4. NoPoll \in PollRow /\ GoodRow(NoPoll, uidNext, firstMark, posted, skipped)
    BY <1>3, NoPollIsGood DEF GoodRow
  <1>5. GoodPolls
    BY <1>4 DEF ImapInit, GoodPolls
  <1> QED
    BY <1>1, <1>2, <1>5 DEF ImapInv

LEMMA ArrivalKeepsInv ==
  ASSUME ImapInv, MailArrives PROVE ImapInv'
  <1>1. Bounds'
    BY ImapAssumption DEF ImapInv, Bounds, MailArrives, Uids
  <1>2. Cursors'
    BY DEF ImapInv, Cursors, MailArrives
  <1>3. ASSUME NEW q \in Polls
        PROVE  GoodRow(poll[q], uidNext', firstMark, posted, skipped)
    <2>1. uidNext \in Nat /\ uidNext' \in Nat /\ uidNext <= uidNext' /\ firstMark \in Nat
      BY ImapAssumption DEF ImapInv, Bounds, MailArrives
    <2>2. GoodRow(poll[q], uidNext, firstMark, posted, skipped)
      BY DEF ImapInv, GoodPolls
    <2> QED
      BY <2>1, <2>2, RowStaysGood
  <1>4. GoodPolls'
    BY <1>3 DEF ImapInv, GoodPolls, MailArrives
  <1> QED
    BY <1>1, <1>2, <1>4 DEF ImapInv

LEMMA DepartureKeepsInv ==
  ASSUME ImapInv, MailLeaves PROVE ImapInv'
  <1>1. gone' \subseteq Uids
    BY ImapAssumption DEF ImapInv, Bounds, MailLeaves, Uids
  <1>2. Bounds'
    BY <1>1, ImapAssumption DEF ImapInv, Bounds, MailLeaves, Trouble
  <1>3. Cursors' /\ GoodPolls'
    BY DEF ImapInv, Cursors, GoodPolls, MailLeaves
  <1> QED
    BY <1>2, <1>3 DEF ImapInv

LEMMA FirstSightKeepsInv ==
  ASSUME ImapInv, NEW p \in Polls, FirstSight(p) PROVE ImapInv'
  <1> DEFINE r == [step |-> "save", at |-> uidNext - 1, next |-> uidNext,
                   top |-> uidNext - 1]
  <1>1. uidNext \in Nat /\ uidNext - 1 \in 0..MaxUid /\ uidNext \in 0..(MaxUid + 1)
    BY ImapAssumption DEF ImapInv, Bounds
  <1>2. Bounds'
    BY <1>1, ImapAssumption DEF ImapInv, Bounds, FirstSight, Uids
  <1>3. Cursors'
    BY <1>1, ImapAssumption DEF ImapInv, Bounds, Cursors, Honest, Captured, FirstSight, Uids
  <1>4. /\ r \in PollRow /\ r.at = uidNext - 1 /\ r.top = uidNext - 1 /\ r.step = "save"
        /\ r.next = r.at + 1
    BY <1>1 DEF PollRow
  <1>5. Honest(uidNext - 1, uidNext - 1, posted, skipped)
    BY <1>1, ImapAssumption DEF Honest, Captured, Uids
  <1>6. GoodRow(r, uidNext', firstMark', posted', skipped')
    BY <1>1, <1>4, <1>5 DEF GoodRow, FirstSight
  <1>7. GoodPolls'
    <2>1. poll' = [poll EXCEPT ![p] = r]
      BY DEF FirstSight
    <2>2. Onward
      BY <1>1 DEF FirstSight, Onward
    <2>3. Bounds /\ Bounds' /\ GoodPolls
      BY <1>2 DEF ImapInv
    <2> HIDE DEF r
    <2> QED
      BY <2>1, <2>2, <2>3, <1>6, OnePollMoves
  <1> QED
    BY <1>2, <1>3, <1>7 DEF ImapInv

LEMMA OpenKeepsInv ==
  ASSUME ImapInv, NEW p \in Polls, OpenMailbox(p) PROVE ImapInv'
  <1> DEFINE r == [step |-> "post", at |-> cursor, next |-> cursor + 1,
                   top |-> uidNext - 1]
  <1>1. uidNext \in Nat /\ uidNext - 1 \in 0..MaxUid /\ cursor \in 0..MaxUid
        /\ cursor < uidNext - 1 /\ cursor + 1 \in 0..(MaxUid + 1)
    BY ImapAssumption DEF ImapInv, Bounds, OpenMailbox, NothingNew
  <1>2. Bounds' /\ Cursors'
    BY DEF ImapInv, Bounds, Cursors, OpenMailbox
  <1>3. /\ r \in PollRow /\ r.at = cursor /\ r.next = cursor + 1 /\ r.top = uidNext - 1
        /\ r.step = "post"
    BY <1>1 DEF PollRow
  <1>4. Honest(cursor, firstMark, posted, skipped)
    BY DEF ImapInv, Cursors
  <1>5. (cursor + 1) - 1 = cursor
    BY <1>1
  <1>6. GoodRow(r, uidNext', firstMark', posted', skipped')
    <2> HIDE DEF r
    <2> QED
      BY <1>1, <1>3, <1>4, <1>5 DEF GoodRow, OpenMailbox, Honest
  <1>7. GoodPolls'
    <2>1. poll' = [poll EXCEPT ![p] = r]
      BY DEF OpenMailbox
    <2>2. Onward
      BY <1>1 DEF OpenMailbox, Onward
    <2>3. Bounds /\ Bounds' /\ GoodPolls
      BY <1>2 DEF ImapInv
    <2> HIDE DEF r
    <2> QED
      BY <2>1, <2>2, <2>3, <1>6, OnePollMoves
  <1> QED
    BY <1>2, <1>7 DEF ImapInv

LEMMA PostKeepsInv ==
  ASSUME ImapInv, NEW p \in Polls, PostMail(p) PROVE ImapInv'
  <1> DEFINE uid == poll[p].next
             r == [step |-> "save", at |-> uid, next |-> uid + 1, top |-> poll[p].top]
             d == posted \cup {uid}
  <1>1. GoodRow(poll[p], uidNext, firstMark, posted, skipped) /\ poll[p].step = "post"
    BY DEF ImapInv, GoodPolls, PostMail, PollIs
  <1>2. /\ uidNext \in Nat /\ poll[p].top \in 0..MaxUid /\ uid \in 1..MaxUid
        /\ uid + 1 \in 0..(MaxUid + 1) /\ uid <= poll[p].top /\ poll[p].top < uidNext
    BY <1>1, ImapAssumption DEF GoodRow, PollRow, ImapInv, Bounds
  <1>3. Captured(uid - 1, firstMark, posted \cup skipped)
    BY <1>1 DEF GoodRow
  <1>4. Honest(uid, firstMark, d, skipped)
    BY <1>2, <1>3, ImapAssumption DEF Honest, Captured, Uids
  <1>5. Bounds'
    BY <1>2, ImapAssumption DEF ImapInv, Bounds, PostMail, Uids
  <1>6. Cursors'
    <2>1. Honest(cursorFile, firstMark, d, skipped)
      BY HonestyGrows DEF ImapInv, Cursors
    <2> QED
      BY <1>4, <2>1 DEF Cursors, PostMail
  <1>7. r \in PollRow /\ r.at = uid /\ r.next = r.at + 1 /\ r.top = poll[p].top
        /\ r.step = "save"
    BY <1>2 DEF PollRow
  <1>8. GoodRow(r, uidNext', firstMark', posted', skipped')
    BY <1>2, <1>4, <1>7 DEF GoodRow, PostMail
  <1>9. GoodPolls'
    <2>1. poll' = [poll EXCEPT ![p] = r]
      BY DEF PostMail
    <2>2. Onward
      BY <1>2 DEF PostMail, Onward
    <2>3. Bounds /\ Bounds' /\ GoodPolls
      BY <1>5 DEF ImapInv
    <2> HIDE DEF r
    <2> QED
      BY <2>1, <2>2, <2>3, <1>8, OnePollMoves
  <1> QED
    BY <1>5, <1>6, <1>9 DEF ImapInv

\* Whoever goes over a message leaves the cursors where they are.
LEMMA GoingOverKeepsInv ==
  ASSUME ImapInv, NEW p \in Polls, GoesOver(p), troubles' \in 0..MaxTroubles
  PROVE  ImapInv'
  <1> DEFINE uid == poll[p].next
             k == skipped \cup {uid}
  <1>1. GoodRow(poll[p], uidNext, firstMark, posted, skipped) /\ poll[p].step = "post"
    BY DEF ImapInv, GoodPolls, GoesOver, PollIs
  <1>2. /\ uidNext \in Nat \ {0} /\ poll[p].top \in 0..MaxUid /\ uid \in 1..MaxUid
        /\ poll[p].at \in 0..MaxUid /\ poll[p].at < uid /\ uid <= poll[p].top
        /\ poll[p].top < uidNext /\ firstMark \in Nat
    BY <1>1, ImapAssumption DEF GoodRow, PollRow, ImapInv, Bounds
  <1>3. Bounds'
    BY <1>2, ImapAssumption DEF ImapInv, Bounds, GoesOver, Uids
  <1>4. Cursors'
    <2>1. /\ Honest(cursor, firstMark, posted, k)
          /\ Honest(cursorFile, firstMark, posted, k)
      BY HonestyGrows DEF ImapInv, Cursors
    <2> QED
      BY <2>1 DEF Cursors, GoesOver
  <1>5. GoodRow(PastNext(p), uidNext, firstMark, posted, k)
    <2>1. CASE uid < poll[p].top
      <3> DEFINE r == [poll[p] EXCEPT !.next = @ + 1]
      <3>1. /\ r \in PollRow /\ r.at = poll[p].at /\ r.top = poll[p].top
            /\ r.next = uid + 1 /\ r.step = "post"
        BY <1>1, <1>2, <2>1, ImapAssumption DEF GoodRow, PollRow
      <3>2. Honest(poll[p].at, firstMark, posted, k)
        BY <1>1, HonestyGrows DEF GoodRow
      <3>3. Captured(uid, firstMark, posted \cup k)
        <4>1. Captured(uid - 1, firstMark, posted \cup skipped)
          BY <1>1 DEF GoodRow
        <4> QED
          BY <1>2, <4>1, ImapAssumption DEF Captured, Uids
      <3>4. PastNext(p) = r
        BY <2>1 DEF PastNext
      <3>5. (uid + 1) - 1 = uid
        BY <1>2
      <3>6. poll[p].at < uid + 1 /\ uid + 1 <= poll[p].top /\ poll[p].at <= poll[p].top
        BY <1>2, <2>1
      <3> HIDE DEF r, k, uid
      <3> QED
        BY <1>2, <3>1, <3>2, <3>3, <3>4, <3>5, <3>6 DEF GoodRow
    <2>2. CASE ~(uid < poll[p].top)
      BY <1>2, <2>2, NoPollIsGood DEF PastNext
    <2> QED
      BY <2>1, <2>2
  <1>6. GoodPolls'
    <2>1. poll' = [poll EXCEPT ![p] = PastNext(p)]
          /\ GoodRow(PastNext(p), uidNext', firstMark', posted', skipped')
      BY <1>5 DEF GoesOver
    <2>2. Onward
      BY <1>2 DEF GoesOver, Onward
    <2>3. Bounds /\ Bounds' /\ GoodPolls
      BY <1>3 DEF ImapInv
    <2> QED
      BY <2>1, <2>2, <2>3, OnePollMoves
  <1> QED
    BY <1>3, <1>4, <1>6 DEF ImapInv

LEMMA SkipKeepsInv ==
  ASSUME ImapInv, NEW p \in Polls, SkipGone(p) \/ SkipSourceless(p) PROVE ImapInv'
  <1>1. GoesOver(p)
    BY DEF SkipGone, SkipSourceless
  <1>2. troubles' \in 0..MaxTroubles
    BY ImapAssumption DEF ImapInv, Bounds, SkipGone, SkipSourceless, Trouble
  <1> QED
    BY <1>1, <1>2, GoingOverKeepsInv

LEMMA RejectKeepsInv ==
  ASSUME ImapInv, NEW p \in Polls, PostRejected(p) PROVE ImapInv'
  <1>1. GoodRow(poll[p], uidNext, firstMark, posted, skipped) /\ poll[p].step = "post"
    BY DEF ImapInv, GoodPolls, PostRejected, PollIs
  <1>2. poll[p].next \in Uids /\ uidNext \in Nat \ {0} /\ firstMark \in Nat
    BY <1>1, ImapAssumption DEF GoodRow, PollRow, ImapInv, Bounds, Uids
  <1>3. posted \subseteq posted' /\ posted' \subseteq Uids
    BY <1>2 DEF PostRejected, ImapInv, Bounds
  <1>4. Bounds'
    BY <1>3, ImapAssumption DEF ImapInv, Bounds, PostRejected, Trouble
  <1>5. Cursors'
    <2>1. /\ Honest(cursor, firstMark, posted', skipped)
          /\ Honest(cursorFile, firstMark, posted', skipped)
      BY <1>3, HonestyGrows DEF ImapInv, Cursors
    <2> QED
      BY <2>1 DEF Cursors, PostRejected
  <1>6. GoodRow(NoPoll, uidNext', firstMark', posted', skipped')
    BY <1>2, NoPollIsGood DEF PostRejected
  <1>7. GoodPolls'
    <2>1. poll' = [poll EXCEPT ![p] = NoPoll]
      BY DEF PostRejected, AfterReject
    <2>2. Onward
      BY <1>2, <1>3 DEF PostRejected, Onward
    <2>3. Bounds /\ Bounds' /\ GoodPolls
      BY <1>4 DEF ImapInv
    <2> QED
      BY <2>1, <2>2, <2>3, <1>6, OnePollMoves
  <1> QED
    BY <1>4, <1>5, <1>7 DEF ImapInv

LEMMA SaveKeepsInv ==
  ASSUME ImapInv, NEW p \in Polls, SaveCursor(p) PROVE ImapInv'
  <1>1. GoodRow(poll[p], uidNext, firstMark, posted, skipped) /\ poll[p].step = "save"
    BY DEF ImapInv, GoodPolls, SaveCursor, PollIs
  <1>2. PICK q \in Polls : cursorFile' = poll[q].at
    BY DEF SaveCursor
  <1>3. GoodRow(poll[q], uidNext, firstMark, posted, skipped)
    BY DEF ImapInv, GoodPolls
  <1>4. uidNext \in Nat \ {0} /\ firstMark \in Nat
    BY ImapAssumption DEF ImapInv, Bounds
  <1>5. Bounds'
    BY <1>2, <1>3, ImapAssumption DEF ImapInv, Bounds, SaveCursor, GoodRow, PollRow
  <1>6. Cursors'
    BY <1>2, <1>3 DEF ImapInv, Cursors, SaveCursor, GoodRow
  <1>7. GoodRow(AfterSave(p), uidNext, firstMark, posted, skipped)
    <2>1. CASE poll[p].next <= poll[p].top
      <3> DEFINE r == [poll[p] EXCEPT !.step = "post"]
      <3>1. /\ r \in PollRow /\ r.at = poll[p].at /\ r.next = poll[p].next
            /\ r.top = poll[p].top /\ r.step = "post"
        BY <1>1 DEF GoodRow, PollRow
      <3>2. /\ poll[p].at < poll[p].next /\ poll[p].next - 1 = poll[p].at
            /\ poll[p].at <= poll[p].top /\ poll[p].top < uidNext
        BY <1>1, ImapAssumption DEF GoodRow, PollRow
      <3>3. Honest(poll[p].at, firstMark, posted, skipped)
        BY <1>1 DEF GoodRow
      <3>4. AfterSave(p) = r
        BY <2>1 DEF AfterSave
      <3> HIDE DEF r
      <3> QED
        BY <2>1, <3>1, <3>2, <3>3, <3>4 DEF GoodRow, Honest
    <2>2. CASE ~(poll[p].next <= poll[p].top)
      BY <1>4, <2>2, NoPollIsGood DEF AfterSave
    <2> QED
      BY <2>1, <2>2
  <1>8. GoodPolls'
    <2>1. poll' = [poll EXCEPT ![p] = AfterSave(p)]
          /\ GoodRow(AfterSave(p), uidNext', firstMark', posted', skipped')
      BY <1>7 DEF SaveCursor
    <2>2. Onward
      BY <1>4 DEF SaveCursor, Onward
    <2>3. Bounds /\ Bounds' /\ GoodPolls
      BY <1>5 DEF ImapInv
    <2> QED
      BY <2>1, <2>2, <2>3, OnePollMoves
  <1> QED
    BY <1>5, <1>6, <1>8 DEF ImapInv

LEMMA SaveFailsKeepsInv ==
  ASSUME ImapInv, NEW p \in Polls, SaveFails(p) PROVE ImapInv'
  <1>1. uidNext \in Nat \ {0} /\ firstMark \in Nat
    BY ImapAssumption DEF ImapInv, Bounds
  <1>2. Bounds' /\ Cursors'
    BY ImapAssumption DEF ImapInv, Bounds, Cursors, SaveFails, Trouble
  <1>3. GoodRow(NoPoll, uidNext', firstMark', posted', skipped')
    BY <1>1, NoPollIsGood DEF SaveFails
  <1>4. GoodPolls'
    <2>1. poll' = [poll EXCEPT ![p] = NoPoll]
      BY DEF SaveFails
    <2>2. Onward
      BY <1>1 DEF SaveFails, Onward
    <2>3. Bounds /\ Bounds' /\ GoodPolls
      BY <1>2 DEF ImapInv
    <2> QED
      BY <2>1, <2>2, <2>3, <1>3, OnePollMoves
  <1> QED
    BY <1>2, <1>4 DEF ImapInv

LEMMA RestartKeepsInv ==
  ASSUME ImapInv, ImapRestart PROVE ImapInv'
  <1>1. uidNext \in Nat \ {0} /\ firstMark \in Nat
    BY ImapAssumption DEF ImapInv, Bounds
  <1>2. Bounds' /\ Cursors'
    BY ImapAssumption DEF ImapInv, Bounds, Cursors, ImapRestart, Trouble
  <1>3. NoPoll \in PollRow /\ GoodRow(NoPoll, uidNext, firstMark, posted, skipped)
    BY <1>1, NoPollIsGood DEF GoodRow
  <1>4. GoodPolls'
    BY <1>3 DEF GoodPolls, ImapRestart
  <1> QED
    BY <1>2, <1>4 DEF ImapInv

LEMMA ImapInvStep == ImapInv /\ [ImapNext]_imapVars => ImapInv'
  <1> SUFFICES ASSUME ImapInv, [ImapNext]_imapVars PROVE ImapInv'
    OBVIOUS
  <1>1. CASE MailArrives
    BY <1>1, ArrivalKeepsInv
  <1>2. CASE MailLeaves
    BY <1>2, DepartureKeepsInv
  <1>3. ASSUME NEW p \in Polls, PollStep(p) PROVE ImapInv'
    BY <1>3, FirstSightKeepsInv, OpenKeepsInv, PostKeepsInv, SkipKeepsInv, SaveKeepsInv
       DEF PollStep
  <1>4. ASSUME NEW p \in Polls, SkipSourceless(p) \/ PostRejected(p) \/ SaveFails(p)
        PROVE  ImapInv'
    BY <1>4, SkipKeepsInv, RejectKeepsInv, SaveFailsKeepsInv
  <1>5. CASE ImapRestart
    BY <1>5, RestartKeepsInv
  <1>6. CASE UNCHANGED imapVars
    BY <1>6 DEF imapVars, ImapInv, Bounds, Cursors, GoodPolls
  <1> QED
    BY <1>1, <1>2, <1>3, <1>4, <1>5, <1>6 DEF ImapNext

-----------------------------------------------------------------------------
LEMMA ImapInvTypes == ImapInv => ImapTypeOK
  BY DEF ImapInv, Bounds, GoodPolls, PollRow, ImapTypeOK

\* The poller's variables keep their types.
THEOREM ImapTypesHold == ImapSpec => []ImapTypeOK
  BY ImapInvTypes, ImapInvInit, ImapInvStep, PTL DEF ImapSpec

\* However many polls overlap, fail and restart, and whatever leaves the mailbox
\* or is fetched without a source meanwhile: a cursor of the IMAP poller, in
\* memory or in the file, passes a message only when it is captured, or when a
\* poll went over it and a later one was captured (advanceCursor, setCursor).
THEOREM ImapCursorIsHonest == ImapSpec => []ImapCursorHonest
  <1>1. ImapInv => ImapCursorHonest
    BY ImapAssumption DEF ImapInv, Bounds, Cursors, Honest, Captured, HonestAt,
       ImapCursorHonest, Uids
  <1> QED
    BY <1>1, ImapInvInit, ImapInvStep, PTL DEF ImapSpec

-----------------------------------------------------------------------------
(* The composition: a behaviour of MCIngest is one of capture and one of   *)
(* the poller, so that each part keeps what it keeps alone.                *)

\* Whatever moves, capture takes one of its steps or none.
LEMMA IngestIsCapture == IngestSpec => Spec
<1>1. IngestInit => Init
  BY DEF IngestInit
<1>2. [IngestNext]_captureAndPoller => [Next]_captureVars
  BY DEF IngestNext, Polled, captureAndPoller
<1>3. QED
  BY <1>1, <1>2, PTL DEF IngestSpec, Spec

LEMMA IngestIsPoller == IngestSpec => ImapInit /\ [][ImapNext]_imapVars
<1>1. IngestInit => ImapInit
  BY DEF IngestInit
<1>2. [IngestNext]_captureAndPoller => [ImapNext]_imapVars
  BY DEF IngestNext, Polled, captureAndPoller
<1>3. QED
  BY <1>1, <1>2, PTL DEF IngestSpec

\* Capture and the poller keep their types side by side, whichever of them
\* moves.
THEOREM IngestTypesHold == IngestSpec => []TypesOK
<1>1. TypeOK /\ ImapTypeOK => TypesOK
  BY DEF TypesOK
<1>2. ImapInv => ImapTypeOK
  BY ImapInvTypes
<1>3. QED
  BY <1>1, <1>2, IngestIsCapture, IngestIsPoller, CaptureTypesHold, ImapInvInit,
     ImapInvStep, PTL
==============================================================================
