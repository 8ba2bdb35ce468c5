------------------------ MODULE ExtractionQueueProofs ------------------------
(***************************************************************************)
(* Proofs about the extraction queue, for any number of items, workers,    *)
(* attempts and time units.                                                *)
(*                                                                         *)
(* TypeOK and RetryCap hold of every deployment.  The lease properties     *)
(* hold of a Hosted one: every run claims its item first, and the platform *)
(* kills an invocation before its claims are old enough to be orphans.     *)
(***************************************************************************)
EXTENDS ExtractionQueue, FiniteSetTheorems, TLAPS

Hosted == InlineItems = {} /\ RunLimit < OrphanAfter

-----------------------------------------------------------------------------
(* Types and the retry cap.                                                *)

\* A row that was never captured has no attempts; a worker that runs or has
\* run an item knows which.
Capped ==
  /\ RetryCap
  /\ \A i \in Items : status[i] = "none" => attempts[i] = 0
  /\ \A w \in Workers : pc[w] \in {"extract", "answer"} => cur[w] \in Items

TypeInv == TypeOK /\ Capped

LEMMA ItemsAreNumbers == Items \subseteq Nat /\ NoItem \notin Items
  BY QueueAssumption DEF Items, NoItem

\* The rows a claim takes are rows that are 'stored'.
LEMMA OldestAreStored ==
  ASSUME NEW n
  PROVE  OldestStored(n) \subseteq Stored /\ Stored \subseteq Items
  BY DEF OldestStored, Stored

LEMMA TypeInit == Init => TypeInv
  BY QueueAssumption
  DEF Init, TypeInv, TypeOK, Capped, RetryCap, Items, Status, Control, Kind,
      NoClaim, NoItem

\* The claim keeps the rows typed because a stored row has an attempt left.
LEMMA ClaimTypes ==
  ASSUME TypeInv, NEW S, S \subseteq Stored, Claim(S)
  PROVE  /\ status'   \in [Items -> Status]
         /\ attempts' \in [Items -> 0..MaxAttempts]
         /\ claimAge' \in [Items -> {NoClaim} \cup 0..OrphanAfter]
         /\ RetryCap'
         /\ \A i \in Items : status'[i] = "none" => attempts'[i] = 0
<1>1. \A i \in S : attempts[i] < MaxAttempts
  BY DEF TypeInv, Capped, RetryCap, Stored
<1>2. \A i \in Items : attempts[i] \in 0..MaxAttempts
  BY DEF TypeInv, TypeOK
<1>3. attempts' \in [Items -> 0..MaxAttempts]
  BY <1>1, <1>2, QueueAssumption DEF Claim
<1>4. status' \in [Items -> Status]
  BY DEF Claim, TypeInv, TypeOK, Status
<1>5. claimAge' \in [Items -> {NoClaim} \cup 0..OrphanAfter]
  BY QueueAssumption DEF Claim, TypeInv, TypeOK
<1>6. RetryCap'
  BY DEF Claim, TypeInv, Capped, RetryCap
<1>7. \A i \in Items : status'[i] = "none" => attempts'[i] = 0
  BY DEF Claim, TypeInv, Capped
<1>8. QED  BY <1>3, <1>4, <1>5, <1>6, <1>7

LEMMA TypeStep == TypeInv /\ [Next]_vars => TypeInv'
<1> SUFFICES ASSUME TypeInv, [Next]_vars PROVE TypeInv'
  OBVIOUS
<1> USE QueueAssumption, ItemsAreNumbers
<1>0. CASE UNCHANGED vars
  BY <1>0 DEF vars, TypeInv, TypeOK, Capped, RetryCap
<1>1. ASSUME NEW w \in Workers, CaptureAndKick(w) PROVE TypeInv'
  BY <1>1 DEF CaptureAndKick, TypeInv, TypeOK, Capped, RetryCap, Status,
              Control, Kind, history
<1>2. ASSUME NEW w \in Workers, CaptureInline(w) PROVE TypeInv'
  <2>1. InlineItems \subseteq Items  BY DEF Items
  <2>2. QED
    BY <1>2, <2>1 DEF CaptureInline, TypeInv, TypeOK, Capped, RetryCap, Status,
              Control, Kind, history
<1>3. ASSUME NEW w \in Workers, StartTick(w) PROVE TypeInv'
  BY <1>3 DEF StartTick, TypeInv, TypeOK, Capped, RetryCap, Control, Kind,
              rows, history
<1>4. ASSUME NEW w \in Workers, RequeueOrphans(w) PROVE TypeInv'
  BY <1>4 DEF RequeueOrphans, Requeued, Retryable, TypeInv, TypeOK, Capped,
              RetryCap, Status, Control, NoClaim, history
<1>5. ASSUME NEW w \in Workers, AbandonExhausted(w) PROVE TypeInv'
  BY <1>5 DEF AbandonExhausted, TypeInv, TypeOK, Capped, RetryCap, Status,
              Control, history
<1>6. ASSUME NEW w \in Workers, KickClaim(w) PROVE TypeInv'
  <2>1. OldestStored(KickMax) \subseteq Stored
        /\ OldestStored(KickMax) \subseteq Items
    BY OldestAreStored
  <2>2. Claim(OldestStored(KickMax))  BY <1>6 DEF KickClaim
  <2>3. QED
    BY <1>6, <2>1, <2>2, ClaimTypes
    DEF KickClaim, TypeInv, TypeOK, Capped, Control, history
<1>7. ASSUME NEW w \in Workers, TickClaim(w) PROVE TypeInv'
  <2>1. OldestStored(1) \subseteq Stored /\ OldestStored(1) \subseteq Items
    BY OldestAreStored
  <2>2. Claim(OldestStored(1))  BY <1>7 DEF TickClaim
  <2>3. QED
    BY <1>7, <2>1, <2>2, ClaimTypes
    DEF TickClaim, TypeInv, TypeOK, Capped, Control, history
<1>8. ASSUME NEW w \in Workers, BeginRun(w) PROVE TypeInv'
  BY <1>8 DEF BeginRun, TypeInv, TypeOK, Capped, RetryCap, Status, Control,
              history
<1>9. ASSUME NEW w \in Workers, FinishRun(w) PROVE TypeInv'
  BY <1>9 DEF FinishRun, TypeInv, TypeOK, Capped, RetryCap, Status, Control,
              history
<1>10. ASSUME NEW w \in Workers, FailRun(w) PROVE TypeInv'
  BY <1>10 DEF FailRun, TypeInv, TypeOK, Capped, RetryCap, Status, Control,
               history
<1>11. ASSUME NEW w \in Workers, Answer(w) PROVE TypeInv'
  BY <1>11 DEF Answer, TypeInv, TypeOK, Capped, RetryCap, Control, rows
<1>12. ASSUME NEW w \in Workers, NextBatch(w) PROVE TypeInv'
  BY <1>12 DEF NextBatch, TypeInv, TypeOK, Capped, RetryCap, Control, rows,
               history
<1>13. ASSUME NEW w \in Workers, Gone(w) PROVE TypeInv'
  BY <1>13 DEF Gone, TypeInv, TypeOK, Capped, RetryCap, Control, Kind, rows,
               history
<1>14. CASE TimePasses
  BY <1>14 DEF TimePasses, TypeInv, TypeOK, Capped, RetryCap, NoClaim, history
<1>15. CASE RequeueAnalyzed
  BY <1>15 DEF RequeueAnalyzed, TypeInv, TypeOK, Capped, RetryCap, Status,
               NoClaim, procs
<1>16. QED
  BY <1>0, <1>1, <1>2, <1>3, <1>4, <1>5, <1>6, <1>7, <1>8, <1>9, <1>10,
     <1>11, <1>12, <1>13, <1>14, <1>15
  DEF Next, WorkerStep, Capture, Recover, ClaimNext, Proceed, Settle, Return,
      Crash, Kill

\* The rows and the workers stay well typed, and the retry cap holds, in
\* every deployment, the MCP inline runs included.
THEOREM TypeCorrect == Spec => [](TypeOK /\ RetryCap)
<1>1. TypeInv => TypeOK /\ RetryCap  BY DEF TypeInv, Capped
<1>2. QED  BY <1>1, TypeInit, TypeStep, PTL DEF Spec

\* Every variable of the queue keeps its type, in every deployment: attempts and
\* claim ages stay within the cap and the orphan age the statements compare with.
THEOREM QueueTypesHold == Spec => []TypeOK
<1>1. TypeOK /\ RetryCap => TypeOK  OBVIOUS
<1>2. QED  BY <1>1, TypeCorrect, PTL

-----------------------------------------------------------------------------
(* The lease, in a hosted deployment.                                      *)

\* An item in a live invocation's hands is 'analyzing', and its claim is not
\* older than the invocation that made it.
Leased ==
  \A w \in Workers : \A i \in batch[w] :
    status[i] = "analyzing" /\ claimAge[i] \in 0..life[w]

\* Where an invocation holds nothing, and what it holds where it runs.
Holdings ==
  \A w \in Workers :
    /\ pc[w] \in {"idle", "recover", "abandon", "claim"} => batch[w] = {}
    /\ pc[w] = "extract" => cur[w] \in batch[w]

LeaseInv == TypeInv /\ ExclusiveLease /\ Leased /\ Holdings

\* The heart of the lease: nothing in a live invocation's hands looks stale,
\* because RunLimit < OrphanAfter.
LEMMA HeldIsFresh ==
  ASSUME Hosted, LeaseInv, NEW w \in Workers, NEW i \in batch[w]
  PROVE  ~Stale(i)
<1>1. i \in Items /\ life[w] \in 0..RunLimit  BY DEF LeaseInv, TypeInv, TypeOK
<1>2. claimAge[i] \in 0..life[w]  BY DEF LeaseInv, Leased
<1>3. QED
  BY <1>1, <1>2, QueueAssumption DEF Hosted, Stale, NoClaim

LEMMA LeaseInit == Init => LeaseInv
  BY TypeInit DEF Init, LeaseInv, ExclusiveLease, Leased, Holdings

\* A claim takes rows nobody holds and stamps them with the present.
LEMMA ClaimLeases ==
  ASSUME LeaseInv, NEW w \in Workers, NEW S, S \subseteq Stored,
         batch[w] = {}, Claim(S), batch' = [batch EXCEPT ![w] = S],
         pc' = [pc EXCEPT ![w] = "loop"], UNCHANGED <<life, cur>>
  PROVE  ExclusiveLease' /\ Leased' /\ Holdings'
<1>1. \A x \in Workers : batch[x] \cap S = {}
  BY DEF LeaseInv, Leased, Stored
<1>2. batch \in [Workers -> SUBSET Items] /\ pc \in [Workers -> Control]
      /\ life \in [Workers -> 0..RunLimit]
  BY DEF LeaseInv, TypeInv, TypeOK
<1>3. S \subseteq Items  BY DEF Stored
<1>4. ExclusiveLease'
  BY <1>1, <1>2 DEF LeaseInv, ExclusiveLease
<1>5. Leased'
  <2>1. ASSUME NEW x \in Workers, NEW i \in batch'[x]
        PROVE  status'[i] = "analyzing" /\ claimAge'[i] \in 0..life'[x]
    <3>1. CASE x = w
      <4>1. i \in S  BY <3>1, <1>2, <2>1
      <4>2. status'[i] = "analyzing" /\ claimAge'[i] = 0
        BY <4>1, <1>3 DEF Claim
      <4>3. QED  BY <4>2, <1>2, QueueAssumption
    <3>2. CASE x # w
      <4>1. i \in batch[x] /\ i \notin S  BY <3>2, <1>1, <1>2, <2>1
      <4>2. i \in Items  BY <4>1, <1>2
      <4>3. status'[i] = status[i] /\ claimAge'[i] = claimAge[i]
        BY <4>1, <4>2 DEF Claim
      <4>4. QED  BY <4>1, <4>3 DEF LeaseInv, Leased
    <3>3. QED  BY <3>1, <3>2
  <2>2. QED  BY <2>1 DEF Leased
<1>6. Holdings'
  BY <1>2 DEF LeaseInv, Holdings, Control
<1>7. QED  BY <1>4, <1>5, <1>6

LEMMA LeaseStep == Hosted /\ LeaseInv /\ [Next]_vars => LeaseInv'
<1> SUFFICES ASSUME Hosted, LeaseInv, [Next]_vars
             PROVE  ExclusiveLease' /\ Leased' /\ Holdings'
  BY TypeStep DEF LeaseInv
<1> USE QueueAssumption
<1>a. /\ batch \in [Workers -> SUBSET Items] /\ pc \in [Workers -> Control]
      /\ life \in [Workers -> 0..RunLimit]
      /\ status \in [Items -> Status]
      /\ claimAge \in [Items -> {NoClaim} \cup 0..OrphanAfter]
      /\ cur \in [Workers -> Items \cup {NoItem}]
  BY DEF LeaseInv, TypeInv, TypeOK
<1>b. ExclusiveLease /\ Leased /\ Holdings  BY DEF LeaseInv
<1>0. CASE UNCHANGED vars
  BY <1>0, <1>b DEF vars, ExclusiveLease, Leased, Holdings
<1>1. ASSUME NEW w \in Workers, CaptureAndKick(w)
      PROVE  ExclusiveLease' /\ Leased' /\ Holdings'
  BY <1>1, <1>a, <1>b DEF CaptureAndKick, ExclusiveLease, Leased, Holdings,
                          Control, history
<1>2. ASSUME NEW w \in Workers, CaptureInline(w) PROVE FALSE
  BY <1>2 DEF CaptureInline, Hosted
<1>3. ASSUME NEW w \in Workers, StartTick(w)
      PROVE  ExclusiveLease' /\ Leased' /\ Holdings'
  BY <1>3, <1>a, <1>b DEF StartTick, ExclusiveLease, Leased, Holdings,
                          Control, rows, history
<1>4. ASSUME NEW w \in Workers, RequeueOrphans(w)
      PROVE  ExclusiveLease' /\ Leased' /\ Holdings'
  <2>1. \A x \in Workers : \A i \in batch[x] : i \in Items /\ i \notin Requeued
    BY HeldIsFresh, <1>a, <1>b DEF Requeued, Leased
  <2>2. QED
    BY <1>4, <2>1, <1>a, <1>b DEF RequeueOrphans, ExclusiveLease, Leased,
                                  Holdings, Control, history
<1>5. ASSUME NEW w \in Workers, AbandonExhausted(w)
      PROVE  ExclusiveLease' /\ Leased' /\ Holdings'
  <2>1. \A x \in Workers : \A i \in batch[x] : i \in Items /\ i \notin Abandoned
    BY HeldIsFresh, <1>a DEF Abandoned
  <2>2. QED
    BY <1>5, <2>1, <1>a, <1>b DEF AbandonExhausted, ExclusiveLease, Leased,
                                  Holdings, Control, history
<1>6. ASSUME NEW w \in Workers, KickClaim(w)
      PROVE  ExclusiveLease' /\ Leased' /\ Holdings'
  <2>1. batch[w] = {}  BY <1>6, <1>b DEF KickClaim, Holdings
  <2>2. QED
    BY <1>6, <2>1, OldestAreStored, ClaimLeases DEF KickClaim
<1>7. ASSUME NEW w \in Workers, TickClaim(w)
      PROVE  ExclusiveLease' /\ Leased' /\ Holdings'
  <2>1. batch[w] = {}  BY <1>7, <1>b DEF TickClaim, Holdings
  <2>2. QED
    BY <1>7, <2>1, OldestAreStored, ClaimLeases DEF TickClaim
<1>8. ASSUME NEW w \in Workers, BeginRun(w)
      PROVE  ExclusiveLease' /\ Leased' /\ Holdings'
  BY <1>8, <1>a, <1>b DEF BeginRun, ExclusiveLease, Leased, Holdings,
                          Control, history
<1>9. ASSUME NEW w \in Workers, FinishRun(w) \/ FailRun(w)
      PROVE  ExclusiveLease' /\ Leased' /\ Holdings'
  <2>1. cur[w] \in batch[w] /\ cur[w] \in Items
    BY <1>9, <1>a, <1>b DEF FinishRun, FailRun, Holdings
  <2>2. /\ batch' = [batch EXCEPT ![w] = @ \ {cur[w]}]
        /\ \A i \in Items : i # cur[w] => status'[i] = status[i]
        /\ \A x \in Workers : x # w => pc'[x] = pc[x] /\ cur'[x] = cur[x]
        /\ pc'[w] \in {"answer", "loop"}
        /\ claimAge' = claimAge /\ life' = life
    BY <1>9, <1>a DEF FinishRun, FailRun
  <2>3. \A x \in Workers : \A i \in batch'[x] :
           i \in batch[x] /\ i \in Items /\ i # cur[w]
    BY <2>1, <2>2, <1>a, <1>b DEF ExclusiveLease
  <2>4. Leased'
    BY <2>2, <2>3, <1>b DEF Leased
  <2>5. ExclusiveLease'
    BY <2>2, <1>a, <1>b DEF ExclusiveLease
  <2>6. Holdings'
    BY <2>2, <1>a, <1>b DEF Holdings
  <2>7. QED  BY <2>4, <2>5, <2>6
<1>10. ASSUME NEW w \in Workers, Answer(w)
       PROVE  ExclusiveLease' /\ Leased' /\ Holdings'
  BY <1>10, <1>a, <1>b DEF Answer, ExclusiveLease, Leased, Holdings,
                           Control, rows
<1>11. ASSUME NEW w \in Workers, NextBatch(w)
       PROVE  ExclusiveLease' /\ Leased' /\ Holdings'
  BY <1>11, <1>a, <1>b DEF NextBatch, ExclusiveLease, Leased, Holdings,
                           Control, rows, history
<1>12. ASSUME NEW w \in Workers, Gone(w)
       PROVE  ExclusiveLease' /\ Leased' /\ Holdings'
  BY <1>12, <1>a, <1>b DEF Gone, ExclusiveLease, Leased, Holdings,
                           Control, rows, history
<1>13. CASE TimePasses
  <2>1. ASSUME NEW x \in Workers, NEW i \in batch[x]
        PROVE  status'[i] = "analyzing" /\ claimAge'[i] \in 0..life'[x]
    <3>1. pc[x] # "idle" /\ life[x] < RunLimit
      BY <1>13, <1>b DEF TimePasses, Holdings
    <3>2. i \in Items /\ claimAge[i] \in 0..life[x] /\ status[i] = "analyzing"
      BY <1>a, <1>b DEF Leased
    <3>3. claimAge'[i] = claimAge[i] + 1 /\ life'[x] = life[x] + 1
      BY <1>13, <3>1, <3>2, <1>a DEF TimePasses, Hosted
    <3>4. QED  BY <1>13, <3>1, <3>2, <3>3, <1>a DEF TimePasses
  <2>2. QED
    BY <1>13, <2>1, <1>b DEF TimePasses, ExclusiveLease, Leased, Holdings
<1>14. CASE RequeueAnalyzed
  BY <1>14, <1>a, <1>b DEF RequeueAnalyzed, ExclusiveLease, Leased, Holdings,
                           procs
<1>15. QED
  BY <1>0, <1>1, <1>2, <1>3, <1>4, <1>5, <1>6, <1>7, <1>8, <1>9, <1>10,
     <1>11, <1>12, <1>13, <1>14
  DEF Next, WorkerStep, Capture, Recover, ClaimNext, Proceed, Settle, Return,
      Crash, Kill

LEMMA LeaseInvariant == ASSUME Hosted PROVE Spec => []LeaseInv
  BY LeaseInit, LeaseStep, PTL DEF Spec

\* In a hosted deployment an item is in the hands of one live invocation at
\* most: the claim, the recovery, crashes and the requeue never overlap runs.
THEOREM LeaseIsExclusive == ASSUME Hosted PROVE Spec => []ExclusiveLease
<1>1. LeaseInv => ExclusiveLease  BY DEF LeaseInv
<1>2. QED  BY <1>1, LeaseInvariant, PTL

\* In a hosted deployment the recovery puts back only what no live
\* invocation holds.
THEOREM OnlyOrphansRecovered == ASSUME Hosted PROVE Spec => RecoversOnlyOrphans
<1> DEFINE A == \A w \in Workers : \A i \in batch[w] :
                  status[i] = "analyzing" => status'[i] # "stored"
<1>1. LeaseInv /\ [Next]_vars => [A]_vars
  <2> SUFFICES ASSUME LeaseInv, Next, NEW w \in Workers, NEW i \in batch[w],
                      status[i] = "analyzing", status'[i] = "stored"
               PROVE  FALSE
    OBVIOUS
  <2>1. i \in Items /\ status \in [Items -> Status]
    BY DEF LeaseInv, TypeInv, TypeOK
  <2>2. ~Stale(i)  BY HeldIsFresh
  <2>3. i \notin Requeued /\ i \notin Abandoned
    BY <2>2 DEF Requeued, Abandoned
  <2>4. QED
    BY <2>1, <2>3
    DEF Next, WorkerStep, Capture, Recover, ClaimNext, Proceed, Settle, Return,
        Crash, Kill, CaptureAndKick, CaptureInline, StartTick, RequeueOrphans,
        AbandonExhausted, KickClaim, TickClaim, Claim, BeginRun, FinishRun,
        FailRun, Answer, NextBatch, Gone, TimePasses, RequeueAnalyzed, rows
<1>2. QED
  BY <1>1, LeaseInvariant, PTL DEF Spec, RecoversOnlyOrphans

\* A step that reopens an analysed item is a requeue.
LEMMA AnalyzedStep ==
  ASSUME Hosted, LeaseInv, [Next]_vars, NEW i \in Items,
         status[i] = "analyzed", status'[i] # "analyzed"
  PROVE  requeues' = requeues + 1
<1>1. status \in [Items -> Status]  BY DEF LeaseInv, TypeInv, TypeOK
<1>2. \A w \in Workers : i \notin batch[w] /\ (pc[w] = "extract" => cur[w] # i)
  BY DEF LeaseInv, Leased, Holdings
<1>3. i \notin Requeued /\ i \notin Abandoned /\ i \notin Stored
  BY DEF Requeued, Abandoned, Stored
<1>4. \A n : i \notin OldestStored(n)  BY <1>3, OldestAreStored
<1>5. QED
  BY <1>1, <1>2, <1>3, <1>4
  DEF Next, WorkerStep, Capture, Recover, ClaimNext, Proceed, Settle, Return,
      Crash, Kill, CaptureAndKick, CaptureInline, StartTick, RequeueOrphans,
      AbandonExhausted, KickClaim, TickClaim, Claim, BeginRun, FinishRun,
      FailRun, Answer, NextBatch, Gone, TimePasses, RequeueAnalyzed, rows, vars

\* In a hosted deployment only the requeue endpoint reopens an analysed item.
THEOREM AnalyzedStays == ASSUME Hosted PROVE Spec => AnalyzedIsFinal
<1> DEFINE A == \A i \in Items :
                  status[i] = "analyzed" /\ status'[i] # "analyzed"
                    => requeues' = requeues + 1
<1>1. LeaseInv /\ [Next]_vars => [A]_vars
  BY AnalyzedStep
<1>2. QED
  BY <1>1, LeaseInvariant, PTL DEF Spec, AnalyzedIsFinal

-----------------------------------------------------------------------------
(* The answers.                                                            *)

\* The invocations that have analysed an item and not yet answered for it.
Owing(i) == {w \in Workers : pc[w] = "answer" /\ cur[w] = i}

\* Answers given and due: one while the item is 'analyzed', and one for each
\* requeue.
Accounted ==
  \A i \in Items :
    /\ IsFiniteSet(Owing(i))
    /\ answers[i] + Cardinality(Owing(i))
         <= requeues + (IF status[i] = "analyzed" THEN 1 ELSE 0)

LEMMA AccountedInit == Init => Accounted
<1> SUFFICES ASSUME Init, NEW i \in Items
             PROVE  /\ IsFiniteSet(Owing(i))
                    /\ answers[i] + Cardinality(Owing(i))
                         <= requeues + (IF status[i] = "analyzed" THEN 1 ELSE 0)
  BY DEF Accounted
<1>1. Owing(i) = {}  BY DEF Init, Owing
<1>2. QED  BY <1>1, FS_EmptySet DEF Init

\* Only the end of a run makes an answer due, and only the reply pays one.
LEMMA OnlyFinishOwes ==
  ASSUME TypeInv, [Next]_vars, \A w \in Workers : ~FinishRun(w) /\ ~Answer(w)
  PROVE  /\ answers' = answers
         /\ requeues' \in {requeues, requeues + 1}
         /\ \A i \in Items : Owing(i)' \subseteq Owing(i)
<1>1. pc \in [Workers -> Control] /\ cur \in [Workers -> Items \cup {NoItem}]
  BY DEF TypeInv, TypeOK
<1>2. \A w \in Workers : pc'[w] = "answer" => pc[w] = "answer" /\ cur'[w] = cur[w]
  BY <1>1
  DEF Next, WorkerStep, Capture, Recover, ClaimNext, Proceed, Settle, Return,
      Crash, Kill, CaptureAndKick, CaptureInline, StartTick, RequeueOrphans,
      AbandonExhausted, KickClaim, TickClaim, BeginRun, FailRun, NextBatch,
      Gone, TimePasses, RequeueAnalyzed, rows, procs, vars
<1>3. answers' = answers /\ requeues' \in {requeues, requeues + 1}
  BY DEF Next, WorkerStep, Capture, Recover, ClaimNext, Proceed, Settle, Return,
         Crash, Kill, CaptureAndKick, CaptureInline, StartTick, RequeueOrphans,
         AbandonExhausted, KickClaim, TickClaim, BeginRun, FailRun, NextBatch,
         Gone, TimePasses, RequeueAnalyzed, history, vars
<1>4. QED  BY <1>2, <1>3 DEF Owing

LEMMA AccountedStep ==
  ASSUME Hosted, LeaseInv, Accounted, [Next]_vars
  PROVE  Accounted'
<1> SUFFICES ASSUME NEW i \in Items
             PROVE  /\ IsFiniteSet(Owing(i)')
                    /\ answers'[i] + Cardinality(Owing(i)')
                         <= requeues' + (IF status'[i] = "analyzed" THEN 1 ELSE 0)
  BY DEF Accounted
<1>a. /\ TypeInv /\ answers[i] \in Nat /\ requeues \in Nat
      /\ answers \in [Items -> Nat] /\ status \in [Items -> Status]
      /\ pc \in [Workers -> Control] /\ cur \in [Workers -> Items \cup {NoItem}]
  BY QueueAssumption DEF LeaseInv, TypeInv, TypeOK
<1>b. /\ IsFiniteSet(Owing(i))
      /\ answers[i] + Cardinality(Owing(i))
           <= requeues + (IF status[i] = "analyzed" THEN 1 ELSE 0)
  BY DEF Accounted
<1>c. Cardinality(Owing(i)) \in Nat  BY <1>b, FS_CardinalityType
<1>1. ASSUME NEW w \in Workers, FinishRun(w)
      PROVE  /\ IsFiniteSet(Owing(i)')
             /\ answers'[i] + Cardinality(Owing(i)')
                  <= requeues' + (IF status'[i] = "analyzed" THEN 1 ELSE 0)
  <2>1. /\ pc' = [pc EXCEPT ![w] = "answer"] /\ cur' = cur
        /\ status' = [status EXCEPT ![cur[w]] = "analyzed"]
        /\ answers' = answers /\ requeues' = requeues
    BY <1>1 DEF FinishRun, history
  <2>2. CASE cur[w] = i
    <3>1. status[i] = "analyzing" /\ status'[i] = "analyzed"
      BY <1>1, <1>a, <2>1, <2>2 DEF FinishRun, LeaseInv, Holdings, Leased
    <3>2. Owing(i)' = Owing(i) \cup {w}  BY <1>a, <2>1, <2>2 DEF Owing
    <3>3. w \notin Owing(i)  BY <1>1 DEF FinishRun, Owing
    <3>4. IsFiniteSet(Owing(i)') /\ Cardinality(Owing(i)') = Cardinality(Owing(i)) + 1
      BY <3>2, <3>3, <1>b, FS_AddElement
    <3>5. QED  BY <3>1, <3>4, <2>1, <1>a, <1>b, <1>c
  <2>3. CASE cur[w] # i
    <3>1. Owing(i)' = Owing(i)
      <4>1. pc[w] # "answer"  BY <1>1 DEF FinishRun
      <4>2. QED  BY <4>1, <1>a, <2>1, <2>3 DEF Owing
    <3>2. status'[i] = status[i]  BY <2>1, <2>3, <1>a
    <3>3. QED  BY <3>1, <3>2, <2>1, <1>b
  <2>4. QED  BY <2>2, <2>3
<1>2. ASSUME NEW w \in Workers, Answer(w)
      PROVE  /\ IsFiniteSet(Owing(i)')
             /\ answers'[i] + Cardinality(Owing(i)')
                  <= requeues' + (IF status'[i] = "analyzed" THEN 1 ELSE 0)
  <2>1. /\ pc[w] = "answer" /\ pc' = [pc EXCEPT ![w] = "loop"]
        /\ cur' = [cur EXCEPT ![w] = NoItem]
        /\ status' = status /\ requeues' = requeues
    BY <1>2 DEF Answer, rows
  <2>2. CASE cur[w] = i
    <3>1. Owing(i)' = Owing(i) \ {w} /\ w \in Owing(i)
      BY <1>a, <2>1, <2>2 DEF Owing
    <3>2. IsFiniteSet(Owing(i)') /\ Cardinality(Owing(i)') = Cardinality(Owing(i)) - 1
      BY <3>1, <1>b, FS_RemoveElement
    <3>3. answers'[i] <= answers[i] + 1 /\ answers'[i] \in Nat
      BY <1>2, <1>a, <2>2 DEF Answer
    <3>4. QED  BY <3>2, <3>3, <2>1, <1>a, <1>b, <1>c
  <2>3. CASE cur[w] # i
    <3>1. Owing(i)' = Owing(i)  BY <1>a, <2>1, <2>3 DEF Owing
    <3>2. answers'[i] = answers[i]  BY <1>2, <1>a, <2>3 DEF Answer
    <3>3. QED  BY <3>1, <3>2, <2>1, <1>b
  <2>4. QED  BY <2>2, <2>3
<1>3. CASE \A w \in Workers : ~FinishRun(w) /\ ~Answer(w)
  <2>1. /\ answers' = answers /\ requeues' \in {requeues, requeues + 1}
        /\ Owing(i)' \subseteq Owing(i)
    BY <1>3, <1>a, OnlyFinishOwes
  <2>2. /\ IsFiniteSet(Owing(i)') /\ Cardinality(Owing(i)') <= Cardinality(Owing(i))
        /\ Cardinality(Owing(i)') \in Nat
    BY <2>1, <1>b, FS_Subset, FS_CardinalityType
  <2>3. status[i] = "analyzed" => status'[i] = "analyzed" \/ requeues' = requeues + 1
    BY AnalyzedStep
  <2>4. QED  BY <2>1, <2>2, <2>3, <1>a, <1>b, <1>c
<1>4. QED  BY <1>1, <1>2, <1>3

\* In a hosted deployment a sender is answered at most once, and once more
\* for each requeue.
THEOREM SenderIsAnsweredOnce == ASSUME Hosted PROVE Spec => []AnsweredOnce
<1>1. LeaseInv /\ Accounted => AnsweredOnce
  <2> SUFFICES ASSUME LeaseInv, Accounted, NEW i \in Items
               PROVE  answers[i] <= 1 + requeues
    BY DEF AnsweredOnce
  <2>1. answers[i] \in Nat /\ requeues \in Nat
    BY QueueAssumption DEF LeaseInv, TypeInv, TypeOK
  <2>2. Cardinality(Owing(i)) \in Nat  BY FS_CardinalityType DEF Accounted
  <2>3. QED  BY <2>1, <2>2 DEF Accounted
<1>2. LeaseInv /\ Accounted /\ [Next]_vars => Accounted'
  BY AccountedStep
<1>3. QED  BY <1>1, <1>2, AccountedInit, LeaseInvariant, PTL DEF Spec

-----------------------------------------------------------------------------
(* The refinement: an invocation that has an item in its batch owns the    *)
(* job on the board.  Nobody is no invocation.                             *)

LEMMA HolderHolds ==
  ASSUME ExclusiveLease, NEW w \in Workers, NEW i \in batch[w]
  PROVE  Holder(i) = w
  BY DEF ExclusiveLease, Holder

LEMMA NobodyHolds ==
  ASSUME NEW i, \A w \in Workers : i \notin batch[w]
  PROVE  Holder(i) = NoItem
  BY DEF Holder

LEMMA HolderHoldsNext ==
  ASSUME ExclusiveLease', NEW w \in Workers, NEW i \in batch'[w]
  PROVE  Holder(i)' = w
  BY DEF ExclusiveLease, Holder

LEMMA NobodyHoldsNext ==
  ASSUME NEW i, \A w \in Workers : i \notin batch'[w]
  PROVE  Holder(i)' = NoItem
  BY DEF Holder


LEMMA BoardInit == Init => Board!BoardInit
<1> SUFFICES ASSUME Init PROVE Board!BoardInit
  OBVIOUS
<1>1. \A i \in Items : PhaseOf(i) = "absent"
  BY DEF Init, PhaseOf
<1>2. \A i \in Items : Holder(i) = NoItem
  BY NobodyHolds DEF Init
<1>3. QED  BY <1>1, <1>2 DEF Init, Board!BoardInit

\* A step that leaves an item to whoever had it.
LEMMA SameHolder ==
  ASSUME ExclusiveLease, ExclusiveLease', NEW i,
         \A w \in Workers : i \in batch'[w] <=> i \in batch[w]
  PROVE  Holder(i)' = Holder(i)
<1>1. CASE \E w \in Workers : i \in batch[w]
  <2>1. PICK w \in Workers : i \in batch[w]  BY <1>1
  <2>2. Holder(i) = w  BY <2>1, HolderHolds
  <2>3. Holder(i)' = w  BY <2>1, HolderHoldsNext
  <2>4. QED  BY <2>2, <2>3
<1>2. CASE \A w \in Workers : i \notin batch[w]
  BY <1>2, NobodyHolds, NobodyHoldsNext
<1>3. QED  BY <1>1, <1>2

\* What a step does to the board, item by item.
LEMMA Stutters ==
  ASSUME \A i \in Items : /\ PhaseOf(i)' = PhaseOf(i) /\ Holder(i)' = Holder(i),
         attempts' = attempts
  PROVE  UNCHANGED Board!boardVars
  BY DEF Board!boardVars

LEMMA Posts ==
  ASSUME NEW j \in Items, PhaseOf(j) = "absent", PhaseOf(j)' = "open",
         \A i \in Items \ {j} : PhaseOf(i)' = PhaseOf(i),
         \A i \in Items : Holder(i)' = Holder(i), attempts' = attempts
  PROVE  Board!BoardNext
<1>1. Board!Post(j)  BY DEF Board!Post, Board!Put
<1>2. QED  BY <1>1 DEF Board!BoardNext

LEMMA Takes ==
  ASSUME NEW w \in Workers, NEW S \in SUBSET Items,
         \A i \in S : /\ PhaseOf(i) = "open" /\ attempts[i] < MaxAttempts
                      /\ PhaseOf(i)' = "taken" /\ Holder(i)' = w,
         \A i \in Items \ S : PhaseOf(i)' = PhaseOf(i) /\ Holder(i)' = Holder(i),
         attempts' = [i \in Items |-> IF i \in S THEN attempts[i] + 1 ELSE attempts[i]]
  PROVE  Board!BoardNext
<1>1. Board!Take(w, S)  BY DEF Board!Take, Board!Put
<1>2. QED  BY <1>1 DEF Board!BoardNext

LEMMA Ends ==
  ASSUME NEW w \in Workers, NEW j \in Items,
         PhaseOf(j) = "taken", Holder(j) = w, Holder(j)' = NoItem,
         \/ PhaseOf(j)' = "done"
         \/ PhaseOf(j)' = IF attempts[j] < MaxAttempts THEN "open" ELSE "dead",
         \A i \in Items \ {j} : PhaseOf(i)' = PhaseOf(i) /\ Holder(i)' = Holder(i),
         attempts' = attempts
  PROVE  Board!BoardNext
<1>1. Board!Complete(w, j) \/ Board!GiveUp(w, j)
  BY DEF Board!Complete, Board!GiveUp, Board!Put
<1>2. QED  BY <1>1 DEF Board!BoardNext

LEMMA Reclaims ==
  ASSUME NEW S \in SUBSET Items, NEW phase,
         \A i \in S : PhaseOf(i) = "taken" /\ Holder(i) = NoItem /\ PhaseOf(i)' = phase,
         \A i \in Items \ S : PhaseOf(i)' = PhaseOf(i),
         \A i \in Items : Holder(i)' = Holder(i), attempts' = attempts,
         \/ phase = "open" /\ \A i \in S : attempts[i] < MaxAttempts
         \/ phase = "dead" /\ \A i \in S : attempts[i] = MaxAttempts
  PROVE  Board!BoardNext
<1>1. Board!Reclaim(S) \/ Board!Bury(S)
  BY DEF Board!Reclaim, Board!Bury, Board!Ownerless, Board!Put
<1>2. QED  BY <1>1 DEF Board!BoardNext

LEMMA Reopens ==
  ASSUME NEW S \in SUBSET Items,
         \A i \in S : PhaseOf(i) = "done" /\ PhaseOf(i)' = "open",
         \A i \in Items \ S : PhaseOf(i)' = PhaseOf(i),
         \A i \in Items : Holder(i)' = Holder(i),
         attempts' = [i \in Items |-> IF i \in S THEN 0 ELSE attempts[i]]
  PROVE  Board!BoardNext
<1>1. Board!Reopen(S)  BY DEF Board!Reopen, Board!Put
<1>2. QED  BY <1>1 DEF Board!BoardNext

LEMMA Vanishes ==
  ASSUME NEW w \in Workers,
         \A i \in Items : /\ PhaseOf(i)' = PhaseOf(i)
                          /\ Holder(i)' = IF Holder(i) = w THEN NoItem ELSE Holder(i),
         attempts' = attempts
  PROVE  Board!BoardNext
<1>1. Board!Vanish(w)  BY DEF Board!Vanish
<1>2. QED  BY <1>1 DEF Board!BoardNext

LEMMA BoardStep ==
  ASSUME Hosted, NoItem \notin Workers, LeaseInv, LeaseInv', [Next]_vars
  PROVE  Board!BoardNext \/ UNCHANGED Board!boardVars
<1> USE QueueAssumption
<1>a. /\ status \in [Items -> Status] /\ attempts \in [Items -> 0..MaxAttempts]
      /\ batch \in [Workers -> SUBSET Items] /\ pc \in [Workers -> Control]
      /\ cur \in [Workers -> Items \cup {NoItem}]
  BY DEF LeaseInv, TypeInv, TypeOK
<1>b. ExclusiveLease /\ ExclusiveLease' /\ Leased /\ Holdings  BY DEF LeaseInv
<1>0. CASE UNCHANGED <<status, attempts, batch>>
  <2>1. \A i \in Items : PhaseOf(i)' = PhaseOf(i)
    BY <1>0 DEF PhaseOf, Retryable
  <2>2. \A i \in Items : Holder(i)' = Holder(i)
    BY <1>0, <1>b, SameHolder
  <2>3. QED  BY <1>0, <2>1, <2>2, Stutters
<1>1. ASSUME NEW w \in Workers, CaptureAndKick(w)
      PROVE  Board!BoardNext
  <2>1. PICK j \in Items \ InlineItems :
               status[j] = "none" /\ status' = [status EXCEPT ![j] = "stored"]
    BY <1>1 DEF CaptureAndKick
  <2>2. attempts' = attempts /\ batch' = batch  BY <1>1 DEF CaptureAndKick
  <2>3. PhaseOf(j) = "absent" /\ PhaseOf(j)' = "open"
    BY <2>1, <1>a DEF PhaseOf
  <2>4. \A i \in Items \ {j} : PhaseOf(i)' = PhaseOf(i)
    BY <2>1, <2>2, <1>a DEF PhaseOf, Retryable
  <2>5. \A i \in Items : Holder(i)' = Holder(i)
    BY <2>2, <1>b, SameHolder
  <2>6. QED  BY <2>1, <2>2, <2>3, <2>4, <2>5, Posts
<1>2. ASSUME NEW w \in Workers, CaptureInline(w) PROVE FALSE
  BY <1>2 DEF CaptureInline, Hosted
<1>3. ASSUME NEW w \in Workers, NEW S, S \subseteq Stored, batch[w] = {},
             Claim(S), batch' = [batch EXCEPT ![w] = S]
      PROVE  Board!BoardNext
  <2>1. S \in SUBSET Items  BY <1>3 DEF Stored
  <2>2. ASSUME NEW i \in S
        PROVE  /\ PhaseOf(i) = "open" /\ attempts[i] < MaxAttempts
               /\ PhaseOf(i)' = "taken" /\ Holder(i)' = w
    <3>1. status[i] = "stored" /\ status'[i] = "analyzing"
      BY <1>3, <2>1, <2>2 DEF Stored, Claim
    <3>2. attempts[i] < MaxAttempts
      BY <3>1, <2>1, <2>2 DEF LeaseInv, TypeInv, Capped, RetryCap
    <3>3. i \in batch'[w]  BY <1>3, <1>a, <2>2
    <3>4. Holder(i)' = w  BY <3>3, <1>b, HolderHoldsNext
    <3>5. QED  BY <3>1, <3>2, <3>4 DEF PhaseOf
  <2>3. ASSUME NEW i \in Items \ S
        PROVE  PhaseOf(i)' = PhaseOf(i) /\ Holder(i)' = Holder(i)
    <3>1. status'[i] = status[i] /\ attempts'[i] = attempts[i]
      BY <1>3, <2>3 DEF Claim
    <3>2. \A x \in Workers : i \in batch'[x] <=> i \in batch[x]
      BY <1>3, <1>a, <2>3
    <3>3. QED  BY <3>1, <3>2, <1>b, SameHolder DEF PhaseOf, Retryable
  <2>4. attempts' = [i \in Items |-> IF i \in S THEN attempts[i] + 1 ELSE attempts[i]]
    BY <1>3 DEF Claim
  <2>5. QED  BY <2>1, <2>2, <2>3, <2>4, Takes
<1>4. ASSUME NEW w \in Workers, RequeueOrphans(w)
      PROVE  Board!BoardNext
  <2> DEFINE S == {i \in Requeued : status[i] = "analyzing"}
  <2>1. S \in SUBSET Items  BY DEF Requeued
  <2>2. attempts' = attempts /\ batch' = batch  BY <1>4 DEF RequeueOrphans
  <2>3. ASSUME NEW i \in S
        PROVE  PhaseOf(i) = "taken" /\ Holder(i) = NoItem /\ PhaseOf(i)' = "open"
    <3>1. Stale(i)  BY DEF Requeued
    <3>2. \A x \in Workers : i \notin batch[x]  BY <3>1, HeldIsFresh
    <3>3. status[i] = "analyzing" /\ status'[i] = "stored"
      BY <1>4, <2>1 DEF RequeueOrphans
    <3>4. QED  BY <3>2, <3>3, NobodyHolds DEF PhaseOf
  <2>4. ASSUME NEW i \in Items \ S PROVE PhaseOf(i)' = PhaseOf(i)
    <3>1. CASE i \in Requeued
      <4>1. status[i] = "failed" /\ Retryable(i) /\ status'[i] = "stored"
        BY <1>4, <3>1 DEF Requeued, RequeueOrphans
      <4>2. QED  BY <4>1 DEF PhaseOf
    <3>2. CASE i \notin Requeued
      <4>1. status'[i] = status[i]  BY <1>4, <3>2 DEF RequeueOrphans
      <4>2. QED  BY <4>1, <2>2 DEF PhaseOf, Retryable
    <3>3. QED  BY <3>1, <3>2
  <2>5. \A i \in Items : Holder(i)' = Holder(i)
    BY <2>2, <1>b, SameHolder
  <2>6. \A i \in S : attempts[i] < MaxAttempts  BY DEF Requeued, Retryable
  <2> HIDE DEF S
  <2>7. QED  BY <2>1, <2>2, <2>3, <2>4, <2>5, <2>6, Reclaims
<1>5. ASSUME NEW w \in Workers, AbandonExhausted(w)
      PROVE  Board!BoardNext
  <2>1. Abandoned \in SUBSET Items  BY DEF Abandoned
  <2>2. attempts' = attempts /\ batch' = batch  BY <1>5 DEF AbandonExhausted
  <2>3. ASSUME NEW i \in Abandoned
        PROVE  /\ PhaseOf(i) = "taken" /\ Holder(i) = NoItem /\ PhaseOf(i)' = "dead"
               /\ attempts[i] = MaxAttempts
    <3>1. \A x \in Workers : i \notin batch[x]  BY HeldIsFresh DEF Abandoned
    <3>2. status[i] = "analyzing" /\ status'[i] = "failed" /\ ~Retryable(i)
      BY <1>5, <2>1 DEF AbandonExhausted, Abandoned
    <3>3. ~Retryable(i)'  BY <3>2, <2>2 DEF Retryable
    <3>4. attempts[i] = MaxAttempts  BY <3>2, <2>1, <1>a DEF Retryable
    <3>5. QED  BY <3>1, <3>2, <3>3, <3>4, NobodyHolds DEF PhaseOf
  <2>4. \A i \in Items \ Abandoned : PhaseOf(i)' = PhaseOf(i)
    BY <1>5, <2>2 DEF AbandonExhausted, PhaseOf, Retryable
  <2>5. \A i \in Items : Holder(i)' = Holder(i)
    BY <2>2, <1>b, SameHolder
  <2>6. QED  BY <2>1, <2>2, <2>3, <2>4, <2>5, Reclaims
<1>6. ASSUME NEW w \in Workers, BeginRun(w)
      PROVE  UNCHANGED <<status, attempts, batch>>
  <2>1. PICK i \in batch[w] : status' = [status EXCEPT ![i] = "analyzing"]
    BY <1>6 DEF BeginRun
  <2>2. status[i] = "analyzing" /\ i \in Items  BY <1>a, <1>b DEF Leased
  <2>3. QED  BY <1>6, <2>1, <2>2, <1>a DEF BeginRun
<1>7. ASSUME NEW w \in Workers, FinishRun(w) \/ FailRun(w)
      PROVE  Board!BoardNext
  <2>0. PICK j \in Items : j = cur[w]
    BY <1>7, <1>a, <1>b DEF FinishRun, FailRun, Holdings
  <2>1. /\ j \in batch[w] /\ status[j] = "analyzing"
        /\ \A x \in Workers : x # w => j \notin batch[x]
    BY <1>7, <1>a, <1>b, <2>0
    DEF FinishRun, FailRun, Holdings, Leased, ExclusiveLease
  <2>2. /\ batch' = [batch EXCEPT ![w] = @ \ {j}]
        /\ \A i \in Items \ {j} : status'[i] = status[i]
        /\ attempts' = attempts
    BY <1>7, <1>a, <2>0 DEF FinishRun, FailRun
  <2>3. PhaseOf(j) = "taken" /\ Holder(j) = w
    BY <2>1, <1>b, HolderHolds DEF PhaseOf
  <2>4. Holder(j)' = NoItem
    <3>1. \A x \in Workers : j \notin batch'[x]  BY <2>1, <2>2, <1>a
    <3>2. QED  BY <3>1, NobodyHoldsNext
  <2>5. \/ PhaseOf(j)' = "done"
        \/ PhaseOf(j)' = IF attempts[j] < MaxAttempts THEN "open" ELSE "dead"
    <3>1. status'[j] = "analyzed" \/ status'[j] = "failed"
      BY <1>7, <1>a, <2>0, <2>1 DEF FinishRun, FailRun
    <3>2. QED  BY <3>1, <2>2 DEF PhaseOf, Retryable
  <2>6. ASSUME NEW i \in Items \ {j}
        PROVE  PhaseOf(i)' = PhaseOf(i) /\ Holder(i)' = Holder(i)
    <3>1. \A x \in Workers : i \in batch'[x] <=> i \in batch[x]
      BY <2>2, <1>a
    <3>2. QED  BY <3>1, <2>2, <1>b, SameHolder DEF PhaseOf, Retryable
  <2>7. QED  BY <2>1, <2>2, <2>3, <2>4, <2>5, <2>6, Ends
<1>8. ASSUME NEW w \in Workers, Gone(w)
      PROVE  Board!BoardNext
  <2>1. /\ status' = status /\ attempts' = attempts
        /\ batch' = [batch EXCEPT ![w] = {}]
    BY <1>8 DEF Gone, rows
  <2>2. \A i \in Items : PhaseOf(i)' = PhaseOf(i)
    BY <2>1 DEF PhaseOf, Retryable
  <2>3. ASSUME NEW i \in Items
        PROVE  Holder(i)' = IF Holder(i) = w THEN NoItem ELSE Holder(i)
    <3>1. CASE i \in batch[w]
      <4>1. \A x \in Workers : i \notin batch'[x]
        BY <3>1, <2>1, <1>a, <1>b DEF ExclusiveLease
      <4>2. QED  BY <4>1, <3>1, <1>b, HolderHolds, NobodyHoldsNext
    <3>2. CASE i \notin batch[w]
      <4>1. \A x \in Workers : i \in batch'[x] <=> i \in batch[x]
        BY <3>2, <2>1, <1>a
      <4>2. Holder(i) # w
        <5>1. CASE \E x \in Workers : i \in batch[x]
          BY <5>1, <3>2, <1>b, HolderHolds
        <5>2. CASE \A x \in Workers : i \notin batch[x]
          BY <5>2, NobodyHolds
        <5>3. QED  BY <5>1, <5>2
      <4>3. QED  BY <4>1, <4>2, <1>b, SameHolder
    <3>3. QED  BY <3>1, <3>2
  <2>4. QED  BY <2>1, <2>2, <2>3, Vanishes
<1>9. CASE RequeueAnalyzed
  <2> DEFINE S == {i \in Items : status[i] = "analyzed"}
  <2>1. /\ status' = [i \in Items |-> IF i \in S THEN "stored" ELSE status[i]]
        /\ attempts' = [i \in Items |-> IF i \in S THEN 0 ELSE attempts[i]]
        /\ batch' = batch
    BY <1>9 DEF RequeueAnalyzed, procs
  <2>2. \A i \in S : PhaseOf(i) = "done" /\ PhaseOf(i)' = "open"
    BY <2>1 DEF PhaseOf
  <2>3. \A i \in Items \ S : PhaseOf(i)' = PhaseOf(i)
    BY <2>1 DEF PhaseOf, Retryable
  <2>4. \A i \in Items : Holder(i)' = Holder(i)
    BY <2>1, <1>b, SameHolder
  <2>5. S \in SUBSET Items  OBVIOUS
  <2> HIDE DEF S
  <2>6. QED  BY <2>1, <2>2, <2>3, <2>4, <2>5, Reopens
<1>10. ASSUME NEW w \in Workers, KickClaim(w) \/ TickClaim(w)
       PROVE  Board!BoardNext
  <2>1. PICK n \in {1, KickMax} : /\ Claim(OldestStored(n))
                                  /\ batch' = [batch EXCEPT ![w] = OldestStored(n)]
    BY <1>10 DEF KickClaim, TickClaim
  <2>2. batch[w] = {}  BY <1>10, <1>b DEF KickClaim, TickClaim, Holdings
  <2>3. OldestStored(n) \subseteq Stored  BY OldestAreStored
  <2>4. QED  BY <2>1, <2>2, <2>3, <1>3
<1>11. ASSUME \/ \E w \in Workers : StartTick(w) \/ Answer(w) \/ NextBatch(w)
              \/ TimePasses
              \/ UNCHANGED vars
       PROVE  UNCHANGED <<status, attempts, batch>>
  BY <1>11 DEF StartTick, Answer, NextBatch, TimePasses, rows, vars
<1>12. QED
  BY <1>0, <1>1, <1>2, <1>4, <1>5, <1>6, <1>7, <1>8, <1>9, <1>10, <1>11
  DEF Next, WorkerStep, Capture, Recover, ClaimNext, Proceed, Settle, Return,
      Crash, Kill

\* In a hosted deployment the queue is a job board: at most one holder, only
\* the holder ends a job, only ownerless jobs go back, for any number of items
\* and invocations and any limits.
THEOREM QueueImplementsBoard ==
  ASSUME Hosted, NoItem \notin Workers
  PROVE  Spec => ImplementsJobBoard
<1>1. LeaseInv /\ LeaseInv' /\ [Next]_vars => [Board!BoardNext]_(Board!boardVars)
  BY BoardStep
<1>2. QED
  BY <1>1, BoardInit, LeaseInvariant, PTL
  DEF Spec, ImplementsJobBoard, Board!BoardSpec
==============================================================================
